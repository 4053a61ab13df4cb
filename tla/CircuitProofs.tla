---------------------------- MODULE CircuitProofs ----------------------------
(***************************************************************************)
(* Every step of Circuit keeps the invariant CircuitInv, part by part, and *)
(* the theorems that follow, for a path of any length, queues of any       *)
(* length and any number of writes, answers, lost links and stops.         *)
(***************************************************************************)
EXTENDS ConnectionProofs

-----------------------------------------------------------------------------
(* Each part of the invariant is kept.                                     *)

(* Steps elsewhere leave the client alone, and the pump does not go back.  *)
LEMMA Elsewhere ==
  ASSUME CircuitInv,
         \/ pumpEnds \/ pumpWrites \/ pumpReads \/ serviceEnds
         \/ \E i \in Relays : \/ ReaderIn(i) \/ ReaderOut(i) \/ Extension(i)
                              \/ extendTimesOut(i) \/ Cut(i)
  PROVE  UNCHANGED clientVars /\ (pump # "none" => pump' # "none")
<1>1. ASSUME pumpEnds \/ pumpWrites \/ pumpReads \/ serviceEnds
      PROVE  UNCHANGED clientVars /\ (pump # "none" => pump' # "none")
    <2>1. CASE pumpEnds
        BY <2>1 DEF pumpEnds
    <2>2. CASE pumpWrites
        BY <2>2 DEF pumpWrites
    <2>3. CASE pumpReads
        BY <2>3 DEF pumpReads
    <2>4. CASE serviceEnds
        BY <2>4 DEF serviceEnds
    <2> QED BY <1>1, <2>1, <2>2, <2>3, <2>4
<1>2. ASSUME NEW i \in Relays, Extension(i) \/ extendTimesOut(i) \/ Cut(i) \/ ReaderOut(i)
      PROVE  UNCHANGED clientVars /\ (pump # "none" => pump' # "none")
    BY <1>2, ZenonT(40)
    DEF Extension, extendAnswered, extendLinked, writeReverse, extendTimesOut, Cut,
                ReaderOut, handleCircuitCreated, handleCircuitReverse, exitVars
<1>3. ASSUME NEW i \in Relays, ReaderIn(i)
      PROVE  UNCHANGED clientVars /\ (pump # "none" => pump' # "none")
    BY <1>3 DEF ReaderIn, handleCircuitCreate, forwardRejected, forwardOn, extendCircuit,
                openCircuitTarget, relayData, relayClose, destroyCircuitByKey, writeReverse,
                writeOpenOK, exitVars
<1> QED BY <1>1, <1>2, <1>3

(* The caller's stage.                                                     *)
LEMMA StageStep ==
  ASSUME CircuitInv, CircuitNext
  PROVE  Stage'
<1>1. /\ Stage /\ hops \in Nat /\ Hops \in Nat /\ Hops >= 1 /\ hops <= Hops
    BY Ranges DEF CircuitInv
<1>2. CASE UNCHANGED clientVars /\ (pump # "none" => pump' # "none")
    BY <1>1, <1>2 DEF Stage, clientVars
<1>3. CASE buildCircuit
    BY <1>1, <1>3 DEF Stage, buildCircuit, exitVars
<1>4. CASE waitAnswered
    <2>1. UNCHANGED <<registered, pump, written, got, eof>>
        BY <1>4 DEF waitAnswered, exitVars
    <2>2. Waiting
        BY <1>4, AnswerTaken
    <2>3. CASE pc = "openOK"
        BY <1>1, <1>4, <2>1, <2>2, <2>3, AnswerTaken DEF Stage
    <2>4. CASE pc # "openOK"
        <3>1. hops' = hops + 1 /\ hops < Hops
              /\ pc' = (IF hops + 1 < Hops THEN "extended" ELSE "openOK")
            BY <1>4, <2>4, AnswerTaken
        <3> QED BY <1>1, <2>1, <2>2, <3>1 DEF Stage, Waiting
    <2> QED BY <2>3, <2>4
<1>5. CASE waitFails
    BY <1>1, <1>5 DEF Stage, waitFails, WaitReturns, Waiting, exitVars
<1>6. CASE Write
    BY <1>1, <1>6 DEF Stage, Write, exitVars
<1>7. CASE Read
    BY <1>1, <1>7 DEF Stage, Read, exitVars
<1>8. CASE Close
    BY <1>1, <1>8 DEF Stage, Close, exitVars
<1>9. CASE closeCircuits
    BY <1>1, <1>9 DEF Stage, closeCircuits, exitVars
<1>10. CASE handleCreated
    <2>1. up[1] # << >> /\ 1 \in Relays
        BY <1>10, Ranges DEF handleCreated
    <2>2. pc # "new"
        BY <2>1 DEF CircuitInv, Making, Begun
    <2> QED BY <1>1, <1>10, <2>2 DEF Stage, handleCreated, exitVars
<1>11. CASE handleReverse
    <2>1. up[1] # << >> /\ 1 \in Relays
        BY <1>11, Ranges DEF handleReverse
    <2>2. pc # "new"
        BY <2>1 DEF CircuitInv, Making, Begun
    <2>3. registered' = registered
        BY <1>11, ReverseHead DEF handleReverse
    <2> QED BY <1>1, <1>11, <2>2, <2>3 DEF Stage, handleReverse, exitVars
<1> QED BY <1>2, <1>3, <1>4, <1>5, <1>6, <1>7, <1>8, <1>9, <1>10, <1>11, Elsewhere
        DEF CircuitNext, ClientReader, Pump

(* The client's numbers.                                                   *)
LEMMA NumbersStep ==
  ASSUME CircuitInv, CircuitNext
  PROVE  Numbers'
<1>1. /\ Numbers /\ hops \in Nat /\ Hops \in Nat /\ Hops >= 1 /\ hops <= Hops
      /\ written \in Nat /\ Total \in Nat /\ \A j \in Relays : j \in Nat /\ j >= 1 /\ j <= Hops
    BY Ranges DEF CircuitInv
<1>2. \A j \in Relays : sendSeq[j] \in Nat /\ recvSeq[j] \in Nat
    BY DEF CircuitInv, CircuitTypeOK
<1>3. CASE UNCHANGED <<hops, sendSeq, recvSeq>> /\ Total' = Total
    BY <1>1, <1>3 DEF Numbers
<1>4. ASSUME UNCHANGED <<hops, written>>, pc' = pc \/ "closed" \notin {pc, pc'}
      PROVE  Total' = Total
    BY <1>4 DEF Total
<1>5. \A h \in Nat : \A j \in Relays :
        /\ Advanced(sendSeq, h)[j] = IF j <= h THEN sendSeq[j] + 1 ELSE sendSeq[j]
        /\ Advanced(recvSeq, h)[j] = IF j <= h THEN recvSeq[j] + 1 ELSE recvSeq[j]
    BY DEF Advanced
<1>6. CASE waitAnswered
    <2>1. CASE pc = "openOK"
        <3>1. UNCHANGED <<hops, sendSeq, recvSeq, written>> /\ pc' \in {"stream", "stopped"}
            BY <1>6, <2>1, AnswerTaken DEF waitAnswered
        <3> QED BY <1>3, <1>4, <2>1, <3>1
    <2>2. CASE pc # "openOK"
        <3>1. /\ hops < Hops /\ hops' = hops + 1 /\ hops + 1 \in Relays /\ recvSeq' = recvSeq
              /\ Total = (IF hops = 0 THEN 0 ELSE 1) /\ Total' = 1
              /\ hops >= 1 => recvSeq[hops] = 1
              /\ sendSeq' = Advanced(sendSeq, hops + 1)
            BY <1>6, <2>2, HopAdded, AnswerTaken
        <3>2. recvSeq[hops + 1] = 0
            BY <1>1, <3>1 DEF Numbers
        <3>3. ASSUME NEW j \in Relays
              PROVE  /\ sendSeq'[j] = IF j <= hops' THEN Total' + hops' - j ELSE 0
                     /\ recvSeq'[j] = IF j <= hops' THEN recvSeq'[hops'] + hops' - j ELSE 0
            <4>1. /\ sendSeq[j] = IF j <= hops THEN Total + hops - j ELSE 0
                  /\ recvSeq[j] = IF j <= hops THEN recvSeq[hops] + hops - j ELSE 0
                BY <1>1 DEF Numbers
            <4>2. sendSeq'[j] = IF j <= hops + 1 THEN sendSeq[j] + 1 ELSE sendSeq[j]
                BY <1>1, <1>5, <3>1
            <4>3. CASE j <= hops
                <5>1. hops >= 1 /\ Total = 1 /\ recvSeq[hops] = 1 /\ hops # 0
                    BY <1>1, <3>1, <4>3
                <5> QED BY <1>1, <3>1, <3>2, <4>1, <4>2, <4>3, <5>1
            <4>4. CASE j = hops + 1
                BY <1>1, <3>1, <3>2, <4>1, <4>2, <4>4
            <4>5. CASE j > hops + 1
                BY <1>1, <3>1, <4>1, <4>2, <4>5
            <4> QED BY <1>1, <4>3, <4>4, <4>5
        <3> QED BY <3>3 DEF Numbers
    <2> QED BY <2>1, <2>2
<1>7. CASE Write \/ Close
    <2>1. /\ hops = Hops /\ UNCHANGED <<hops, recvSeq>> /\ sendSeq' = Advanced(sendSeq, hops)
          /\ pc = "stream"
        BY <1>7 DEF Write, Close, CircuitInv, Stage
    <2>2. Total' = Total + 1
        <3>1. Total = written + 1
            BY <1>1, <2>1 DEF Total
        <3>2. Total' = written' + (IF pc' = "closed" THEN 2 ELSE 1)
            BY <1>1, <2>1 DEF Total
        <3>3. CASE Write
            <4>1. written' = written + 1 /\ pc' = pc
                BY <3>3 DEF Write
            <4> QED BY <1>1, <2>1, <3>1, <3>2, <4>1
        <3>4. CASE Close
            <4>1. written' = written /\ pc' = "closed"
                BY <3>4 DEF Close
            <4> QED BY <1>1, <3>1, <3>2, <4>1
        <3> QED BY <1>7, <3>3, <3>4
    <2>3. ASSUME NEW j \in Relays
          PROVE  /\ sendSeq'[j] = IF j <= hops' THEN Total' + hops' - j ELSE 0
                 /\ recvSeq'[j] = IF j <= hops' THEN recvSeq'[hops'] + hops' - j ELSE 0
        <3>1. /\ sendSeq[j] = IF j <= hops THEN Total + hops - j ELSE 0
              /\ recvSeq[j] = IF j <= hops THEN recvSeq[hops] + hops - j ELSE 0
            BY <1>1 DEF Numbers
        <3>2. j <= hops /\ sendSeq'[j] = sendSeq[j] + 1
            BY <1>1, <1>5, <2>1
        <3> QED BY <1>1, <2>1, <2>2, <3>1, <3>2
    <2> QED BY <2>3 DEF Numbers
<1>8. CASE handleReverse
    <2>1. UNCHANGED <<hops, sendSeq, written, pc>>
        BY <1>8 DEF handleReverse
    <2>2. Total' = Total
        BY <1>4, <2>1
    <2>3. CASE recvSeq' = recvSeq
        BY <1>3, <2>1, <2>2, <2>3
    <2>4. CASE recvSeq' = Advanced(recvSeq, hops) /\ registered
        <3>1. hops \in Relays
            BY <1>8, <2>4, ReverseHead DEF handleReverse, Relays
        <3>2. ASSUME NEW j \in Relays
              PROVE  /\ sendSeq'[j] = IF j <= hops' THEN Total' + hops' - j ELSE 0
                     /\ recvSeq'[j] = IF j <= hops' THEN recvSeq'[hops'] + hops' - j ELSE 0
            <4>1. /\ sendSeq[j] = IF j <= hops THEN Total + hops - j ELSE 0
                  /\ recvSeq[j] = IF j <= hops THEN recvSeq[hops] + hops - j ELSE 0
                BY <1>1 DEF Numbers
            <4>2. recvSeq'[j] = (IF j <= hops THEN recvSeq[j] + 1 ELSE recvSeq[j])
                  /\ recvSeq'[hops] = recvSeq[hops] + 1
                BY <1>1, <1>5, <2>4, <3>1
            <4> QED BY <1>1, <1>2, <2>1, <2>2, <3>1, <4>1, <4>2
        <3> QED BY <3>2 DEF Numbers
    <2> QED BY <1>8, <2>3, <2>4 DEF handleReverse
<1>9. CASE buildCircuit \/ waitFails \/ Read \/ closeCircuits \/ handleCreated
    <2>1. UNCHANGED <<hops, sendSeq, recvSeq, written>> /\ (pc' = pc \/ "closed" \notin {pc, pc'})
        BY <1>9 DEF buildCircuit, waitFails, WaitReturns, Waiting, Read, closeCircuits,
           handleCreated
    <2> QED BY <1>3, <1>4, <2>1
<1>10. CASE UNCHANGED clientVars
    BY <1>3, <1>4, <1>10 DEF clientVars
<1> QED BY <1>6, <1>7, <1>8, <1>9, <1>10, Elsewhere DEF CircuitNext, ClientReader, Pump

(* A relay's circuit that does not change.                                 *)
LEMMA GrownSame ==
  ASSUME CircuitInv, NEW k \in Relays, relay'[k] = relay[k], hops' = hops,
         registered' => registered
  PROVE  Grown(k)'
BY DEF CircuitInv, Grown

(* Before the circuit is built, no relay knows of it.                      *)
LEMMA NothingYet ==
  ASSUME CircuitInv, pc = "new", NEW k \in Relays
  PROVE  relay[k].state = "none" /\ down[k] = << >> /\ up[k] = << >>
<1>1. hops = 0 /\ \A j \in Relays : j \in Nat /\ j >= 1 /\ j <= Hops
    BY Ranges DEF CircuitInv, Stage
<1>2. \A j \in Relays : relay[j].extension = "none"
    <2>1. ASSUME NEW j \in Relays, relay[j].extension # "none" PROVE FALSE
        <3>1. relay[j].fwdSeq >= 1 /\ (relay[j].fwdSeq >= 1 => j <= hops)
            BY <2>1 DEF CircuitInv, Grown
        <3> QED BY <1>1, <3>1
    <2> QED BY <2>1
<1>3. k # 1 => k - 1 \in Relays
    BY <1>1, Ranges DEF Relays
<1>4. ~Begun(k)
    BY <1>2, <1>3 DEF Begun
<1> QED BY <1>4 DEF CircuitInv, Making

(* A closed relay that is not the last, or a DESTROY, means that the       *)
(* client has closed.                                                      *)
LEMMA ClosedBefore ==
  ASSUME CircuitInv, NEW i \in Relays, Holds(down[i], "destroy")
  PROVE  ~registered /\ pc # "new"
<1>1. i \in Nat /\ i >= 1 /\ i <= Hops /\ Hops \in Nat
    BY Ranges
<1>2. CASE i = 1
    <2>1. ~registered
        BY <1>2 DEF CircuitInv, Making
    <2>2. pc # "new"
        <3>1. down[i] # << >>
            BY DEF Holds
        <3> QED BY <3>1, NothingYet
    <2> QED BY <2>1, <2>2
<1>3. CASE i # 1
    <2>1. i - 1 \in Relays /\ i - 1 < Hops
        BY <1>1, <1>3 DEF Relays
    <2>2. relay[i - 1].state = "closed"
        BY <1>3 DEF CircuitInv, Making
    <2> QED BY <2>1, <2>2, NothingYet DEF CircuitInv, Grown
<1> QED BY <1>2, <1>3

(* The circuit of relay i changes as Becomes says.                         *)
LEMMA GrownOthers ==
  ASSUME CircuitInv, NEW i \in Relays, NEW st, NEW fwd, NEW rev, NEW out, NEW rout, NEW ext,
         Becomes(i, st, fwd, rev, out, rout, ext), hops' = hops, registered' = registered, Grown(i)'
  PROVE  \A k \in Relays : Grown(k)'
BY GrownSame DEF Becomes

(* Extensions.                                                             *)
LEMMA GrownStep ==
  ASSUME CircuitInv, CircuitNext
  PROVE  \A k \in Relays : Grown(k)'
<1>1. /\ hops \in Nat /\ Hops \in Nat /\ Hops >= 1 /\ hops <= Hops
      /\ \A j \in Relays : j \in Nat /\ j >= 1 /\ j <= Hops
      /\ Hops \in Relays
      /\ \A j \in Relays : relay[j].fwdSeq \in Nat /\ relay[j].revSeq \in Nat
      /\ answered \in Nat
    BY Ranges, RelayFields DEF CircuitInv
<1>2. \A j \in Relays : Grown(j)
    BY DEF CircuitInv
<1>3. CASE UNCHANGED <<relay, hops>> /\ (registered' => registered)
    BY <1>3, GrownSame
<1>4. CASE buildCircuit
    <2>1. UNCHANGED <<relay, hops>> /\ pc = "new"
        BY <1>4 DEF buildCircuit
    <2>2. \A k \in Relays : relay[k].state = "none"
        BY <2>1, NothingYet
    <2> QED BY <1>2, <2>1, <2>2 DEF Grown
<1>5. CASE waitAnswered
    <2>1. CASE pc = "openOK"
        <3>1. UNCHANGED <<relay, hops, registered>>
            BY <1>5, <2>1, AnswerTaken DEF waitAnswered
        <3> QED BY <1>3, <3>1
    <2>2. CASE pc # "openOK"
        <3>1. /\ hops' = hops + 1 /\ relay' = relay /\ registered' = registered
              /\ \A k \in Relays : k > hops => relay[k].fwdSeq = 0 /\ relay[k].revSeq = 0
              /\ hops >= 1 => relay[hops].extension = "linked"
            BY <1>5, <2>2, HopAdded
        <3>2. ASSUME NEW k \in Relays PROVE Grown(k)'
            <4>1. Grown(k)
                BY <1>2
            <4>2. k < hops' => relay[k].extension = "linked"
                <5>1. CASE k < hops
                    BY <4>1, <5>1 DEF Grown
                <5>2. CASE k = hops
                    BY <1>1, <3>1, <5>2
                <5> QED BY <1>1, <3>1, <5>1, <5>2
            <4>3. k = hops' => relay[k].revSeq <= 1
                BY <1>1, <3>1
            <4>4. relay[k].fwdSeq >= 1 => k <= hops'
                BY <1>1, <3>1, <4>1 DEF Grown
            <4> QED BY <3>1, <4>1, <4>2, <4>3, <4>4 DEF Grown
        <3> QED BY <3>2
    <2> QED BY <2>1, <2>2
<1>6. CASE waitFails \/ Write \/ Read \/ Close \/ closeCircuits \/ handleCreated \/ handleReverse
    <2>1. UNCHANGED <<relay, hops>>
        BY <1>6 DEF waitFails, WaitReturns, Write, Read, Close, closeCircuits, handleCreated,
                    handleReverse
    <2>2. registered' => registered
        BY <1>6 DEF waitFails, Write, Read, Close, closeCircuits, handleCreated, handleReverse
    <2> QED BY <1>3, <2>1, <2>2
<1>7. ASSUME UNCHANGED clientVars, NEW i \in Relays, NEW rest, Closes(i, rest),
             i < Hops => ~registered
      PROVE  \A k \in Relays : Grown(k)'
    <2>1. Grown(i)'
        BY <1>2, <1>7 DEF Closes, Becomes, Grown, clientVars
    <2> QED BY <1>7, <2>1, GrownOthers DEF Closes, clientVars
<1>8. CASE pumpEnds
    <2>1. UNCHANGED clientVars
        BY <1>8 DEF pumpEnds
    <2>2. CASE relay' = relay
        BY <1>3, <2>1, <2>2 DEF clientVars
    <2>3. CASE Counts(Hops, relay[Hops].fwdSeq, relay[Hops].revSeq + 1)
        <3>1. relay[Hops].revSeq = answered + 1 /\ relay[Hops].revSeq # 0
            BY <1>1, <1>8, PumpEndsEffect
        <3>2. Grown(Hops)'
            BY <1>1, <1>2, <2>1, <2>3, <3>1 DEF Counts, Becomes, Grown, clientVars
        <3> QED BY <1>1, <2>1, <2>3, <3>2, GrownOthers DEF Counts, clientVars
    <2> QED BY <1>8, <2>2, <2>3, PumpEndsEffect
<1>9. CASE pumpWrites
    <2>1. UNCHANGED clientVars
        BY <1>9 DEF pumpWrites
    <2>2. CASE relay' = relay
        BY <1>3, <2>1, <2>2 DEF clientVars
    <2>3. CASE closeRelayCircuit(Hops, down)
        <3>1. Closes(Hops, down[Hops])
            BY <1>1, <2>3, ClosesEffect
        <3>2. Hops \in Relays /\ ~(Hops < Hops)
            BY <1>1
        <3> QED BY <1>7, <2>1, <3>1, <3>2, ZenonT(40)
    <2>4. relay' = relay \/ closeRelayCircuit(Hops, down)
        BY <1>9 DEF pumpWrites
    <2> QED BY <2>2, <2>3, <2>4
<1>10. CASE pumpReads
    <2>1. UNCHANGED clientVars
        BY <1>10 DEF pumpReads
    <2>2. relay[Hops].revSeq = answered + 1 /\ relay[Hops].revSeq # 0
          /\ Counts(Hops, relay[Hops].fwdSeq, relay[Hops].revSeq + 1)
        BY <1>1, <1>10, PumpReadsEffect
    <2>3. Grown(Hops)'
        BY <1>1, <1>2, <2>1, <2>2 DEF Counts, Becomes, Grown, clientVars
    <2> QED BY <1>1, <2>1, <2>2, <2>3, GrownOthers DEF Counts, clientVars
<1>11. CASE serviceEnds
    BY <1>3, <1>11 DEF serviceEnds, clientVars
<1>12. ASSUME NEW i \in Relays, ReaderIn(i) PROVE \A k \in Relays : Grown(k)'
    <2>1. UNCHANGED clientVars
        BY <1>12, Elsewhere
    <2>2. CASE handleCircuitCreate(i)
        <3>1. i > hops /\ relay[i].fwdSeq = 0 /\ relay[i].extension = "none"
            BY <1>1, <1>2, <2>2, CreateEffect DEF Grown
        <3>2. Becomes(i, "open", relay[i].fwdSeq, relay[i].revSeq, relay[i].outgoing,
                      relay[i].relayOut, relay[i].extension)
            BY <2>2, CreateEffect
        <3>3. Grown(i)'
            BY <1>2, <2>1, <3>1, <3>2 DEF Becomes, Grown, clientVars
        <3> QED BY <2>1, <3>2, <3>3, GrownOthers DEF clientVars
    <2>3. CASE forwardRejected(i)
        BY <1>3, <2>1, <2>3, RejectedEffect DEF clientVars
    <2>4. ASSUME NEW n \in Nat, Counts(i, n, relay[i].revSeq), n >= 1, i \in 1..hops
          PROVE  \A k \in Relays : Grown(k)'
        <3>1. Grown(i)'
            BY <1>1, <1>2, <2>1, <2>4 DEF Counts, Becomes, Grown, clientVars
        <3> QED BY <2>1, <2>4, <3>1, GrownOthers DEF Counts, clientVars
    <2>5. CASE forwardOn(i)
        <3>1. i < hops /\ Counts(i, relay[i].fwdSeq + 1, relay[i].revSeq)
            BY <2>5, ForwardOnEffect
        <3>2. i \in 1..hops /\ relay[i].fwdSeq + 1 \in Nat /\ relay[i].fwdSeq + 1 >= 1
            BY <1>1, <3>1
        <3> QED BY <2>4, <3>1, <3>2
    <2>6. ASSUME Counts(i, 1, 1), i = hops, relay[i].extension = "none"
          PROVE  \A k \in Relays : Grown(k)'
        <3>1. Grown(i)'
            BY <1>1, <1>2, <2>1, <2>6 DEF Counts, Becomes, Grown, clientVars
        <3> QED BY <2>1, <2>6, <3>1, GrownOthers DEF Counts, clientVars
    <2>7. CASE extendCircuit(i)
        <3>1. /\ i = hops /\ hops < Hops /\ relay[i].extension = "none" /\ ~relay[i].outgoing
            BY <2>7, ExtendEffect
        <3>2. CASE Counts(i, 1, 1)
            BY <2>6, <3>1, <3>2
        <3>3. CASE Becomes(i, relay[i].state, 1, 0, relay[i].outgoing, relay[i].relayOut, "waiting")
            <4>1. Grown(i)'
                BY <1>1, <1>2, <2>1, <3>1, <3>3 DEF Becomes, Grown, clientVars
            <4> QED BY <2>1, <3>3, <4>1, GrownOthers DEF clientVars
        <3> QED BY <2>7, <3>2, <3>3, ExtendEffect
    <2>8. CASE openCircuitTarget(i)
        <3>1. i = hops /\ Counts(i, 1, 1) /\ i = Hops
            BY <2>8, OpenEffect
        <3>2. relay[i].extension = "none"
            BY <1>1, <1>2, <3>1 DEF Grown
        <3> QED BY <2>6, <3>1, <3>2
    <2>9. CASE relayData(i)
        <3>1. i = Hops /\ i \in 1..hops
            BY <1>1, <2>9, DataEffect
        <3>2. CASE Counts(i, relay[i].fwdSeq + 1, relay[i].revSeq)
            BY <1>1, <2>4, <3>1, <3>2
        <3>3. CASE Closes(i, Tail(down[i]))
            BY <1>1, <1>7, <2>1, <3>1, <3>3
        <3> QED BY <2>9, <3>2, <3>3, DataEffect
    <2>10. CASE relayClose(i)
        BY <1>1, <1>7, <2>1, <2>10, CloseCmdEffect
    <2>11. CASE destroyCircuitByKey(i)
        <3>1. ~registered
            BY <2>11, DestroyEffect, ClosedBefore
        <3>2. CASE relay[i].state = "open"
            BY <1>7, <2>1, <2>11, <3>1, <3>2, DestroyEffect
        <3>3. CASE relay[i].state # "open"
            BY <1>3, <2>1, <2>11, <3>3, DestroyEffect DEF clientVars
        <3> QED BY <3>2, <3>3
    <2>12. CASE writeReverse(i, "in")
        BY <1>3, <2>12 DEF writeReverse, clientVars
    <2>13. CASE writeOpenOK(i)
        <3>1. i = Hops
            BY <2>13 DEF writeOpenOK, CircuitInv, Writers
        <3>2. CASE relay' = relay
            BY <1>3, <2>1, <3>2 DEF clientVars
        <3>3. CASE closeRelayCircuit(i, down)
            <4>1. Closes(i, down[i])
                BY <3>3, ClosesEffect
            <4> QED BY <1>1, <1>7, <2>1, <3>1, <4>1
        <3> QED BY <2>13, <3>2, <3>3 DEF writeOpenOK
    <2> QED BY <1>12, <2>2, <2>3, <2>5, <2>7, <2>8, <2>9, <2>10, <2>11, <2>12, <2>13 DEF ReaderIn
<1>13. ASSUME NEW i \in Relays, ReaderOut(i) PROVE \A k \in Relays : Grown(k)'
    <2>1. UNCHANGED clientVars
        BY <1>13, Elsewhere
    <2>2. CASE relay' = relay
        BY <1>3, <2>1, <2>2 DEF clientVars
    <2>3. CASE handleCircuitCreated(i)
        <3>1. CASE relay[i].extension = "waiting"
            <4>1. Becomes(i, relay[i].state, relay[i].fwdSeq, relay[i].revSeq, relay[i].outgoing,
                          relay[i].relayOut, "answered")
                BY <2>3, <3>1, CreatedEffect
            <4>2. Grown(i)'
                BY <1>2, <2>1, <3>1, <4>1 DEF Becomes, Grown, clientVars
            <4> QED BY <2>1, <4>1, <4>2, GrownOthers DEF clientVars
        <3> QED BY <2>2, <2>3, <3>1, CreatedEffect
    <2>4. CASE handleCircuitReverse(i)
        <3>1. CASE relay[i].relayOut /\ relay[i].state = "open"
            <4>0. i + 1 \in 1..hops /\ Counts(i, relay[i].fwdSeq, relay[i].revSeq + 1)
                BY <2>4, <3>1, ReverseEffect
            <4>1. i < hops /\ Counts(i, relay[i].fwdSeq, relay[i].revSeq + 1)
                BY <1>1, <4>0
            <4>2. relay[i].extension = "linked" /\ relay[i].fwdSeq >= 1 /\ relay[i].fwdSeq # 0
                BY <1>1, <1>2, <4>1 DEF Grown
            <4>3. Grown(i)'
                BY <1>1, <1>2, <2>1, <4>1, <4>2 DEF Counts, Becomes, Grown, clientVars
            <4> QED BY <2>1, <4>1, <4>3, GrownOthers DEF Counts, clientVars
        <3> QED BY <2>2, <2>4, <3>1, ReverseEffect
    <2>5. CASE writeReverse(i, "out")
        BY <2>2, <2>5 DEF writeReverse
    <2> QED BY <1>13, <2>3, <2>4, <2>5 DEF ReaderOut
<1>14. ASSUME NEW i \in Relays, NEW cmd, NEW rout, NEW ext, LastWord(i, cmd, rout, ext),
              UNCHANGED clientVars, relay[i].extension \in {"waiting", "answered", "linking"},
              \/ ext = "linked" /\ rout = TRUE /\ relay[i].extension = "linking"
              \/ ext = "abandoned" /\ relay[i].extension # "linking"
       PROVE  \A k \in Relays : Grown(k)'
    <2>1. PICK r \in {0, 1} : Becomes(i, relay[i].state, relay[i].fwdSeq, r, relay[i].outgoing, rout, ext)
        BY <1>14 DEF LastWord
    <2>2. i = hops /\ i < Hops /\ relay[i].fwdSeq >= 1 /\ relay[i].fwdSeq # 0
        BY <1>1, <1>2, <1>14 DEF LastWord, Grown
    <2>3. Grown(i)'
        BY <1>1, <1>2, <1>14, <2>1, <2>2 DEF Becomes, Grown, clientVars
    <2> QED BY <1>14, <2>1, <2>3, GrownOthers DEF clientVars
<1>15. ASSUME NEW i \in Relays, Extension(i) PROVE \A k \in Relays : Grown(k)'
    <2>1. UNCHANGED clientVars
        BY <1>15, Elsewhere
    <2>2. CASE extendAnswered(i)
        <3>1. relay[i].extension = "answered" /\ relay[i].revSeq = 0
            BY <2>2, AnsweredEffect
        <3>2. CASE relay[i].state = "closed"
            <4>1. Becomes(i, relay[i].state, relay[i].fwdSeq, relay[i].revSeq, relay[i].outgoing,
                          relay[i].relayOut, "abandoned")
                BY <2>2, <3>2, AnsweredEffect
            <4>2. Grown(i)'
                BY <1>2, <2>1, <3>1, <4>1 DEF Becomes, Grown, clientVars
            <4> QED BY <2>1, <4>1, <4>2, GrownOthers DEF clientVars
        <3>3. CASE relay[i].state # "closed"
            <4>1. Becomes(i, relay[i].state, relay[i].fwdSeq, relay[i].revSeq, TRUE,
                          relay[i].relayOut, "linking")
                BY <2>2, <3>3, AnsweredEffect
            <4>2. Grown(i)'
                BY <1>2, <2>1, <3>1, <4>1 DEF Becomes, Grown, clientVars
            <4> QED BY <2>1, <4>1, <4>2, GrownOthers DEF clientVars
        <3> QED BY <3>2, <3>3
    <2>3. CASE extendLinked(i)
        BY <1>14, <2>1, <2>3, LinkedEffect
    <2>4. CASE writeReverse(i, "extend")
        BY <1>3, <2>1, <2>4 DEF writeReverse, clientVars
    <2> QED BY <1>15, <2>2, <2>3, <2>4 DEF Extension
<1>16. ASSUME NEW i \in Relays, extendTimesOut(i) PROVE \A k \in Relays : Grown(k)'
    <2>1. UNCHANGED clientVars
        BY <1>16, Elsewhere
    <2> QED BY <1>14, <1>16, <2>1, TimesOutEffect
<1>17. ASSUME NEW i \in Relays, Cut(i) PROVE \A k \in Relays : Grown(k)'
    BY <1>3, <1>17 DEF Cut, clientVars
<1> QED BY <1>4, <1>5, <1>6, <1>8, <1>9, <1>10, <1>11, <1>12, <1>13, <1>15, <1>16, <1>17
        DEF CircuitNext, ClientReader, Pump

-----------------------------------------------------------------------------
(* Goroutine g of relay i has a cell to write.                             *)
Puts(i, g, cell) ==
  /\ sending'[i][g] = cell
  /\ \A h \in Goroutines : h # g => sending'[i][h] = sending[i][h]
  /\ \A k \in Relays : k # i => sending'[k] = sending[k]

Over == {"linked", "abandoned"}

(* Nothing is numbered: a cell is written at most.                         *)
LEMMA WritersSame ==
  ASSUME CircuitInv, NEW k \in Relays,
         \A g \in Goroutines : sending'[k][g] \in {sending[k][g], NoCell},
         relay'[k].revSeq = 0 => relay[k].revSeq = 0,
         relay[k].extension \in Over => relay'[k].extension \in Over,
         sending'[k]["pump"] # NoCell => pump' = pump
  PROVE  Writers(k)'
<1>1. Writers(k)
    BY DEF CircuitInv
<1>2. "in" \in Goroutines /\ "out" \in Goroutines /\ "extend" \in Goroutines /\ "pump" \in Goroutines
    BY DEF Goroutines
<1>3. relay'[k].revSeq = 0 => \A g \in Goroutines : sending'[k][g] = NoCell
    BY <1>1 DEF Writers
<1>4. \A g \in Goroutines : sending'[k][g] # NoCell => sending'[k][g].kind = "relay"
    BY <1>1 DEF Writers
<1>5. sending'[k]["extend"] # NoCell => relay'[k].extension \in {"linked", "abandoned"}
    BY <1>1, <1>2 DEF Writers, Over
<1>6. sending'[k]["out"] # NoCell => k < Hops
    BY <1>1, <1>2 DEF Writers
<1>7. sending'[k]["pump"] # NoCell => k = Hops /\ pump' = "running"
    BY <1>1, <1>2 DEF Writers
<1>8. sending'[k]["in"] # NoCell /\ sending'[k]["in"].cmd = "openOK" => k = Hops
    BY <1>1, <1>2 DEF Writers
<1> QED BY <1>3, <1>4, <1>5, <1>6, <1>7, <1>8 DEF Writers

(* A cell is numbered.                                                     *)
LEMMA WritersNumbered ==
  ASSUME CircuitInv, NEW i \in Relays, NEW g \in Goroutines, NEW layers, NEW cmd, NEW n,
         Puts(i, g, Relay(layers, cmd, n)), relay'[i].revSeq # 0,
         relay[i].extension \in Over => relay'[i].extension \in Over,
         \A k \in Relays : k # i => relay'[k] = relay[k],
         pump' = pump,
         g = "extend" => relay'[i].extension \in Over,
         g = "out" => i < Hops,
         g = "pump" => i = Hops /\ pump = "running",
         g = "in" /\ cmd = "openOK" => i = Hops
  PROVE  \A k \in Relays : Writers(k)'
<1>1. Writers(i) /\ CircuitTypeOK
    BY DEF CircuitInv
<1>2. "in" \in Goroutines /\ "out" \in Goroutines /\ "extend" \in Goroutines /\ "pump" \in Goroutines
    BY DEF Goroutines
<1>3. /\ sending'[i][g] = Relay(layers, cmd, n)
      /\ \A h \in Goroutines : h # g => sending'[i][h] = sending[i][h]
    BY DEF Puts
<1>4. Relay(layers, cmd, n).kind = "relay" /\ Relay(layers, cmd, n).cmd = cmd
    BY DEF Relay
<1>5. \A h \in Goroutines : sending'[i][h] # NoCell => sending'[i][h].kind = "relay"
    BY <1>1, <1>3, <1>4 DEF Writers
<1>6. sending'[i]["extend"] # NoCell => relay'[i].extension \in {"linked", "abandoned"}
    BY <1>1, <1>2, <1>3 DEF Writers, Over
<1>7. sending'[i]["out"] # NoCell => i < Hops
    BY <1>1, <1>2, <1>3 DEF Writers
<1>8. sending'[i]["pump"] # NoCell => i = Hops /\ pump' = "running"
    BY <1>1, <1>2, <1>3 DEF Writers
<1>9. sending'[i]["in"] # NoCell /\ sending'[i]["in"].cmd = "openOK" => i = Hops
    BY <1>1, <1>2, <1>3, <1>4 DEF Writers
<1>10. Writers(i)'
    BY <1>5, <1>6, <1>7, <1>8, <1>9 DEF Writers
<1>11. ASSUME NEW k \in Relays, k # i PROVE Writers(k)'
    <2>1. sending'[k] = sending[k] /\ relay'[k] = relay[k]
        BY <1>11 DEF Puts
    <2> QED BY <2>1, WritersSame
<1> QED BY <1>10, <1>11

(* Who writes.                                                             *)
LEMMA WritersStep ==
  ASSUME CircuitInv, CircuitNext
  PROVE  \A k \in Relays : Writers(k)'
<1>1. /\ \A j \in Relays : j \in Nat /\ j >= 1 /\ j <= Hops
      /\ Hops \in Relays /\ Hops \in Nat /\ CircuitTypeOK
      /\ \A j \in Relays : relay[j].revSeq \in Nat /\ relay[j].revSeq + 1 # 0
      /\ "in" \in Goroutines /\ "out" \in Goroutines /\ "extend" \in Goroutines /\ "pump" \in Goroutines
    BY Ranges, RelayFields DEF CircuitInv, Goroutines
<1>2. CASE UNCHANGED <<relay, sending, pump>>
    BY <1>2, WritersSame
<1>3. ASSUME sending' = sending, pump' = pump, NEW i \in Relays,
             NEW st, NEW fwd, NEW rev, NEW out, NEW rout, NEW ext,
             Becomes(i, st, fwd, rev, out, rout, ext), rev = relay[i].revSeq,
             relay[i].extension \in Over => ext \in Over
      PROVE  \A k \in Relays : Writers(k)'
    <2>1. Writers(i)'
        BY <1>3, WritersSame DEF Becomes
    <2>2. \A k \in Relays : k # i => Writers(k)'
        BY <1>3, WritersSame DEF Becomes
    <2> QED BY <2>1, <2>2
<1>4. ASSUME NEW i \in Relays, NEW g \in Goroutines, Written(i, g),
             relay' = relay \/ \E rest : Closes(i, rest),
             g # "pump" => pump' = pump \/ pump' = "running", g = "pump" => i = Hops
      PROVE  \A k \in Relays : Writers(k)'
    <2>1. \A k \in Relays : /\ relay'[k].revSeq = relay[k].revSeq
                            /\ relay'[k].extension = relay[k].extension
        BY <1>4 DEF Closes, Becomes
    <2>2. ASSUME NEW k \in Relays, NEW h \in Goroutines
          PROVE  sending'[k][h] = sending[k][h] \/ sending'[k][h] = NoCell
        BY <1>1, <1>4, WrittenEffect
    <2>3. ASSUME NEW k \in Relays, sending'[k]["pump"] # NoCell PROVE pump' = pump
        <3>1. sending[k]["pump"] # NoCell /\ ~(k = i /\ g = "pump")
            BY <1>1, <1>4, <2>3, WrittenEffect
        <3>2. k = Hops /\ pump = "running"
            BY <3>1 DEF CircuitInv, Writers
        <3>3. g # "pump"
            BY <1>4, <3>1, <3>2
        <3> QED BY <1>4, <3>2, <3>3
    <2> QED BY <2>1, <2>2, <2>3, WritersSame
<1>5. CASE \/ buildCircuit \/ waitAnswered \/ waitFails \/ Write \/ Read \/ Close \/ closeCircuits
           \/ handleCreated \/ handleReverse \/ serviceEnds
    BY <1>2, <1>5 DEF buildCircuit, waitAnswered, waitFails, WaitReturns, Write, Read, Close,
                      closeCircuits, handleCreated, handleReverse, serviceEnds, exitVars
<1>6. CASE pumpEnds
    <2>1. CASE relay[Hops].state = "open"
        <3>1. /\ Counts(Hops, relay[Hops].fwdSeq, relay[Hops].revSeq + 1) /\ pump = "running"
              /\ Puts(Hops, "pump", Relay(<<relay[Hops].revSeq>> \o << >>, "close", 0))
              /\ pump' = pump
            BY <1>6, <2>1, PumpEndsEffect DEF Puts
        <3>2. relay'[Hops].revSeq # 0 /\ relay'[Hops].extension = relay[Hops].extension
              /\ \A k \in Relays : k # Hops => relay'[k] = relay[k]
            BY <1>1, <3>1 DEF Counts, Becomes
        <3> QED BY <1>1, <3>1, <3>2, WritersNumbered
    <2>2. CASE relay[Hops].state # "open"
        <3>1. relay' = relay /\ sending' = sending /\ sending[Hops]["pump"] = NoCell
            BY <1>6, <2>2, PumpEndsEffect
        <3>2. \A k \in Relays : sending'[k]["pump"] = NoCell
            BY <3>1 DEF CircuitInv, Writers
        <3> QED BY <3>1, <3>2, WritersSame
    <2> QED BY <2>1, <2>2
<1>7. CASE pumpWrites
    <2>1. CASE relay' = relay
        BY <1>1, <1>4, <1>7, <2>1 DEF pumpWrites
    <2>2. CASE closeRelayCircuit(Hops, down)
        <3>1. Closes(Hops, down[Hops])
            BY <1>1, <2>2, ClosesEffect
        <3> QED BY <1>1, <1>4, <1>7, <3>1 DEF pumpWrites
    <2> QED BY <1>7, <2>1, <2>2 DEF pumpWrites
<1>8. CASE pumpReads
    <2>1. /\ Counts(Hops, relay[Hops].fwdSeq, relay[Hops].revSeq + 1) /\ pump = "running"
          /\ Puts(Hops, "pump", Relay(<<relay[Hops].revSeq>> \o << >>, "data", answered + 1))
        BY <1>8, PumpReadsEffect DEF Puts
    <2>2. relay'[Hops].revSeq # 0 /\ relay'[Hops].extension = relay[Hops].extension
          /\ \A k \in Relays : k # Hops => relay'[k] = relay[k]
        BY <1>1, <2>1 DEF Counts, Becomes
    <2>3. pump' = pump
        BY <1>8 DEF pumpReads
    <2> QED BY <1>1, <2>1, <2>2, <2>3, WritersNumbered
<1>9. ASSUME NEW i \in Relays, ReaderIn(i) PROVE \A k \in Relays : Writers(k)'
    <2>1. ASSUME NEW rest, Closes(i, rest), sending' = sending, pump' = pump
          PROVE  \A k \in Relays : Writers(k)'
        BY <1>3, <2>1 DEF Closes
    <2>2. ASSUME NEW cmd, Puts(i, "in", Relay(<< 0 >> \o << >>, cmd, 0)), Counts(i, 1, 1),
                 pump' = pump, cmd = "openOK" => i = Hops
          PROVE  \A k \in Relays : Writers(k)'
        <3>1. relay'[i].revSeq # 0 /\ relay'[i].extension = relay[i].extension
              /\ \A k \in Relays : k # i => relay'[k] = relay[k]
            BY <2>2 DEF Counts, Becomes
        <3> QED BY <1>1, <2>2, <3>1, WritersNumbered
    <2>3. CASE handleCircuitCreate(i)
        <3>1. sending' = sending /\ pump' = pump
            BY <2>3 DEF handleCircuitCreate, exitVars
        <3> QED BY <1>3, <2>3, <3>1, CreateEffect
    <2>4. CASE forwardRejected(i)
        <3>1. sending' = sending /\ pump' = pump
            BY <2>4 DEF forwardRejected
        <3> QED BY <1>2, <2>4, <3>1, RejectedEffect
    <2>5. CASE forwardOn(i)
        <3>1. sending' = sending /\ pump' = pump
            BY <2>5 DEF forwardOn, exitVars
        <3> QED BY <1>3, <2>5, <3>1, ForwardOnEffect DEF Counts
    <2>6. CASE extendCircuit(i)
        <3>1. pump' = pump /\ relay[i].extension = "none" /\ relay[i].revSeq = 0
            BY <2>6, ExtendEffect DEF extendCircuit, exitVars
        <3>2. CASE Counts(i, 1, 1) /\ Puts(i, "in", Relay(<< 0 >> \o << >>, "openError", 0))
            BY <2>2, <3>1, <3>2
        <3>3. CASE /\ Becomes(i, relay[i].state, 1, 0, relay[i].outgoing, relay[i].relayOut, "waiting")
                   /\ sending' = sending
            BY <1>3, <3>1, <3>3 DEF Over
        <3> QED BY <2>6, <3>2, <3>3, ExtendEffect DEF Puts
    <2>7. CASE openCircuitTarget(i)
        <3>1. pump' = pump /\ i = Hops /\ Counts(i, 1, 1)
            BY <2>7, OpenEffect DEF openCircuitTarget
        <3>2. \/ Puts(i, "in", Relay(<< 0 >> \o << >>, "openError", 0))
              \/ Puts(i, "in", Relay(<< 0 >> \o << >>, "openOK", 0))
            BY <2>7, OpenEffect DEF Puts
        <3> QED BY <2>2, <3>1, <3>2
    <2>8. CASE relayData(i)
        <3>1. sending' = sending /\ pump' = pump
            BY <2>8 DEF relayData
        <3>2. CASE Counts(i, relay[i].fwdSeq + 1, relay[i].revSeq)
            BY <1>3, <3>1, <3>2 DEF Counts
        <3> QED BY <2>1, <2>8, <3>1, <3>2, DataEffect
    <2>9. CASE relayClose(i)
        <3>1. sending' = sending /\ pump' = pump
            BY <2>9 DEF relayClose
        <3> QED BY <2>1, <2>9, <3>1, CloseCmdEffect
    <2>10. CASE destroyCircuitByKey(i)
        <3>1. sending' = sending /\ pump' = pump
            BY <2>10 DEF destroyCircuitByKey
        <3>2. CASE relay[i].state = "open"
            BY <2>1, <2>10, <3>1, <3>2, DestroyEffect
        <3>3. CASE relay[i].state # "open"
            BY <1>2, <2>10, <3>1, <3>3, DestroyEffect
        <3> QED BY <3>2, <3>3
    <2>11. CASE writeReverse(i, "in")
        BY <1>1, <1>4, <2>11 DEF writeReverse, exitVars
    <2>12. CASE writeOpenOK(i)
        <3>1. Written(i, "in")
            BY <2>12 DEF writeOpenOK
        <3>2. CASE pump' = "running" /\ relay' = relay
            BY <1>1, <1>4, <3>1, <3>2
        <3>3. CASE closeRelayCircuit(i, down) /\ pump' = pump
            <4>1. Closes(i, down[i])
                BY <3>3, ClosesEffect
            <4> QED BY <1>1, <1>4, <3>1, <3>3, <4>1
        <3> QED BY <2>12, <3>2, <3>3 DEF writeOpenOK
    <2> QED BY <1>9, <2>3, <2>4, <2>5, <2>6, <2>7, <2>8, <2>9, <2>10, <2>11, <2>12 DEF ReaderIn
<1>10. ASSUME NEW i \in Relays, ReaderOut(i) PROVE \A k \in Relays : Writers(k)'
    <2>1. CASE handleCircuitCreated(i)
        <3>1. sending' = sending /\ pump' = pump
            BY <2>1 DEF handleCircuitCreated, exitVars
        <3>2. CASE relay[i].extension = "waiting"
            BY <1>3, <2>1, <3>1, <3>2, CreatedEffect DEF Over
        <3>3. CASE relay[i].extension # "waiting"
            BY <1>2, <2>1, <3>1, <3>3, CreatedEffect
        <3> QED BY <3>2, <3>3
    <2>2. CASE handleCircuitReverse(i)
        <3>1. pump' = pump /\ i < Hops
            BY <2>2 DEF handleCircuitReverse, exitVars
        <3>2. CASE relay[i].relayOut /\ relay[i].state = "open"
            <4>1. /\ Counts(i, relay[i].fwdSeq, relay[i].revSeq + 1)
                  /\ Puts(i, "out", Relay(<<relay[i].revSeq>> \o Head(up[i + 1]).layers,
                                          Head(up[i + 1]).cmd, Head(up[i + 1]).n))
                BY <2>2, <3>2, ReverseEffect DEF Puts
            <4>2. relay'[i].revSeq # 0 /\ relay'[i].extension = relay[i].extension
                  /\ \A k \in Relays : k # i => relay'[k] = relay[k]
                BY <1>1, <4>1 DEF Counts, Becomes
            <4> QED BY <1>1, <3>1, <4>1, <4>2, WritersNumbered
        <3>3. CASE ~(relay[i].relayOut /\ relay[i].state = "open")
            BY <1>2, <2>2, <3>1, <3>3, ReverseEffect
        <3> QED BY <3>2, <3>3
    <2>3. CASE writeReverse(i, "out")
        BY <1>1, <1>4, <2>3 DEF writeReverse, exitVars
    <2> QED BY <1>10, <2>1, <2>2, <2>3 DEF ReaderOut
<1>11. ASSUME NEW i \in Relays, NEW cmd, NEW rout, NEW ext, LastWord(i, cmd, rout, ext), pump' = pump,
              ext \in Over
       PROVE  \A k \in Relays : Writers(k)'
    <2>1. CASE relay[i].state = "open"
        <3>1. /\ Becomes(i, relay[i].state, relay[i].fwdSeq, 1, relay[i].outgoing, rout, ext)
              /\ Puts(i, "extend", Relay(<< 0 >> \o << >>, cmd, 0))
            BY <1>11, <2>1 DEF LastWord, Puts
        <3>2. relay'[i].revSeq # 0 /\ relay'[i].extension = ext
              /\ \A k \in Relays : k # i => relay'[k] = relay[k]
            BY <3>1 DEF Becomes
        <3> QED BY <1>1, <1>11, <3>1, <3>2, WritersNumbered
    <2>2. CASE relay[i].state # "open"
        BY <1>3, <1>11, <2>2 DEF LastWord
    <2> QED BY <2>1, <2>2
<1>12. ASSUME NEW i \in Relays, Extension(i) PROVE \A k \in Relays : Writers(k)'
    <2>1. CASE extendAnswered(i)
        <3>1. sending' = sending /\ pump' = pump /\ relay[i].extension = "answered"
            BY <2>1 DEF extendAnswered, exitVars
        <3>2. CASE relay[i].state = "closed"
            BY <1>3, <2>1, <3>1, <3>2, AnsweredEffect DEF Over
        <3>3. CASE relay[i].state # "closed"
            BY <1>3, <2>1, <3>1, <3>3, AnsweredEffect DEF Over
        <3> QED BY <3>2, <3>3
    <2>2. CASE extendLinked(i)
        <3>1. pump' = pump /\ LastWord(i, "extended", TRUE, "linked")
            BY <2>2, LinkedEffect, ZenonT(40) DEF extendLinked, exitVars
        <3> QED BY <1>11, <3>1, ZenonT(40) DEF Over
    <2>3. CASE writeReverse(i, "extend")
        BY <1>1, <1>4, <2>3 DEF writeReverse, exitVars
    <2> QED BY <1>12, <2>1, <2>2, <2>3 DEF Extension
<1>13. ASSUME NEW i \in Relays, extendTimesOut(i) PROVE \A k \in Relays : Writers(k)'
    <2>1. pump' = pump /\ LastWord(i, "openError", relay[i].relayOut, "abandoned")
        BY <1>13, TimesOutEffect DEF extendTimesOut, exitVars
    <2> QED BY <1>11, <2>1 DEF Over
<1>14. ASSUME NEW i \in Relays, Cut(i) PROVE \A k \in Relays : Writers(k)'
    BY <1>2, <1>14 DEF Cut, exitVars
<1> QED BY <1>5, <1>6, <1>7, <1>8, <1>9, <1>10, <1>12, <1>13, <1>14
        DEF CircuitNext, ClientReader, Pump

-----------------------------------------------------------------------------
(* The steps of the relays and the service, by what they do to the circuits and the links
   away from the client.                                                                  *)

RelaySide ==
  \/ pumpEnds \/ pumpWrites \/ pumpReads \/ serviceEnds
  \/ \E i \in Relays : ReaderIn(i) \/ ReaderOut(i) \/ Extension(i) \/ extendTimesOut(i) \/ Cut(i)

Steady(k) ==
  /\ relay'[k].state = relay[k].state /\ relay'[k].fwdSeq = relay[k].fwdSeq
  /\ relay'[k].outgoing = relay[k].outgoing /\ relay'[k].extension = relay[k].extension

Quiet == down' = down /\ cut' = cut /\ \A k \in Relays : Steady(k)

(* The extension of relay i goes from one stage to the next.               *)
Extends(i, from, to) ==
  /\ down' = down /\ cut' = cut /\ \A k \in Relays : k # i => Steady(k)
  /\ relay[i].extension = from /\ relay'[i].extension = to
  /\ relay'[i].state = relay[i].state /\ relay'[i].fwdSeq = relay[i].fwdSeq
  /\ IF to = "linking" THEN relay'[i].outgoing /\ relay[i].state # "closed"
                       ELSE relay'[i].outgoing = relay[i].outgoing

Creates(i) ==
  /\ handleCircuitCreate(i)
  /\ cut' = cut /\ \A k \in Relays : k # i => Steady(k)
  /\ relay[i].state = "none" /\ relay'[i].state = "open" /\ relay'[i].fwdSeq = relay[i].fwdSeq
  /\ relay'[i].outgoing = relay[i].outgoing /\ relay'[i].extension = relay[i].extension
  /\ i > hops /\ down[i] # << >> /\ Head(down[i]).kind = "create"
  /\ \A k \in Relays : down'[k] = IF k = i THEN Tail(down[k]) ELSE down[k]

(* A cell for a circuit that is not open.                                  *)
Drops(i) ==
  /\ cut' = cut /\ \A k \in Relays : Steady(k)
  /\ down[i] # << >> /\ relay[i].state # "open"
  /\ \A k \in Relays : down'[k] = IF k = i THEN Tail(down[k]) ELSE down[k]

CountsOne(i, ext) ==
  /\ cut' = cut /\ LayerOpens(i) /\ \A k \in Relays : k # i => Steady(k)
  /\ relay'[i].state = relay[i].state /\ relay'[i].fwdSeq = relay[i].fwdSeq + 1
  /\ relay'[i].outgoing = relay[i].outgoing /\ relay'[i].extension = ext

Passes(i) ==
  /\ CountsOne(i, relay[i].extension) /\ i < hops /\ i + 1 \in 1..hops
  /\ \A k \in Relays : down'[k] = IF k = i THEN Tail(down[k])
                                  ELSE IF k = i + 1 /\ k \notin cut
                                  THEN Append(down[k], ForeCell(i + 1, Passed(i))) ELSE down[k]

Consumes(i) ==
  /\ CountsOne(i, relay[i].extension) /\ i = hops
  /\ \A k \in Relays : down'[k] = IF k = i THEN Tail(down[k]) ELSE down[k]

Asks(i) ==
  /\ CountsOne(i, "waiting") /\ i = hops /\ i < Hops /\ i + 1 \in Relays
  /\ relay[i].extension = "none"
  /\ \A k \in Relays : down'[k] = IF k = i THEN Tail(down[k])
                                  ELSE IF k = i + 1 /\ k \notin cut
                                  THEN Append(down[k], Control("create")) ELSE down[k]

Finishes(i, rest) ==
  /\ cut' = cut /\ Closes(i, rest) /\ relay[i].state # "none"
  /\ rest = down[i] \/ (down[i] # << >> /\ rest = Tail(down[i]))
  /\ i < Hops => down[i] # << >> /\ Head(down[i]).kind = "destroy" /\ relay[i].state = "open"

Cuts(i) ==
  /\ relay' = relay /\ i \notin cut /\ cut' = cut \union {i}
  /\ \A k \in Relays : k # i => down'[k] = down[k]
  /\ \E n \in 0..Len(down[i]) : down'[i] = SubSeq(down[i], 1, n)

Kind(i) ==
  \/ \E from, to \in {"waiting", "answered", "linking", "linked", "abandoned"} :
        /\ Extends(i, from, to)
        /\ \/ from = "waiting" /\ to = "answered" /\ handleCircuitCreated(i)
           \/ from = "answered" /\ to = "linking"
           \/ from = "answered" /\ to = "abandoned"
           \/ from = "waiting" /\ to = "abandoned"
           \/ from = "linking" /\ to = "linked"
  \/ Creates(i) \/ Drops(i) \/ Passes(i) \/ Consumes(i) \/ Asks(i)
  \/ \E rest : Finishes(i, rest)
  \/ Cuts(i)

(* Every such step is one of these.                                        *)
LEMMA RelayKinds ==
  ASSUME CircuitInv, RelaySide
  PROVE  Quiet \/ \E i \in Relays : Kind(i)
<1>1. /\ \A j \in Relays : j \in Nat /\ j >= 1 /\ j <= Hops
      /\ Hops \in Relays /\ Hops \in Nat /\ ~(Hops < Hops) /\ CircuitTypeOK
    BY Ranges DEF CircuitInv
<1>2. ASSUME UNCHANGED <<relay, down, cut>> PROVE Quiet
    BY <1>2 DEF Quiet, Steady
<1>3. ASSUME NEW i \in Relays, NEW rev, NEW rout, down' = down, cut' = cut,
             Becomes(i, relay[i].state, relay[i].fwdSeq, rev, relay[i].outgoing, rout,
                     relay[i].extension)
      PROVE  Quiet
    BY <1>3 DEF Quiet, Steady, Becomes
<1>4. ASSUME NEW i \in Relays, down' = down, cut' = cut, NEW rev, NEW out, NEW rout, NEW to,
             Becomes(i, relay[i].state, relay[i].fwdSeq, rev, out, rout, to),
             IF to = "linking" THEN out = TRUE /\ relay[i].state # "closed" ELSE out = relay[i].outgoing
      PROVE  Extends(i, relay[i].extension, to)
    BY <1>4 DEF Extends, Steady, Becomes
<1>5. ASSUME NEW i \in Relays, i = Hops, sending[i]["in"] # NoCell \/ pump # "none"
      PROVE  relay[i].state # "none"
    <2>1. relay[i].fwdSeq >= 1
        <3>1. CASE sending[i]["in"] # NoCell
            <4>1. relay[i].revSeq # 0
                BY <3>1 DEF CircuitInv, Writers, Goroutines
            <4>2. relay[i].fwdSeq # 0 /\ relay[i].fwdSeq \in Nat
                BY <4>1, RelayFields DEF CircuitInv, Grown
            <4> QED BY <4>2
        <3>2. CASE pump # "none"
            BY <1>5, <3>2 DEF CircuitInv, Service
        <3> QED BY <1>5, <3>1, <3>2
    <2>2. i \in 1..hops
        BY <1>1, <2>1, Ranges DEF CircuitInv, Grown
    <2> QED BY <2>2, HopsMade
<1>6. CASE pumpEnds
    <2>1. down' = down /\ cut' = cut
        BY <1>6 DEF pumpEnds
    <2>2. CASE relay[Hops].state = "open"
        <3>1. Counts(Hops, relay[Hops].fwdSeq, relay[Hops].revSeq + 1)
            BY <1>6, <2>2, PumpEndsEffect
        <3> QED BY <1>1, <1>3, <2>1, <3>1 DEF Counts
    <2>3. CASE relay[Hops].state # "open"
        BY <1>2, <1>6, <2>1, <2>3, PumpEndsEffect
    <2> QED BY <2>2, <2>3
<1>7. CASE pumpWrites
    <2>1. cut' = cut
        BY <1>7 DEF pumpWrites
    <2>2. CASE UNCHANGED <<relay, down>>
        BY <1>2, <2>1, <2>2
    <2>3. CASE closeRelayCircuit(Hops, down)
        <3>1. Closes(Hops, down[Hops])
            BY <1>1, <2>3, ClosesEffect
        <3>2. relay[Hops].state # "none"
            <4>1. sending[Hops]["pump"] # NoCell
                BY <1>7 DEF pumpWrites
            <4>2. pump # "none"
                BY <1>1, <4>1 DEF CircuitInv, Writers
            <4> QED BY <1>1, <1>5, <4>2
        <3>3. Finishes(Hops, down[Hops])
            BY <1>1, <2>1, <3>1, <3>2 DEF Finishes
        <3> QED BY <1>1, <3>3 DEF Kind
    <2> QED BY <1>7, <2>2, <2>3 DEF pumpWrites
<1>8. CASE pumpReads
    <2>1. down' = down /\ cut' = cut
        BY <1>8 DEF pumpReads
    <2>2. Counts(Hops, relay[Hops].fwdSeq, relay[Hops].revSeq + 1)
        BY <1>8, PumpReadsEffect
    <2> QED BY <1>1, <1>3, <2>1, <2>2 DEF Counts
<1>9. CASE serviceEnds
    BY <1>2, <1>9 DEF serviceEnds
<1>10. ASSUME NEW i \in Relays, ReaderIn(i) PROVE Quiet \/ Kind(i)
    <2>1. cut' = cut
        BY <1>10 DEF ReaderIn, handleCircuitCreate, forwardRejected, forwardOn, extendCircuit,
                openCircuitTarget, relayData, relayClose, destroyCircuitByKey, writeReverse,
                writeOpenOK
    <2>2. CASE handleCircuitCreate(i)
        <3>1. Creates(i)
            BY <2>1, <2>2, CreateEffect DEF Creates, Steady, Becomes
        <3> QED BY <3>1 DEF Kind
    <2>3. ASSUME relay' = relay, down[i] # << >>, relay[i].state # "open",
                 \A k \in Relays : down'[k] = IF k = i THEN Tail(down[k]) ELSE down[k]
          PROVE  Kind(i)
        BY <2>1, <2>3 DEF Kind, Drops, Steady
    <2>4. CASE forwardRejected(i)
        BY <2>3, <2>4, RejectedEffect
    <2>5. ASSUME NEW fwd, NEW rev, Counts(i, fwd, rev), LayerOpens(i), fwd = relay[i].fwdSeq + 1
          PROVE  CountsOne(i, relay[i].extension)
        BY <2>1, <2>5 DEF Counts, CountsOne, Becomes, Steady
    <2>6. CASE forwardOn(i)
        <3>1. CountsOne(i, relay[i].extension)
            BY <2>5, <2>6, ForwardOnEffect
        <3>2. Passes(i)
            BY <2>6, <3>1, ForwardOnEffect DEF Passes
        <3> QED BY <3>2 DEF Kind
    <2>7. CASE extendCircuit(i)
        <3>1. /\ LayerOpens(i) /\ i = hops /\ hops < Hops /\ i + 1 \in Relays
              /\ relay[i].fwdSeq = 0 /\ relay[i].extension = "none"
              /\ 1 = relay[i].fwdSeq + 1
            BY <2>7, ExtendEffect
        <3>2. CASE /\ Counts(i, 1, 1)
                   /\ \A k \in Relays : down'[k] = IF k = i THEN Tail(down[k]) ELSE down[k]
            <4>1. CountsOne(i, relay[i].extension)
                BY <2>5, <3>1, <3>2
            <4> QED BY <3>1, <3>2, <4>1 DEF Consumes, Kind
        <3>3. CASE /\ Becomes(i, relay[i].state, 1, 0, relay[i].outgoing, relay[i].relayOut, "waiting")
                   /\ \A k \in Relays : down'[k] = IF k = i THEN Tail(down[k])
                                               ELSE IF k = i + 1 /\ k \notin cut
                                               THEN Append(down[k], Control("create")) ELSE down[k]
            <4>1. CountsOne(i, "waiting")
                BY <2>1, <3>1, <3>3 DEF CountsOne, Becomes, Steady
            <4>2. Asks(i)
                BY <3>1, <3>3, <4>1 DEF Asks
            <4> QED BY <4>2 DEF Kind
        <3> QED BY <2>7, <3>2, <3>3, ExtendEffect
    <2>8. CASE openCircuitTarget(i)
        <3>1. /\ LayerOpens(i) /\ i = hops /\ Counts(i, 1, 1) /\ 1 = relay[i].fwdSeq + 1
              /\ \A k \in Relays : down'[k] = IF k = i THEN Tail(down[k]) ELSE down[k]
            BY <2>8, OpenEffect
        <3>2. CountsOne(i, relay[i].extension)
            BY <2>5, <3>1
        <3> QED BY <3>1, <3>2 DEF Consumes, Kind
    <2>9. ASSUME NEW rest, Closes(i, rest), relay[i].state # "none",
                 rest = down[i] \/ (down[i] # << >> /\ rest = Tail(down[i])),
                 i < Hops => down[i] # << >> /\ Head(down[i]).kind = "destroy" /\ relay[i].state = "open"
          PROVE  Kind(i)
        <3>1. Finishes(i, rest)
            BY <2>1, <2>9 DEF Finishes
        <3> QED BY <3>1 DEF Kind
    <2>10. CASE relayData(i)
        <3>1. /\ LayerOpens(i) /\ i = hops /\ i = Hops
            BY <2>10, DataEffect
        <3>2. CASE /\ Counts(i, relay[i].fwdSeq + 1, relay[i].revSeq)
                   /\ \A k \in Relays : down'[k] = IF k = i THEN Tail(down[k]) ELSE down[k]
            <4>1. CountsOne(i, relay[i].extension)
                BY <2>5, <3>1, <3>2
            <4> QED BY <3>1, <3>2, <4>1 DEF Consumes, Kind
        <3>3. CASE Closes(i, Tail(down[i]))
            <4>1. relay[i].state # "none" /\ down[i] # << >>
                BY <3>1 DEF LayerOpens, Arrives
            <4> QED BY <1>1, <2>9, <3>1, <3>3, <4>1
        <3> QED BY <2>10, <3>2, <3>3, DataEffect
    <2>11. CASE relayClose(i)
        <3>1. i = Hops /\ Closes(i, Tail(down[i])) /\ LayerOpens(i)
            BY <2>11, CloseCmdEffect
        <3>2. relay[i].state # "none" /\ down[i] # << >>
            BY <3>1 DEF LayerOpens, Arrives
        <3> QED BY <1>1, <2>9, <3>1, <3>2
    <2>12. CASE destroyCircuitByKey(i)
        <3>1. CASE relay[i].state = "open"
            <4>1. /\ down[i] # << >> /\ Head(down[i]).kind = "destroy" /\ Closes(i, Tail(down[i]))
                BY <2>12, <3>1, DestroyEffect
            <4> QED BY <2>9, <3>1, <4>1
        <3>2. CASE relay[i].state # "open"
            BY <2>3, <2>12, <3>2, DestroyEffect
        <3> QED BY <3>1, <3>2
    <2>13. CASE writeReverse(i, "in")
        BY <1>2, <2>1, <2>13 DEF writeReverse
    <2>14. CASE writeOpenOK(i)
        <3>1. i = Hops /\ sending[i]["in"] # NoCell
            BY <2>14 DEF writeOpenOK, CircuitInv, Writers
        <3>2. CASE UNCHANGED <<relay, down>>
            BY <1>2, <2>1, <3>2
        <3>3. CASE closeRelayCircuit(i, down)
            <4>1. Closes(i, down[i])
                BY <3>3, ClosesEffect
            <4>2. relay[i].state # "none"
                BY <1>5, <3>1
            <4> QED BY <1>1, <2>9, <3>1, <4>1, <4>2
        <3> QED BY <2>14, <3>2, <3>3 DEF writeOpenOK
    <2> QED BY <1>10, <2>2, <2>4, <2>6, <2>7, <2>8, <2>10, <2>11, <2>12, <2>13, <2>14 DEF ReaderIn
<1>11. ASSUME NEW i \in Relays, ReaderOut(i) PROVE Quiet \/ Kind(i)
    <2>1. down' = down /\ cut' = cut
        BY <1>11 DEF ReaderOut, handleCircuitCreated, handleCircuitReverse, writeReverse
    <2>2. CASE relay' = relay
        BY <1>2, <2>1, <2>2
    <2>3. CASE handleCircuitCreated(i)
        <3>1. CASE relay[i].extension = "waiting"
            <4>1. Extends(i, "waiting", "answered")
                BY <1>4, <2>1, <2>3, <3>1, CreatedEffect
            <4> QED BY <2>3, <4>1 DEF Kind
        <3> QED BY <2>2, <2>3, <3>1, CreatedEffect
    <2>4. CASE handleCircuitReverse(i)
        <3>1. CASE relay[i].relayOut /\ relay[i].state = "open"
            <4>1. Counts(i, relay[i].fwdSeq, relay[i].revSeq + 1)
                BY <2>4, <3>1, ReverseEffect
            <4> QED BY <1>3, <2>1, <4>1 DEF Counts
        <3> QED BY <2>2, <2>4, <3>1, ReverseEffect
    <2>5. CASE writeReverse(i, "out")
        BY <2>2, <2>5 DEF writeReverse
    <2> QED BY <1>11, <2>3, <2>4, <2>5 DEF ReaderOut
<1>12. ASSUME NEW i \in Relays, NEW cmd, NEW rout, NEW ext, LastWord(i, cmd, rout, ext),
              down' = down, cut' = cut, ext # "linking"
       PROVE  Extends(i, relay[i].extension, ext)
    <2>1. PICK r \in {0, 1} : Becomes(i, relay[i].state, relay[i].fwdSeq, r, relay[i].outgoing, rout, ext)
        BY <1>12 DEF LastWord
    <2> QED BY <1>4, <1>12, <2>1
<1>13. ASSUME NEW i \in Relays, Extension(i) \/ extendTimesOut(i) PROVE Quiet \/ Kind(i)
    <2>1. down' = down /\ cut' = cut
        BY <1>13 DEF Extension, extendAnswered, extendLinked, extendTimesOut, writeReverse
    <2>2. CASE extendAnswered(i)
        <3>1. relay[i].extension = "answered"
            BY <2>2, AnsweredEffect
        <3>2. CASE relay[i].state = "closed"
            <4>1. Becomes(i, relay[i].state, relay[i].fwdSeq, relay[i].revSeq, relay[i].outgoing,
                          relay[i].relayOut, "abandoned")
                BY <2>2, <3>2, AnsweredEffect
            <4>2. Extends(i, "answered", "abandoned")
                BY <1>4, <2>1, <3>1, <4>1
            <4> QED BY <4>2 DEF Kind
        <3>3. CASE relay[i].state # "closed"
            <4>1. Becomes(i, relay[i].state, relay[i].fwdSeq, relay[i].revSeq, TRUE,
                          relay[i].relayOut, "linking")
                BY <2>2, <3>3, AnsweredEffect
            <4>2. Extends(i, "answered", "linking")
                BY <1>4, <2>1, <3>1, <3>3, <4>1
            <4> QED BY <4>2 DEF Kind
        <3> QED BY <3>2, <3>3
    <2>3. CASE extendLinked(i)
        <3>1. relay[i].extension = "linking" /\ LastWord(i, "extended", TRUE, "linked")
            BY <2>3, LinkedEffect
        <3>2. Extends(i, "linking", "linked")
            BY <1>12, <2>1, <3>1
        <3> QED BY <3>2 DEF Kind
    <2>4. CASE writeReverse(i, "extend")
        BY <1>2, <2>1, <2>4 DEF writeReverse
    <2>5. CASE extendTimesOut(i)
        <3>1. /\ relay[i].extension \in {"waiting", "answered"}
              /\ LastWord(i, "openError", relay[i].relayOut, "abandoned")
            BY <2>5, TimesOutEffect
        <3>2. Extends(i, relay[i].extension, "abandoned")
            BY <1>12, <2>1, <3>1
        <3> QED BY <3>1, <3>2 DEF Kind
    <2> QED BY <1>13, <2>2, <2>3, <2>4, <2>5 DEF Extension
<1>14. ASSUME NEW i \in Relays, Cut(i) PROVE Kind(i)
    <2>1. down \in [Relays -> Seq(Cells)]
        BY <1>1 DEF CircuitTypeOK
    <2>2. PICK n \in 0..Len(down[i]) : down' = [down EXCEPT ![i] = SubSeq(down[i], 1, n)]
        BY <1>14 DEF Cut
    <2>3. Cuts(i)
        BY <1>14, <2>1, <2>2 DEF Cut, Cuts
    <2> QED BY <2>3 DEF Kind
<1> QED BY <1>6, <1>7, <1>8, <1>9, <1>10, <1>11, <1>13, <1>14 DEF RelaySide

-----------------------------------------------------------------------------
(* CREATE, CREATED and DESTROY.                                            *)

(* A link of which something has been read or lost.                        *)
Kept(s, t) == t = s \/ (s # << >> /\ t = Tail(s)) \/ \E n \in 0..Len(s) : t = SubSeq(s, 1, n)

(* What is kept of a queue are cells of it, in their order.                *)
LEMMA KeptCells ==
  ASSUME NEW s \in Seq(Cells), NEW t, Kept(s, t)
  PROVE  /\ t \in Seq(Cells) /\ Len(t) <= Len(s) /\ Len(t) \in Nat /\ Len(s) \in Nat
         /\ \A m \in 1..Len(t) : \E l \in 1..Len(s) : l >= m /\ t[m] = s[l]
         /\ s = << >> => t = << >>
<1>1. CASE t = s
    <2>1. \A m \in 1..Len(t) : m \in 1..Len(s) /\ m >= m /\ t[m] = s[m]
        BY <1>1
    <2> QED BY <1>1, <2>1
<1>2. CASE s # << >> /\ t = Tail(s)
    <2>1. /\ Tail(s) \in Seq(Cells) /\ Len(s) \in Nat /\ Len(Tail(s)) = Len(s) - 1
          /\ \A m \in 1..Len(Tail(s)) : Tail(s)[m] = s[m + 1] /\ m + 1 \in 1..Len(s)
        BY <1>2, LinkTail
    <2>2. \A m \in 1..Len(t) : m + 1 \in 1..Len(s) /\ m + 1 >= m /\ t[m] = s[m + 1]
        BY <1>2, <2>1
    <2>3. \A m \in 1..Len(t) : \E l \in 1..Len(s) : l >= m /\ t[m] = s[l]
        BY <2>2
    <2>4. t \in Seq(Cells) /\ Len(t) <= Len(s) /\ Len(t) \in Nat
        BY <1>2, <2>1
    <2> QED BY <1>2, <2>1, <2>3, <2>4
<1>3. ASSUME NEW n \in 0..Len(s), t = SubSeq(s, 1, n)
      PROVE  /\ t \in Seq(Cells) /\ Len(t) <= Len(s) /\ Len(t) \in Nat /\ Len(s) \in Nat
             /\ \A m \in 1..Len(t) : \E l \in 1..Len(s) : l >= m /\ t[m] = s[l]
             /\ s = << >> => t = << >>
    <2>1. /\ t \in Seq(Cells) /\ Len(t) = n /\ n <= Len(s) /\ Len(s) \in Nat
          /\ \A m \in 1..n : t[m] = s[m] /\ m \in 1..Len(s)
        BY <1>3, LinkPrefix
    <2>2. \A m \in 1..Len(t) : m \in 1..Len(s) /\ m >= m /\ t[m] = s[m]
        BY <2>1
    <2>4. Len(t) <= Len(s) /\ Len(t) \in Nat
        BY <2>1
    <2>5. s = << >> => t = << >>
        <3>1. s = << >> => Len(s) = 0
            OBVIOUS
        <3>2. s = << >> => Len(t) = 0
            BY <2>1, <2>4, <3>1
        <3> QED BY <2>1, <3>2
    <2> QED BY <2>1, <2>2, <2>4, <2>5
<1> QED BY <1>1, <1>2, <1>3 DEF Kept

(* Nothing new is in what is kept of a queue.                              *)
LEMMA KeptHolds ==
  ASSUME NEW s \in Seq(Cells), NEW t, Kept(s, t), NEW kind
  PROVE  Holds(t, kind) => Holds(s, kind)
<1>1. \A m \in 1..Len(t) : \E l \in 1..Len(s) : l >= m /\ t[m] = s[l]
    BY KeptCells
<1> QED BY <1>1 DEF Holds

(* CREATE comes first.                                                     *)
Sound(s) ==
  \A m \in 1..Len(s) : s[m].kind \in {"create", "relay", "destroy"} /\ (s[m].kind = "create" => m = 1)

(* What is kept of a sound queue is sound.                                 *)
LEMMA SoundKept ==
  ASSUME NEW s \in Seq(Cells), NEW t, Kept(s, t), Sound(s)
  PROVE  Sound(t)
<1> SUFFICES ASSUME NEW m \in 1..Len(t)
             PROVE  t[m].kind \in {"create", "relay", "destroy"} /\ (t[m].kind = "create" => m = 1)
    BY DEF Sound
<1>1. Len(t) \in Nat /\ Len(s) \in Nat
    BY KeptCells
<1>2. PICK l \in 1..Len(s) : l >= m /\ t[m] = s[l]
    BY KeptCells
<1>3. s[l].kind \in {"create", "relay", "destroy"} /\ (s[l].kind = "create" => l = 1)
    BY DEF Sound
<1>4. l = 1 => m = 1
    BY <1>1, <1>2
<1> QED BY <1>2, <1>3, <1>4

(* A sound queue stays so under relay and destroy cells.                   *)
LEMMA SoundAppend ==
  ASSUME NEW s \in Seq(Cells), NEW c \in Cells, Sound(s), c.kind \in {"relay", "destroy"}
  PROVE  Sound(Append(s, c))
<1>1. /\ Len(s) \in Nat /\ Append(s, c)[Len(s) + 1] = c
      /\ \A m \in 1..Len(s) : Append(s, c)[m] = s[m]
      /\ \A m \in 1..Len(Append(s, c)) : m \in 1..Len(s) \/ m = Len(s) + 1
    BY LinkAppend
<1> SUFFICES ASSUME NEW m \in 1..Len(Append(s, c))
             PROVE  /\ Append(s, c)[m].kind \in {"create", "relay", "destroy"}
                    /\ Append(s, c)[m].kind = "create" => m = 1
    BY DEF Sound
<1>2. CASE m \in 1..Len(s)
    BY <1>1, <1>2 DEF Sound
<1>3. CASE m = Len(s) + 1
    BY <1>1, <1>3
<1> QED BY <1>1, <1>2, <1>3

(* Link k in the invariant.                                                *)
LEMMA LinkFacts ==
  ASSUME CircuitInv, NEW k \in Relays
  PROVE  /\ down[k] \in Seq(Cells) /\ up[k] \in Seq(Cells) /\ Sound(down[k])
         /\ Holds(down[k], "create") => up[k] = << >> /\ relay[k].state = "none"
         /\ down[k] # << >> => Begun(k)
         /\ up[k] # << >> => Begun(k)
<1>1. down[k] \in Seq(Cells) /\ up[k] \in Seq(Cells) /\ Making(k)
    BY DEF CircuitInv, CircuitTypeOK
<1>2. Sound(down[k])
    BY <1>1 DEF Making, Sound
<1>3. Holds(down[k], "create") => up[k] = << >> /\ relay[k].state = "none"
    BY <1>1 DEF Making, Holds
<1> QED BY <1>1, <1>2, <1>3 DEF Making

(* No CREATE is sent, and none is handled.                                 *)
LEMMA MakingKept ==
  ASSUME CircuitInv, NEW k \in Relays,
         Sound(down'[k]), Holds(down'[k], "create") => Holds(down[k], "create"),
         Holds(down'[k], "relay") => k <= hops',
         Holds(down'[k], "destroy") =>
            IF k = 1 THEN ~registered' ELSE relay'[k - 1].state = "closed",
         \/ Kept(up[k], up'[k])
         \/ k \in 1..hops /\ \E c \in Cells : c.kind = "relay" /\ up'[k] = Append(up[k], c),
         hops' \in Nat, hops' >= hops,
         relay'[k].state = relay[k].state \/ (relay[k].state # "none" /\ relay'[k].state # "none"),
         Made(k)' => Made(k),
         ~Begun(k)' => ~Begun(k) /\ down'[k] = << >>
  PROVE  Making(k)'
<1>1. /\ Making(k) /\ down[k] \in Seq(Cells) /\ up[k] \in Seq(Cells) /\ hops \in Nat /\ k \in Nat
    BY Ranges DEF CircuitInv, CircuitTypeOK
<1>2. relay'[k].state = "none" <=> relay[k].state = "none"
    OBVIOUS
<1>3. /\ Holds(up'[k], "created") => Holds(up[k], "created") /\ Len(up'[k]) = 1
      /\ \A m \in 1..Len(up'[k]) : up'[k][m].kind \in {"created", "relay"}
      /\ Holds(up'[k], "relay") => k <= hops'
      /\ Holds(down[k], "create") => up'[k] = << >>
      /\ ~Begun(k) => up'[k] = << >>
    <2>1. CASE Kept(up[k], up'[k])
        <3>1. /\ up'[k] \in Seq(Cells) /\ Len(up'[k]) <= Len(up[k]) /\ Len(up'[k]) \in Nat
              /\ Len(up[k]) \in Nat
              /\ \A m \in 1..Len(up'[k]) : \E l \in 1..Len(up[k]) : l >= m /\ up'[k][m] = up[k][l]
              /\ up[k] = << >> => up'[k] = << >>
            <4>1. up[k] \in Seq(Cells)
                BY <1>1
            <4> DEFINE s == up[k]  t == up'[k]
            <4>2. s \in Seq(Cells) /\ Kept(s, t)
                BY <4>1, <2>1
            <4> HIDE DEF s, t
            <4>3. /\ t \in Seq(Cells) /\ Len(t) <= Len(s) /\ Len(t) \in Nat /\ Len(s) \in Nat
                  /\ \A m \in 1..Len(t) : \E l \in 1..Len(s) : l >= m /\ t[m] = s[l]
                  /\ s = << >> => t = << >>
                BY <4>2, KeptCells
            <4> QED BY <4>3 DEF s, t
        <3>0. /\ Holds(up'[k], "created") => Holds(up[k], "created")
              /\ Holds(up'[k], "relay") => Holds(up[k], "relay")
            BY <1>1, <2>1, KeptHolds
        <3>2. ASSUME Holds(up'[k], "created") PROVE Holds(up[k], "created") /\ Len(up'[k]) = 1
            <4>1. Holds(up[k], "created")
                BY <3>0, <3>2
            <4>2. Len(up[k]) = 1
                BY <1>1, <4>1 DEF Making
            <4> DEFINE a == Len(up'[k])
            <4>3. PICK m \in 1..a : up'[k][m].kind = "created"
                BY <3>2 DEF Holds
            <4>4. a <= 1 /\ a \in Nat
                BY <3>1, <4>2
            <4> HIDE DEF a
            <4>5. a = 1
                BY <4>3, <4>4
            <4> QED BY <4>1, <4>5 DEF a
        <3>3. \A m \in 1..Len(up'[k]) : up'[k][m].kind \in {"created", "relay"}
            BY <1>1, <3>1 DEF Making
        <3>4. Holds(up'[k], "relay") => k <= hops'
            <4>1. Holds(up'[k], "relay") => k <= hops
                BY <1>1, <3>0 DEF Making
            <4> QED BY <1>1, <4>1
        <3>5. Holds(down[k], "create") => up'[k] = << >>
            BY <3>1, LinkFacts
        <3>6. ~Begun(k) => up'[k] = << >>
            BY <3>1, LinkFacts
        <3> QED BY <3>2, <3>3, <3>4, <3>5, <3>6
    <2>2. ASSUME k \in 1..hops, NEW c \in Cells, c.kind = "relay", up'[k] = Append(up[k], c)
          PROVE  /\ ~Holds(up'[k], "created")
                 /\ \A m \in 1..Len(up'[k]) : up'[k][m].kind \in {"created", "relay"}
                 /\ k <= hops' /\ ~Holds(down[k], "create") /\ Begun(k)
        <3>1. ~Holds(up[k], "created") /\ ~Holds(down[k], "create") /\ Made(k) /\ relay[k].state # "none"
            BY <2>2, HopsMade
        <3>2. ~Holds(up'[k], "created")
            BY <1>1, <2>2, <3>1, HoldsAppend
        <3>3. /\ Len(up[k]) \in Nat /\ up'[k][Len(up[k]) + 1] = c
              /\ \A m \in 1..Len(up[k]) : up'[k][m] = up[k][m]
              /\ \A m \in 1..Len(up'[k]) : m \in 1..Len(up[k]) \/ m = Len(up[k]) + 1
            BY <1>1, <2>2, LinkAppend
        <3>4. \A m \in 1..Len(up[k]) : up[k][m].kind \in {"created", "relay"}
            BY <1>1 DEF Making
        <3>5. \A m \in 1..Len(up'[k]) : up'[k][m].kind \in {"created", "relay"}
            BY <2>2, <3>3, <3>4
        <3>6. k <= hops'
            BY <1>1, <2>2
        <3>7. Begun(k)
            BY <1>1, <3>1 DEF Making
        <3> QED BY <3>1, <3>2, <3>5, <3>6, <3>7
    <2> QED BY <2>1, <2>2
<1>4. ~Begun(k)' => down'[k] = << >> /\ up'[k] = << >> /\ relay'[k].state = "none"
    BY <1>1, <1>2, <1>3 DEF Making
<1>5. \A m \in 1..Len(down'[k]) :
         down'[k][m].kind = "create" => m = 1 /\ up'[k] = << >> /\ relay'[k].state = "none"
    <2>1. ASSUME NEW m \in 1..Len(down'[k]), down'[k][m].kind = "create"
          PROVE  m = 1 /\ Holds(down[k], "create")
        BY <2>1 DEF Sound, Holds
    <2> QED BY <1>2, <1>3, <2>1, LinkFacts
<1>6. Holds(up'[k], "created") => /\ Len(up'[k]) = 1 /\ ~Holds(down'[k], "create")
                                  /\ relay'[k].state # "none"
    BY <1>1, <1>2, <1>3 DEF Making
<1>7. Made(k)' => /\ ~Holds(down'[k], "create") /\ ~Holds(up'[k], "created")
                  /\ relay'[k].state # "none"
    BY <1>1, <1>2, <1>3 DEF Making
<1>8. \A m \in 1..Len(down'[k]) : down'[k][m].kind \in {"create", "relay", "destroy"}
    BY DEF Sound
<1>9. Holds(down'[k], "relay") \/ Holds(up'[k], "relay") => k <= hops'
    BY <1>3
<1> HIDE DEF Holds, Made, Begun
<1> QED BY <1>3, <1>4, <1>5, <1>6, <1>7, <1>8, <1>9 DEF Making

(* The links towards the client.                                           *)
LEMMA UpKinds ==
  ASSUME CircuitInv, RelaySide, NEW k \in Relays, ~ \E i \in Relays : handleCircuitCreate(i)
  PROVE  \/ Kept(up[k], up'[k])
         \/ k \in 1..hops /\ \E c \in Cells : c.kind = "relay" /\ up'[k] = Append(up[k], c)
<1>1. /\ CircuitTypeOK /\ up \in Links /\ up[k] \in Seq(Cells) /\ Hops \in Relays
    BY Ranges DEF CircuitInv, CircuitTypeOK, Links
<1>2. CASE up' = up
    BY <1>2 DEF Kept
<1>3. ASSUME NEW i \in Relays, NEW g \in Goroutines, Written(i, g), sending[i][g] # NoCell
      PROVE  \/ Kept(up[k], up'[k])
             \/ k \in 1..hops /\ \E c \in Cells : c.kind = "relay" /\ up'[k] = Append(up[k], c)
    <2>1. sending[i][g] \in Cells /\ sending[i][g].kind = "relay"
        BY <1>1, <1>3 DEF CircuitTypeOK, CircuitInv, Writers
    <2>2. i \in 1..hops
        <3>1. relay[i].revSeq # 0 /\ relay[i].revSeq \in Nat /\ relay[i].fwdSeq \in Nat
            BY <1>1, <1>3, RelayFields DEF CircuitInv, Writers
        <3>2. relay[i].fwdSeq # 0
            BY <3>1 DEF CircuitInv, Grown
        <3>3. relay[i].fwdSeq >= 1
            BY <3>1, <3>2
        <3> QED BY <3>3, Ranges DEF CircuitInv, Grown
    <2>3. up'[k] = up[k] \/ (k = i /\ up'[k] = Append(up[k], sending[i][g]))
        BY <1>1, <1>3, WrittenEffect, ZenonT(40)
    <2>4. CASE up'[k] = up[k]
        BY <2>4 DEF Kept
    <2>5. CASE k = i /\ up'[k] = Append(up[k], sending[i][g])
        BY <2>1, <2>2, <2>5, Zenon
    <2> QED BY <2>3, <2>4, <2>5
<1>4. ASSUME NEW i \in Relays, up[i] # << >>, up' = Taken(up, i) PROVE Kept(up[k], up'[k])
    BY <1>1, <1>4, TakenAt DEF Kept
<1>5. "in" \in Goroutines /\ "out" \in Goroutines /\ "extend" \in Goroutines /\ "pump" \in Goroutines
    BY DEF Goroutines
<1>6. CASE pumpEnds \/ pumpReads \/ serviceEnds
    BY <1>2, <1>6 DEF pumpEnds, pumpReads, serviceEnds
<1>7. CASE pumpWrites
    BY <1>1, <1>3, <1>5, <1>7 DEF pumpWrites
<1>8. ASSUME NEW i \in Relays, ReaderIn(i)
      PROVE  \/ Kept(up[k], up'[k])
             \/ k \in 1..hops /\ \E c \in Cells : c.kind = "relay" /\ up'[k] = Append(up[k], c)
    <2>1. CASE \/ forwardRejected(i) \/ forwardOn(i) \/ extendCircuit(i) \/ openCircuitTarget(i)
               \/ relayData(i) \/ relayClose(i) \/ destroyCircuitByKey(i)
        BY <1>2, <2>1 DEF forwardRejected, forwardOn, extendCircuit, openCircuitTarget, relayData,
                          relayClose, destroyCircuitByKey
    <2>2. CASE writeReverse(i, "in")
        BY <1>3, <1>5, <2>2 DEF writeReverse
    <2>3. CASE writeOpenOK(i)
        BY <1>3, <1>5, <2>3 DEF writeOpenOK
    <2> QED BY <1>8, <2>1, <2>2, <2>3 DEF ReaderIn
<1>9. ASSUME NEW i \in Relays, ReaderOut(i)
      PROVE  \/ Kept(up[k], up'[k])
             \/ k \in 1..hops /\ \E c \in Cells : c.kind = "relay" /\ up'[k] = Append(up[k], c)
    <2>1. CASE handleCircuitCreated(i)
        <3>1. i + 1 \in Relays /\ up[i + 1] # << >>
            BY <2>1, CreatedEffect
        <3>2. up' = Taken(up, i + 1)
            BY <2>1 DEF handleCircuitCreated
        <3> QED BY <1>4, <3>1, <3>2
    <2>2. CASE handleCircuitReverse(i)
        <3>1. i + 1 \in Relays /\ up[i + 1] # << >>
            BY <2>2, ReverseEffect
        <3>2. up' = Taken(up, i + 1)
            BY <2>2 DEF handleCircuitReverse
        <3> QED BY <1>4, <3>1, <3>2
    <2>3. CASE writeReverse(i, "out")
        BY <1>3, <1>5, <2>3 DEF writeReverse
    <2> QED BY <1>9, <2>1, <2>2, <2>3 DEF ReaderOut
<1>10. ASSUME NEW i \in Relays, Extension(i) \/ extendTimesOut(i)
       PROVE  \/ Kept(up[k], up'[k])
              \/ k \in 1..hops /\ \E c \in Cells : c.kind = "relay" /\ up'[k] = Append(up[k], c)
    <2>1. CASE extendAnswered(i) \/ extendLinked(i) \/ extendTimesOut(i)
        BY <1>2, <2>1 DEF extendAnswered, extendLinked, extendTimesOut
    <2>2. CASE writeReverse(i, "extend")
        BY <1>3, <1>5, <2>2 DEF writeReverse
    <2> QED BY <1>10, <2>1, <2>2 DEF Extension
<1>11. ASSUME NEW i \in Relays, Cut(i) PROVE Kept(up[k], up'[k])
    <2>1. PICK n \in 0..Len(up[i]) : up' = [up EXCEPT ![i] = SubSeq(up[i], 1, n)]
        BY <1>11 DEF Cut
    <2>2. up'[k] = IF k = i THEN SubSeq(up[i], 1, n) ELSE up[k]
        BY <1>1, <2>1 DEF Links
    <2> QED BY <2>2 DEF Kept
<1> QED BY <1>6, <1>7, <1>8, <1>9, <1>10, <1>11 DEF RelaySide

(* Relays extend, but do not forget that they have.                        *)
LEMMA MadeKept ==
  ASSUME CircuitInv, UNCHANGED clientVars, NEW k \in Relays,
         k # 1 => /\ relay[k - 1].extension # "none" => relay'[k - 1].extension # "none"
                  /\ relay'[k - 1].extension \in {"answered", "linking", "linked"}
                       => relay[k - 1].extension \in {"answered", "linking", "linked"}
  PROVE  (Made(k)' => Made(k)) /\ (~Begun(k)' => ~Begun(k))
BY DEF Made, Begun, clientVars

(* What is true of a relay's circuit after most steps.                     *)
Calm(j) == relay'[j].state = relay[j].state \/ (relay[j].state # "none" /\ relay'[j].state = "closed")
Prior(j) ==
  /\ relay[j].state = "closed" => relay'[j].state = "closed"
  /\ relay[j].extension # "none" => relay'[j].extension # "none"
  /\ relay'[j].extension \in {"answered", "linking", "linked"}
       => relay[j].extension \in {"answered", "linking", "linked"}

(* A link that a relay has read, or written to.                            *)
Moved(k) ==
  \/ Kept(down[k], down'[k])
  \/ \E c \in Cells :
        /\ down'[k] = Append(down[k], c) /\ k # 1 /\ Begun(k)
        /\ \/ c.kind = "relay" /\ k <= hops
           \/ c.kind = "destroy" /\ relay'[k - 1].state = "closed"

(* A step that only drops from link k, or adds reverse cells to it, keeps  *)
(* Making there.                                                           *)
LEMMA MakingCalm ==
  ASSUME CircuitInv, UNCHANGED clientVars, NEW k \in Relays, Moved(k), Calm(k), k # 1 => Prior(k - 1),
         \/ Kept(up[k], up'[k])
         \/ k \in 1..hops /\ \E c \in Cells : c.kind = "relay" /\ up'[k] = Append(up[k], c)
  PROVE  Making(k)'
<1>1. /\ down[k] \in Seq(Cells) /\ Sound(down[k]) /\ Making(k) /\ (down[k] # << >> => Begun(k))
      /\ hops \in Nat
    BY LinkFacts, Ranges DEF CircuitInv
<1>2. hops' = hops /\ registered' = registered
    BY DEF clientVars
<1>3. (Made(k)' => Made(k)) /\ (~Begun(k)' => ~Begun(k))
    BY MadeKept DEF Prior
<1>4. /\ Sound(down'[k]) /\ (Holds(down'[k], "create") => Holds(down[k], "create"))
      /\ Holds(down'[k], "relay") => k <= hops
      /\ Holds(down'[k], "destroy") =>
            IF k = 1 THEN ~registered ELSE relay'[k - 1].state = "closed"
      /\ ~Begun(k) => down'[k] = << >>
    <2>1. CASE Kept(down[k], down'[k])
        <3>1. Sound(down'[k])
            BY <1>1, <2>1, SoundKept
        <3>2. /\ Holds(down'[k], "create") => Holds(down[k], "create")
              /\ Holds(down'[k], "relay") => Holds(down[k], "relay")
              /\ Holds(down'[k], "destroy") => Holds(down[k], "destroy")
            BY <1>1, <2>1, KeptHolds
        <3>3. ~Begun(k) => down'[k] = << >>
            BY <1>1, <2>1, KeptCells
        <3>4. Holds(down'[k], "relay") => k <= hops
            BY <1>1, <3>2 DEF Making
        <3>5. Holds(down[k], "destroy") =>
                 IF k = 1 THEN ~registered ELSE relay[k - 1].state = "closed"
            BY <1>1 DEF Making
        <3> QED BY <3>1, <3>2, <3>3, <3>4, <3>5 DEF Prior
    <2>2. ASSUME NEW c \in Cells, down'[k] = Append(down[k], c), k # 1, Begun(k),
                 \/ c.kind = "relay" /\ k <= hops
                 \/ c.kind = "destroy" /\ relay'[k - 1].state = "closed"
          PROVE  /\ Sound(down'[k]) /\ (Holds(down'[k], "create") => Holds(down[k], "create"))
                 /\ Holds(down'[k], "relay") => k <= hops
                 /\ Holds(down'[k], "destroy") => relay'[k - 1].state = "closed"
        <3>1. Sound(down'[k])
            BY <1>1, <2>2, SoundAppend
        <3>2. /\ Holds(down'[k], "create") <=> Holds(down[k], "create") \/ c.kind = "create"
              /\ Holds(down'[k], "relay") <=> Holds(down[k], "relay") \/ c.kind = "relay"
              /\ Holds(down'[k], "destroy") <=> Holds(down[k], "destroy") \/ c.kind = "destroy"
            BY <1>1, <2>2, HoldsAppend
        <3>3. Holds(down[k], "relay") => k <= hops
            BY <1>1 DEF Making
        <3>4. Holds(down[k], "destroy") => relay[k - 1].state = "closed"
            BY <1>1, <2>2 DEF Making
        <3> QED BY <2>2, <3>1, <3>2, <3>3, <3>4 DEF Prior
    <2> QED BY <2>1, <2>2 DEF Moved
<1>5. relay'[k].state = relay[k].state \/ (relay[k].state # "none" /\ relay'[k].state # "none")
    BY DEF Calm
<1>6. hops' \in Nat /\ hops' >= hops
    BY <1>1, <1>2
<1> QED BY <1>2, <1>3, <1>4, <1>5, <1>6, MakingKept

(* The relays keep it.                                                     *)
LEMMA MakingRelay ==
  ASSUME CircuitInv, RelaySide
  PROVE  \A k \in Relays : Making(k)'
<1>1. UNCHANGED clientVars
    BY Elsewhere DEF RelaySide
<1>2. /\ \A j \in Relays : j \in Nat /\ j >= 1 /\ j <= Hops
      /\ \A j \in Relays : j # 1 => j - 1 \in Relays
      /\ \A j \in 1..hops : j \in Relays
      /\ hops \in Nat /\ Hops \in Nat
    BY Ranges DEF Relays
<1>0. /\ \A i, j \in Relays : j = i + 1 => j # 1 /\ j - 1 = i /\ j # i
      /\ \A i, j \in Relays : j - 1 = i => j = i + 1 /\ j # i
    BY <1>2
<1>3. /\ Control("destroy") \in Cells /\ Control("destroy").kind = "destroy"
      /\ Control("create") \in Cells /\ Control("create").kind = "create"
      /\ Control("created") \in Cells /\ Control("created").kind = "created"
    BY ControlCells
<1>4. \A j \in Relays : Steady(j) => Calm(j) /\ Prior(j)
    BY DEF Steady, Calm, Prior
<1>5. \A j \in Relays : down'[j] = down[j] \/ (down[j] # << >> /\ down'[j] = Tail(down[j])) => Moved(j)
    BY DEF Moved, Kept
<1>6. ASSUME NEW i \in Relays, handleCircuitCreate(i) PROVE \A k \in Relays : Making(k)'
    <2>1. /\ Becomes(i, "open", relay[i].fwdSeq, relay[i].revSeq, relay[i].outgoing,
                     relay[i].relayOut, relay[i].extension)
          /\ down[i] # << >> /\ Head(down[i]).kind = "create"
          /\ \A k \in Relays : down'[k] = IF k = i THEN Tail(down[k]) ELSE down[k]
          /\ \A k \in Relays : up'[k] = IF k = i /\ i \notin cut THEN Append(up[k], Control("created"))
                                                                 ELSE up[k]
          /\ up[i] = << >> /\ relay[i].state = "none" /\ i > hops
        BY <1>6, CreateEffect
    <2>2. ASSUME NEW k \in Relays, k # i PROVE Making(k)'
        <3>1. Calm(k)
            BY <2>1, <2>2 DEF Becomes, Calm
        <3>2. k # 1 => Prior(k - 1)
            BY <1>2, <2>1 DEF Becomes, Prior
        <3>3. Moved(k) /\ Kept(up[k], up'[k])
            BY <1>5, <2>1, <2>2 DEF Kept
        <3> QED BY <1>1, <3>1, <3>2, <3>3, MakingCalm
    <2>3. Making(i)'
        <3>1. down[i] \in Seq(Cells) /\ Making(i) /\ Sound(down[i]) /\ Begun(i)
            BY <2>1, LinkFacts DEF CircuitInv
        <3>0. down'[i] = Tail(down[i])
            BY <2>1
        <3>2. /\ Len(down[i]) \in Nat /\ down'[i] \in Seq(Cells) /\ Len(down'[i]) = Len(down[i]) - 1
              /\ \A m \in 1..Len(down'[i]) : down'[i][m] = down[i][m + 1] /\ m + 1 \in 1..Len(down[i])
            BY <2>1, <3>0, <3>1, LinkTail
        <3>3. ASSUME NEW m \in 1..Len(down'[i])
              PROVE  down'[i][m].kind \in {"relay", "destroy"}
            <4>1. m + 1 # 1
                BY <3>2
            <4> QED BY <3>1, <3>2, <4>1 DEF Sound
        <3>4. /\ ~Holds(down'[i], "create")
              /\ Holds(down'[i], "relay") => Holds(down[i], "relay")
              /\ Holds(down'[i], "destroy") => Holds(down[i], "destroy")
            <4>1. ~Holds(down'[i], "create")
                BY <3>3 DEF Holds
            <4> QED BY <2>1, <3>0, <3>1, <4>1, HoldsTail
        <3>5. /\ ~Holds(down[i], "relay")
            BY <1>2, <2>1, <3>1 DEF Making
        <3>6. Holds(down[i], "destroy") => IF i = 1 THEN ~registered ELSE relay[i - 1].state = "closed"
            BY <3>1 DEF Making
        <3>7. i # 1 => i - 1 \in Relays /\ relay'[i - 1] = relay[i - 1]
            BY <1>2, <2>1 DEF Becomes
        <3>8. Begun(i)'
            BY <1>1, <3>1, <3>7 DEF Begun, clientVars
        <3>9. relay'[i].state = "open"
            BY <2>1 DEF Becomes
        <3>10. /\ Holds(up'[i], "created") => Len(up'[i]) = 1
               /\ ~Holds(up'[i], "relay")
               /\ \A m \in 1..Len(up'[i]) : up'[i][m].kind \in {"created", "relay"}
            <4>1. CASE up'[i] = << >>
                BY <4>1 DEF Holds
            <4>2. CASE up'[i] = Append(<< >>, Control("created"))
                <5>1. << >> \in Seq(Cells) /\ Len(<< >>) = 0
                    OBVIOUS
                <5>2. /\ Len(up'[i]) = 1 /\ up'[i][1] = Control("created")
                    BY <1>3, <4>2
                <5> QED BY <1>3, <5>2 DEF Holds
            <4> QED BY <2>1, <4>1, <4>2
        <3>11. ~Made(i)'
            <4>1. ~Made(i)
                BY <2>1, <3>1 DEF Making
            <4> QED BY <1>1, <3>7, <4>1 DEF Made, clientVars
        <3>12. Holds(down'[i], "destroy") =>
                   IF i = 1 THEN ~registered' ELSE relay'[i - 1].state = "closed"
            BY <1>1, <3>4, <3>6, <3>7 DEF clientVars
        <3> QED BY <3>3, <3>4, <3>5, <3>8, <3>9, <3>10, <3>11, <3>12 DEF Making
    <2> QED BY <2>2, <2>3
<1>7. CASE \E i \in Relays : handleCircuitCreate(i)
    BY <1>6, <1>7
<1> SUFFICES ASSUME ~ \E i \in Relays : handleCircuitCreate(i), NEW k \in Relays
             PROVE  Making(k)'
    BY <1>7
<1>8. \/ Kept(up[k], up'[k])
      \/ k \in 1..hops /\ \E c \in Cells : c.kind = "relay" /\ up'[k] = Append(up[k], c)
    BY UpKinds
<1>9. CASE Quiet
    BY <1>1, <1>2, <1>4, <1>5, <1>8, <1>9, MakingCalm DEF Quiet
<1>10. ASSUME NEW i \in Relays, NEW from, NEW to, Extends(i, from, to),
              \/ from = "waiting" /\ to = "answered" /\ handleCircuitCreated(i)
              \/ from = "answered" /\ to = "linking"
              \/ from = "answered" /\ to = "abandoned"
              \/ from = "waiting" /\ to = "abandoned"
              \/ from = "linking" /\ to = "linked"
       PROVE  Making(k)'
    <2>1. Calm(k) /\ Moved(k)
        <3>1. Moved(k)
            BY <1>5, <1>10 DEF Extends
        <3>2. CASE k = i
            BY <1>10, <3>1, <3>2 DEF Extends, Calm
        <3>3. CASE k # i
            BY <1>4, <1>10, <3>1, <3>3 DEF Extends
        <3> QED BY <3>2, <3>3
    <2>2. CASE k # 1 /\ k - 1 = i /\ from = "waiting" /\ to = "answered"
        <3>1. handleCircuitCreated(i)
            BY <1>10, <2>2
        <3>2. k = i + 1
            BY <1>0, <2>2
        <3>3. up'[k] = << >> /\ relay[k].state # "none" /\ ~Holds(down[k], "create")
            BY <3>1, <3>2, CreatedEffect
        <3>4. /\ down'[k] = down[k] /\ relay'[k].state = relay[k].state
              /\ relay'[k - 1].extension = "answered"
              /\ relay'[k - 1].state = relay[k - 1].state
            BY <1>0, <1>10, <2>2 DEF Extends, Steady
        <3>5. Begun(k)'
            BY <2>2, <3>4 DEF Begun
        <3>6. Making(k) /\ hops' = hops /\ registered' = registered
            BY <1>1 DEF CircuitInv, clientVars
        <3>7. \A m \in 1..Len(down[k]) : down[k][m].kind # "create"
            BY <3>3 DEF Holds
        <3>8. \A kind : ~Holds(up'[k], kind)
            BY <3>3 DEF Holds
        <3>9. \A m \in 1..Len(up'[k]) : up'[k][m].kind \in {"created", "relay"}
            BY <3>3
        <3>10. /\ \A m \in 1..Len(down'[k]) : down'[k][m].kind \in {"create", "relay", "destroy"}
               /\ Holds(down'[k], "relay") => k <= hops'
               /\ Holds(down'[k], "destroy") => relay'[k - 1].state = "closed"
            BY <2>2, <3>4, <3>6 DEF Making
        <3> QED BY <2>2, <3>3, <3>4, <3>5, <3>7, <3>8, <3>9, <3>10 DEF Making
    <2>3. CASE ~(k # 1 /\ k - 1 = i /\ from = "waiting" /\ to = "answered")
        <3>1. k # 1 => Prior(k - 1)
            <4>1. CASE k # 1 /\ k - 1 = i
                BY <1>10, <2>3, <4>1 DEF Extends, Prior
            <4>2. CASE k # 1 /\ k - 1 # i
                BY <1>2, <1>4, <1>10, <4>2 DEF Extends
            <4> QED BY <4>1, <4>2
        <3> QED BY <1>1, <1>8, <2>1, <3>1, MakingCalm
    <2> QED BY <2>2, <2>3
<1>11. ASSUME NEW i \in Relays, Drops(i) PROVE Making(k)'
    <2>1. Calm(k) /\ (k # 1 => Prior(k - 1))
        BY <1>2, <1>4, <1>11 DEF Drops
    <2>2. Moved(k)
        BY <1>5, <1>11 DEF Drops
    <2> QED BY <1>1, <1>8, <2>1, <2>2, MakingCalm
<1>12. ASSUME NEW i \in Relays, NEW ext, CountsOne(i, ext),
              ext = relay[i].extension \/ (ext = "waiting" /\ relay[i].extension = "none")
       PROVE  Calm(k) /\ (k # 1 => Prior(k - 1)) /\ down[i] # << >> /\ i \in 1..hops
    <2>1. \A j \in Relays : Calm(j) /\ Prior(j)
        <3>1. Calm(i) /\ Prior(i)
            BY <1>12 DEF CountsOne, Calm, Prior
        <3>2. \A j \in Relays : j # i => Calm(j) /\ Prior(j)
            BY <1>4, <1>12 DEF CountsOne
        <3> QED BY <3>1, <3>2
    <2>2. down[i] # << >> /\ i \in 1..hops
        BY <1>12, OpenedEffect DEF CountsOne
    <2> QED BY <1>2, <2>1, <2>2
<1>13. ASSUME NEW i \in Relays, Passes(i) PROVE Making(k)'
    <2>1. CountsOne(i, relay[i].extension) /\ i + 1 \in 1..hops /\ i < hops
        BY <1>13 DEF Passes
    <2>2. Calm(k) /\ (k # 1 => Prior(k - 1)) /\ down[i] # << >> /\ i \in 1..hops
        BY <1>12, <2>1
    <2>3. Moved(k)
        <3>1. CASE k = i + 1 /\ k \notin cut
            <4>1. /\ k # 1 /\ k - 1 = i /\ k # i
                BY <1>0, <3>1
            <4>2. Begun(k)
                BY <2>1, <2>2, <4>1, HopsMade DEF Begun
            <4>3. Passed(i) \in Nat
                BY <2>1, OpenedEffect DEF CountsOne
            <4>4. k \in 1..hops /\ k <= hops
                BY <1>2, <2>1, <3>1
            <4>5. ForeCell(k, Passed(i)) \in Cells /\ ForeCell(k, Passed(i)).kind = "relay"
                BY <4>3, <4>4, ForeFields
            <4>6. down'[k] = Append(down[k], ForeCell(k, Passed(i)))
                BY <1>13, <3>1, <4>1 DEF Passes
            <4> QED BY <4>1, <4>2, <4>4, <4>5, <4>6 DEF Moved
        <3>2. CASE ~(k = i + 1 /\ k \notin cut)
            BY <1>5, <1>13, <2>2, <3>2 DEF Passes
        <3> QED BY <3>1, <3>2
    <2> QED BY <1>1, <1>8, <2>2, <2>3, MakingCalm
<1>14. ASSUME NEW i \in Relays, Consumes(i) PROVE Making(k)'
    <2>1. Calm(k) /\ (k # 1 => Prior(k - 1)) /\ down[i] # << >>
        BY <1>12, <1>14 DEF Consumes
    <2>2. Moved(k)
        BY <1>5, <1>14, <2>1 DEF Consumes
    <2> QED BY <1>1, <1>8, <2>1, <2>2, MakingCalm
<1>15. ASSUME NEW i \in Relays, Asks(i) PROVE Making(k)'
    <2>1. CountsOne(i, "waiting") /\ i = hops /\ relay[i].extension = "none"
        BY <1>15 DEF Asks
    <2>2. Calm(k) /\ (k # 1 => Prior(k - 1)) /\ down[i] # << >>
        BY <1>12, <2>1
    <2>3. CASE k = i + 1 /\ k \notin cut
        <3>1. k # 1 /\ k - 1 = i /\ k # i /\ k \notin 1..hops
            BY <1>0, <1>2, <2>1, <2>3
        <3>2. ~Begun(k)
            BY <2>1, <3>1 DEF Begun
        <3>3. down[k] = << >> /\ up[k] = << >> /\ relay[k].state = "none"
            BY <3>2 DEF CircuitInv, Making
        <3>4. up[k] \in Seq(Cells)
            BY LinkFacts
        <3>5. up'[k] = << >>
            BY <1>8, <3>1, <3>3, <3>4, KeptCells
        <3>6. down'[k] = Append(<< >>, Control("create"))
            BY <1>15, <2>3, <3>1, <3>3 DEF Asks
        <3>7. Len(down'[k]) = 1 /\ down'[k][1] = Control("create")
            BY <1>3, <3>6
        <3>8. relay'[k].state = "none" /\ relay'[k - 1].extension = "waiting"
            BY <2>1, <3>1, <3>3 DEF CountsOne, Steady
        <3>9. Begun(k)' /\ ~Made(k)'
            BY <3>1, <3>8 DEF Begun, Made
        <3>10. ~Holds(down'[k], "relay") /\ ~Holds(down'[k], "destroy")
            BY <1>3, <3>7 DEF Holds
        <3>11. ~Holds(up'[k], "relay") /\ ~Holds(up'[k], "created")
            BY <3>5 DEF Holds
        <3>12. \A m \in 1..Len(down'[k]) : m = 1 /\ down'[k][m].kind = "create"
            BY <1>3, <3>7
        <3>13. \A m \in 1..Len(up'[k]) : up'[k][m].kind \in {"created", "relay"}
            BY <3>5
        <3> QED BY <3>5, <3>8, <3>9, <3>10, <3>11, <3>12, <3>13 DEF Making
    <2>4. CASE ~(k = i + 1 /\ k \notin cut)
        <3>1. Moved(k)
            BY <1>5, <1>15, <2>2, <2>4 DEF Asks
        <3> QED BY <1>1, <1>8, <2>2, <3>1, MakingCalm
    <2> QED BY <2>3, <2>4
<1>16. ASSUME NEW i \in Relays, NEW rest, Finishes(i, rest) PROVE Making(k)'
    <2>1. Closes(i, rest) /\ relay[i].state # "none"
        BY <1>16 DEF Finishes
    <2>2. \A j \in Relays : Calm(j) /\ Prior(j)
        BY <2>1 DEF Closes, Becomes, Calm, Prior
    <2>3. Moved(k)
        <3>1. CASE k = i + 1 /\ k \notin cut /\ relay[i].outgoing
            <4>1. k # 1 /\ k - 1 = i
                BY <1>0, <3>1
            <4>2. relay[i].extension # "none"
                BY <3>1 DEF CircuitInv, Grown
            <4>3. Begun(k) /\ relay'[k - 1].state = "closed"
                BY <2>1, <4>1, <4>2 DEF Begun, Closes, Becomes
            <4>4. down'[k] = Append(down[k], Control("destroy"))
                BY <2>1, <3>1 DEF Closes
            <4> QED BY <1>3, <4>1, <4>3, <4>4 DEF Moved
        <3>2. CASE ~(k = i + 1 /\ k \notin cut /\ relay[i].outgoing)
            <4>1. down'[k] = IF k = i THEN rest ELSE down[k]
                BY <2>1, <3>2 DEF Closes
            <4> QED BY <1>5, <1>16, <4>1 DEF Finishes
        <3> QED BY <3>1, <3>2
    <2> QED BY <1>1, <1>2, <1>8, <2>2, <2>3, MakingCalm
<1>17. ASSUME NEW i \in Relays, Cuts(i) PROVE Making(k)'
    <2>1. Calm(k) /\ (k # 1 => Prior(k - 1))
        BY <1>2, <1>17 DEF Cuts, Calm, Prior
    <2>2. Moved(k)
        BY <1>17 DEF Cuts, Moved, Kept
    <2> QED BY <1>1, <1>8, <2>1, <2>2, MakingCalm
<1>18. ASSUME NEW i \in Relays, Kind(i) PROVE Making(k)'
    BY <1>10, <1>11, <1>13, <1>14, <1>15, <1>16, <1>17, <1>18 DEF Kind, Creates
<1> QED BY <1>9, <1>18, RelayKinds

-----------------------------------------------------------------------------
(* The steps of the client, by what they do to its link.                   *)

ClientSide ==
  \/ buildCircuit \/ waitAnswered \/ waitFails \/ Write \/ Read \/ Close \/ closeCircuits
  \/ handleCreated \/ handleReverse

(* c is written to link 1, if that is there.                               *)
Tells(c) == down'[1] = IF 1 \in cut THEN down[1] ELSE Append(down[1], c)

Listens == down'[1] = down[1] /\ registered' = registered
Leaves == registered /\ ~registered' /\ Tells(Control("destroy"))
Stays == hops' = hops /\ written' = written /\ Total' = Total /\ pc # "new" /\ pc' # "new"

(* What the client writes has the next number.                             *)
LEMMA WrappedCell ==
  ASSUME CircuitInv, NEW h \in 1..Hops, NEW cmd, NEW n, NEW q \in Nat, hops' = h,
         \A j \in 1..h : sendSeq[j] = q + h - j,
         cmd = ForeCmd(q)', n = IF cmd = "data" THEN q ELSE 0
  PROVE  Wrapped(h, cmd, n) = ForeCell(1, q)'
<1>1. h \in Nat /\ h - 1 + 1 = h
    BY Ranges
<1>2. [j \in 1..h |-> sendSeq[j]] = Onion(q, h)
    BY DEF Onion
<1>3. ForeCell(1, q)' = Relay(Onion(q, h - 1 + 1), ForeCmd(q)', IF ForeCmd(q)' = "data" THEN q ELSE 0)
    BY DEF ForeCell, Relay, Onion
<1> QED BY <1>1, <1>2, <1>3 DEF Wrapped

(* The client touches nothing but its own state and the first link.        *)
LEMMA ClientEffects ==
  ASSUME CircuitInv, ClientSide
  PROVE  /\ relay' = relay /\ sending' = sending /\ cut' = cut /\ UNCHANGED exitVars
         /\ \A k \in Relays : k # 1 => down'[k] = down[k] /\ up'[k] = up[k]
<1>1. /\ CircuitTypeOK /\ 1 \in Relays /\ down \in Links /\ up \in Links
      /\ Control("create") \in Cells /\ Control("destroy") \in Cells
    BY ClientTypes DEF CircuitInv
<1>2. relay' = relay /\ sending' = sending /\ cut' = cut /\ UNCHANGED exitVars
    BY DEF ClientSide, buildCircuit, waitAnswered, waitFails, WaitReturns, Write, Read, Close,
           closeCircuits, handleCreated, handleReverse
<1>3. \A k \in Relays : k # 1 => up'[k] = up[k]
    <2>1. CASE up' = up
        BY <2>1
    <2>2. CASE up' = Taken(up, 1)
        BY <1>1, <2>2, TakenAt
    <2> QED BY <2>1, <2>2 DEF ClientSide, buildCircuit, waitAnswered, waitFails, WaitReturns,
               Write,
                              Read, Close, closeCircuits, handleCreated, handleReverse
<1>4. ASSUME NEW k \in Relays, k # 1 PROVE down'[k] = down[k]
    <2>1. CASE down' = down
        BY <2>1
    <2>2. ASSUME NEW c, down' = Sent(down, 1, c) PROVE down'[k] = down[k]
        BY <1>1, <1>4, <2>2, SentAt
    <2>3. CASE Close
        <3>1. hops \in 0..Hops /\ "close" \in Commands
            BY <1>1 DEF CircuitTypeOK, Commands
        <3>2. Wrapped(hops, "close", 0) \in Cells
            BY <1>1, <3>1, ClientTypes
        <3>3. Sent(down, 1, Wrapped(hops, "close", 0)) \in Links
            BY <1>1, <3>2, SentType
        <3>4. down'[k] = Sent(down, 1, Wrapped(hops, "close", 0))[k]
            BY <1>1, <1>4, <2>3, <3>3, SentAt DEF Close, closeLocal
        <3> QED BY <1>1, <1>4, <3>4, SentAt
    <2> QED BY <2>1, <2>2, <2>3
            DEF ClientSide, buildCircuit, waitAnswered, waitFails, WaitReturns, Write, Read,
                closeCircuits, closeLocal, handleCreated, handleReverse
<1> QED BY <1>2, <1>3, <1>4

(* What each action of the client puts on the first link.                  *)
LEMMA ClientKinds ==
  ASSUME CircuitInv, ClientSide
  PROVE  \/ buildCircuit /\ Tells(Control("create"))
         \/ waitAnswered /\ pc # "openOK" /\ Tells(ForeCell(1, 0)')
         \/ Write /\ Tells(ForeCell(1, written)')
         \/ Close /\ down'[1] = IF 1 \in cut THEN down[1]
                                ELSE Append(Append(down[1], ForeCell(1, written + 1)'), Control("destroy"))
         \/ Leaves /\ Stays
         \/ Listens /\ Stays
<1>1. /\ CircuitTypeOK /\ 1 \in Relays /\ down \in Links /\ up \in Links
      /\ Control("create") \in Cells /\ Control("destroy") \in Cells
    BY ClientTypes DEF CircuitInv
<1>2. /\ hops \in Nat /\ Hops \in Nat /\ hops <= Hops /\ Hops >= 1 /\ written \in Nat /\ Stage
      /\ \A j \in Relays : j \in Nat /\ j >= 1 /\ j <= Hops
      /\ Numbers /\ \A j \in 1..Hops : j \in Relays
    BY Ranges DEF CircuitInv, Relays
<1>3. ASSUME NEW c, down' = Sent(down, 1, c) PROVE Tells(c)
    BY <1>1, <1>3, SentAt DEF Tells
<1>4. ASSUME UNCHANGED <<hops, written>>, pc' = pc \/ "closed" \notin {pc, pc'}
      PROVE  Total' = Total
    BY <1>4 DEF Total
<1>5. CASE buildCircuit
    BY <1>3, <1>5 DEF buildCircuit
<1>6. CASE waitAnswered
    <2>1. CASE pc = "openOK"
        <3>1. /\ UNCHANGED <<hops, written, registered, down>> /\ pc' \in {"stream", "stopped"}
            BY <1>6, <2>1, AnswerTaken DEF waitAnswered
        <3>2. Total' = Total
            BY <1>4, <2>1, <3>1
        <3> QED BY <2>1, <3>1, <3>2 DEF Listens, Stays
    <2>2. CASE pc # "openOK"
        <3>1. /\ hops < Hops /\ hops' = hops + 1 /\ hops + 1 \in 1..Hops
              /\ down' = Sent(down, 1, Wrapped(hops + 1,
                                   IF hops + 1 < Hops THEN "extend" ELSE "open", 0))
              /\ Total = (IF hops = 0 THEN 0 ELSE 1)
            BY <1>6, <2>2, AnswerTaken, HopAdded DEF Relays
        <3>2. ASSUME NEW j \in 1..(hops + 1) PROVE sendSeq[j] = 0 + (hops + 1) - j
            <4>1. j \in Relays
                BY <1>2, <3>1 DEF Relays
            <4>2. sendSeq[j] = IF j <= hops THEN Total + hops - j ELSE 0
                BY <1>2, <4>1 DEF Numbers
            <4>3. CASE j <= hops
                <5>1. hops # 0
                    BY <1>2, <4>1, <4>3
                <5> QED BY <1>2, <3>1, <4>1, <4>2, <4>3, <5>1
            <4>4. CASE j = hops + 1
                BY <1>2, <4>2, <4>4
            <4> QED BY <1>2, <4>1, <4>3, <4>4
        <3>3. ForeCmd(0)' = IF hops + 1 < Hops THEN "extend" ELSE "open"
            BY <3>1 DEF ForeCmd
        <3>4. Wrapped(hops + 1, IF hops + 1 < Hops THEN "extend" ELSE "open", 0) = ForeCell(1, 0)'
            <4> DEFINE cmd == IF hops + 1 < Hops THEN "extend" ELSE "open"
            <4>1. cmd # "data" /\ cmd = ForeCmd(0)'
                BY <3>3
            <4> HIDE DEF cmd
            <4>2. Wrapped(hops + 1, cmd, 0) = ForeCell(1, 0)'
                BY <3>1, <3>2, <4>1, WrappedCell
            <4> QED BY <4>2 DEF cmd
        <3>5. Tells(ForeCell(1, 0)')
            BY <1>3, <3>1, <3>4
        <3> QED BY <1>6, <2>2, <3>5
    <2> QED BY <2>1, <2>2
<1>7. ASSUME pc = "stream", hops' = hops
      PROVE  /\ hops \in 1..Hops /\ hops = Hops /\ registered
             /\ \A j \in 1..hops : sendSeq[j] = (written + 1) + hops - j
    <2>1. hops = Hops /\ hops \in 1..Hops /\ registered
        BY <1>2, <1>7 DEF Stage
    <2>2. Total = written + 1
        BY <1>2, <1>7, <2>1 DEF Total
    <2>3. ASSUME NEW j \in 1..hops PROVE sendSeq[j] = (written + 1) + hops - j
        <3>1. j \in Relays /\ j <= hops
            BY <1>2, <2>1
        <3> QED BY <1>2, <2>2, <3>1 DEF Numbers
    <2> QED BY <2>1, <2>3
<1>8. CASE Write
    <2>1. /\ pc = "stream" /\ hops' = hops /\ written' = written + 1
          /\ down' = Sent(down, 1, Wrapped(hops, "data", written + 1))
        BY <1>8 DEF Write
    <2>2. written' \in Nat /\ written' = written + 1 /\ hops' = Hops /\ written' # 0
        BY <1>2, <1>7, <2>1
    <2>3. ForeCmd(written)' = "data"
        <3>1. ~(hops' < Hops) /\ written' <= written'
            BY <1>2, <2>2
        <3> QED BY <2>2, <3>1 DEF ForeCmd
    <2>4. Wrapped(hops, "data", written + 1) = ForeCell(1, written)'
        <3> DEFINE q == written + 1
        <3>1. q \in Nat /\ \A j \in 1..hops : sendSeq[j] = q + hops - j
            BY <1>2, <1>7, <2>1
        <3>2. [j \in 1..hops |-> sendSeq[j]] = Onion(q, hops) /\ hops - 1 + 1 = hops
            BY <1>2, <3>1 DEF Onion
        <3>3. ForeCell(1, written)' = Relay(Onion(q, hops - 1 + 1), "data", q)
            BY <2>1, <2>3 DEF ForeCell, Relay, Onion
        <3> QED BY <3>2, <3>3 DEF Wrapped
    <2> QED BY <1>3, <1>8, <2>1, <2>4
<1>9. CASE Close
    <2>1. /\ pc = "stream" /\ hops' = hops /\ written' = written /\ registered
          /\ down' = Sent(Sent(down, 1, Wrapped(hops, "close", 0)), 1, Control("destroy"))
        BY <1>2, <1>9 DEF Close, closeLocal, Stage
    <2>2. ForeCmd(written + 1)' = "close"
        <3>1. hops' = Hops /\ ~(Hops < Hops) /\ written + 1 # 0 /\ ~(written + 1 <= written)
            BY <1>2, <1>7, <2>1
        <3> QED BY <2>1, <3>1 DEF ForeCmd
    <2>3. Wrapped(hops, "close", 0) = ForeCell(1, written + 1)'
        <3> DEFINE q == written + 1
        <3>1. q \in Nat /\ q' = q /\ \A j \in 1..hops : sendSeq[j] = q + hops - j
            BY <1>2, <1>7, <2>1
        <3>2. hops \in 1..Hops /\ hops' = hops /\ "close" = ForeCmd(written + 1)'
            BY <1>7, <2>1, <2>2
        <3>3. [j \in 1..hops |-> sendSeq[j]] = Onion(q, hops) /\ hops - 1 + 1 = hops
            BY <1>2, <3>1 DEF Onion
        <3>4. ForeCell(1, written + 1)' = Relay(Onion(q, hops - 1 + 1), "close", 0)
            BY <2>1, <2>2 DEF ForeCell, Relay, Onion
        <3> QED BY <3>3, <3>4 DEF Wrapped
    <2>4. Wrapped(hops, "close", 0) \in Cells
        <3>1. hops \in 0..Hops /\ "close" \in Commands
            BY <1>1 DEF CircuitTypeOK, Commands
        <3> QED BY <1>1, <3>1, ClientTypes
    <2>5. Sent(down, 1, Wrapped(hops, "close", 0)) \in Links
        BY <1>1, <2>4, SentType
    <2>6. down'[1] = IF 1 \in cut THEN down[1]
                     ELSE Append(Append(down[1], Wrapped(hops, "close", 0)), Control("destroy"))
        BY <1>1, <2>1, <2>5, SentAt
    <2> QED BY <1>9, <2>3, <2>6
<1>10. CASE waitFails
    <2>1. /\ UNCHANGED <<hops, written>> /\ pc \in {"created", "extended", "openOK"} /\ pc' = "failed"
          /\ down' = closeLocal(down, TRUE) /\ registered' = FALSE
        BY <1>10 DEF waitFails, WaitReturns, Waiting
    <2>2. Stays
        BY <1>4, <2>1 DEF Stays
    <2>3. CASE registered
        <3>1. Tells(Control("destroy"))
            BY <1>3, <2>1, <2>3 DEF closeLocal
        <3> QED BY <2>1, <2>2, <2>3, <3>1 DEF Leaves
    <2>4. CASE ~registered
        <3>1. registered \in BOOLEAN
            BY <1>1 DEF CircuitTypeOK
        <3>2. Listens
            BY <2>1, <2>4, <3>1 DEF closeLocal, Listens
        <3> QED BY <2>2, <3>2
    <2> QED BY <2>3, <2>4
<1>11. CASE closeCircuits
    <2>1. /\ UNCHANGED <<hops, written>> /\ pc \in {"created", "extended", "openOK", "stream"}
          /\ pc' = (IF pc = "stream" THEN "stopped" ELSE pc) /\ registered
          /\ down' = Sent(down, 1, Control("destroy")) /\ registered' = FALSE
        BY <1>2, <1>11 DEF closeCircuits, closeLocal, Stage
    <2>2. Stays
        BY <1>4, <2>1 DEF Stays
    <2>3. Leaves
        BY <1>3, <2>1 DEF Leaves
    <2> QED BY <2>2, <2>3
<1>12. CASE Read \/ handleCreated \/ handleReverse
    <2>1. /\ UNCHANGED <<hops, written, pc, down>>
        BY <1>12 DEF Read, handleCreated, handleReverse
    <2>2. registered' = registered
        BY <1>12, ReverseHead DEF Read, handleCreated, handleReverse
    <2>3. pc # "new"
        <3>1. CASE Read
            BY <3>1 DEF Read
        <3>2. CASE handleCreated \/ handleReverse
            <4>1. up[1] # << >>
                BY <3>2 DEF handleCreated, handleReverse
            <4> QED BY <1>1, <4>1, NothingYet
        <3> QED BY <1>12, <3>1, <3>2
    <2>4. Total' = Total
        BY <1>4, <2>1
    <2> QED BY <2>1, <2>2, <2>3, <2>4 DEF Listens, Stays
<1> QED BY <1>5, <1>6, <1>8, <1>9, <1>10, <1>11, <1>12 DEF ClientSide

(* The client keeps it.                                                    *)
LEMMA MakingClient ==
  ASSUME CircuitInv, ClientSide
  PROVE  \A k \in Relays : Making(k)'
<1>1. /\ relay' = relay /\ \A k \in Relays : k # 1 => down'[k] = down[k] /\ up'[k] = up[k]
    BY ClientEffects
<1>2. /\ hops \in Nat /\ Hops \in Nat /\ Hops >= 1 /\ 1 \in Relays /\ CircuitTypeOK /\ Stage
      /\ down[1] \in Seq(Cells) /\ up[1] \in Seq(Cells) /\ Sound(down[1]) /\ Making(1)
      /\ up \in Links
    BY Ranges, LinkFacts DEF CircuitInv, CircuitTypeOK, Links
<1>3. /\ Control("destroy") \in Cells /\ Control("destroy").kind = "destroy"
      /\ Control("create") \in Cells /\ Control("create").kind = "create"
    BY ControlCells
<1>4. hops' \in Nat /\ hops' >= hops
    <2>1. CASE hops' = hops
        BY <1>2, <2>1
    <2>2. CASE waitAnswered /\ pc # "openOK"
        <3>1. hops' = hops + 1
            BY <2>2, AnswerTaken
        <3> QED BY <1>2, <3>1
    <2>3. hops' = hops \/ (waitAnswered /\ pc # "openOK")
        <3>1. CASE waitAnswered
            BY <3>1, AnswerTaken
        <3> QED BY <3>1 DEF ClientSide, buildCircuit, waitFails, WaitReturns, Write, Read, Close,
                         closeCircuits, handleCreated, handleReverse
    <2> QED BY <2>1, <2>2, <2>3
<1>5. ASSUME NEW k \in Relays, k # 1 PROVE Making(k)'
    <2>1. /\ down'[k] = down[k] /\ up'[k] = up[k] /\ Making(k) /\ Sound(down[k])
        BY <1>1, <1>5, LinkFacts DEF CircuitInv
    <2>2. (Made(k)' <=> Made(k)) /\ (Begun(k)' <=> Begun(k))
        BY <1>1, <1>5 DEF Made, Begun
    <2>3. Kept(up[k], up'[k])
        BY <2>1 DEF Kept
    <2>4. Holds(down[k], "relay") => k <= hops'
        <3>1. Holds(down[k], "relay") => k <= hops
            BY <2>1 DEF Making
        <3>2. k \in Nat
            BY Ranges
        <3> QED BY <1>2, <1>4, <3>1, <3>2
    <2>5. Holds(down[k], "destroy") => relay[k - 1].state = "closed"
        BY <1>5, <2>1 DEF Making
    <2>6. ~Begun(k) => down[k] = << >>
        BY LinkFacts
    <2> QED BY <1>1, <1>4, <1>5, <2>1, <2>2, <2>3, <2>4, <2>5, <2>6, MakingKept
<1>6. CASE buildCircuit
    <2>1. down[1] = << >> /\ up[1] = << >> /\ relay[1].state = "none" /\ responses = << >> /\ hops = 0
        BY <1>2, <1>6, NothingYet DEF buildCircuit, Stage
    <2>2. up' = up /\ pc' = "created" /\ responses' = << >> /\ hops' = 0
        BY <1>6, <2>1 DEF buildCircuit
    <2>3. Tells(Control("create"))
        <3>1. down \in Links /\ down' = Sent(down, 1, Control("create"))
            BY <1>2, <1>6 DEF buildCircuit, CircuitTypeOK, Links
        <3> QED BY <1>2, <3>1, SentAt DEF Tells
    <2>4. down'[1] = << >> \/ down'[1] = Append(<< >>, Control("create"))
        BY <2>1, <2>3 DEF Tells
    <2>5. \A m \in 1..Len(down'[1]) : m = 1 /\ down'[1][m].kind = "create"
        <3>1. CASE down'[1] = << >>
            BY <3>1
        <3>2. CASE down'[1] = Append(<< >>, Control("create"))
            <4>1. Len(down'[1]) = 1 /\ down'[1][1] = Control("create")
                BY <1>3, <3>2
            <4> QED BY <1>3, <4>1
        <3> QED BY <2>4, <3>1, <3>2
    <2>6. ~Holds(down'[1], "relay") /\ ~Holds(down'[1], "destroy")
        BY <2>5 DEF Holds
    <2>7. up'[1] = << >> /\ ~Holds(up'[1], "relay") /\ ~Holds(up'[1], "created")
          /\ \A m \in 1..Len(up'[1]) : up'[1][m].kind \in {"created", "relay"}
        BY <2>1, <2>2 DEF Holds
    <2>8. Begun(1)' /\ ~Made(1)' /\ relay'[1].state = "none"
        BY <1>1, <2>1, <2>2 DEF Begun, Made
    <2>9. Making(1)'
        BY <2>5, <2>6, <2>7, <2>8 DEF Making
    <2> QED BY <1>5, <2>9
<1>7. (pc' # "new" /\ pc # "new") \/ buildCircuit
    <2>1. Write \/ Close \/ (waitAnswered /\ pc # "openOK") => pc' # "new" /\ pc # "new"
        <3>1. waitAnswered /\ pc # "openOK" => pc' \in {"extended", "openOK"} /\ pc \in {"created", "extended"}
            BY AnswerTaken
        <3> QED BY <3>1 DEF Write, Close
    <2> QED BY <2>1, ClientKinds DEF Stays
<1>8. CASE handleCreated
    <2>1. /\ up[1] # << >> /\ Head(up[1]).kind = "created" /\ up' = Taken(up, 1)
          /\ UNCHANGED <<pc, hops, registered, down>>
        BY <1>8 DEF handleCreated
    <2>2. Holds(up[1], "created")
        BY <1>2, <2>1, HoldsTail
    <2>3. Len(up[1]) = 1 /\ ~Holds(down[1], "create") /\ relay[1].state # "none"
        BY <1>2, <2>2 DEF Making
    <2>4. up'[1] = << >>
        <3>1. up'[1] = Tail(up[1])
            BY <1>2, <2>1, TakenAt
        <3> QED BY <1>2, <2>3, <3>1, LinkLast
    <2>5. \A m \in 1..Len(down[1]) : down[1][m].kind # "create"
        BY <2>3 DEF Holds
    <2>6. ~Holds(up'[1], "relay") /\ ~Holds(up'[1], "created")
          /\ \A m \in 1..Len(up'[1]) : up'[1][m].kind \in {"created", "relay"}
        BY <2>4 DEF Holds
    <2>7. /\ \A m \in 1..Len(down[1]) : down[1][m].kind \in {"create", "relay", "destroy"}
          /\ Holds(down[1], "relay") => 1 <= hops
          /\ Holds(down[1], "destroy") => ~registered
        BY <1>2 DEF Making
    <2>8. Begun(1)'
        BY <1>7, <1>8 DEF Begun, handleCreated, buildCircuit
    <2>9. Making(1)'
        BY <1>1, <2>1, <2>3, <2>4, <2>5, <2>6, <2>7, <2>8 DEF Making
    <2> QED BY <1>5, <2>9
<1>9. ASSUME ~buildCircuit, ~handleCreated PROVE Making(1)'
    <2>1. Begun(1)'
        BY <1>7, <1>9 DEF Begun
    <2>2. Kept(up[1], up'[1])
        <3>1. up' = up \/ (up[1] # << >> /\ up' = Taken(up, 1))
            BY <1>9 DEF ClientSide, waitAnswered, waitFails, WaitReturns, Write, Read, Close,
                        closeCircuits, handleReverse
        <3> QED BY <1>2, <3>1, TakenAt DEF Kept
    <2>3. Made(1)' => Made(1)
        <3>1. hops >= 1 \/ responses # << >> => Made(1)
            BY DEF Made
        <3>2. CASE waitAnswered
            BY <3>1, <3>2 DEF waitAnswered
        <3>3. CASE Write \/ Close
            BY <1>2, <3>1, <3>3 DEF Write, Close, Stage
        <3>4. CASE waitFails \/ Read \/ closeCircuits
            BY <3>1, <3>4 DEF waitFails, WaitReturns, Read, closeCircuits, Made
        <3>5. CASE handleReverse
            <4>1. up[1] # << >> /\ Head(up[1]).kind = "relay"
                BY <3>5 DEF handleReverse
            <4>2. Holds(up[1], "relay")
                BY <1>2, <4>1, HoldsTail
            <4>3. 1 <= hops
                BY <1>2, <4>2 DEF Making
            <4> QED BY <1>2, <3>1, <4>3
        <3> QED BY <1>9, <3>2, <3>3, <3>4, <3>5 DEF ClientSide
    <2>4. ASSUME Sound(down'[1]), Holds(down'[1], "create") => Holds(down[1], "create"),
                 Holds(down'[1], "relay") => 1 <= hops', Holds(down'[1], "destroy") => ~registered'
          PROVE  Making(1)'
        BY <1>1, <1>2, <1>4, <2>1, <2>2, <2>3, <2>4, MakingKept
    <2>5. /\ Holds(down[1], "relay") => 1 <= hops
          /\ Holds(down[1], "destroy") => ~registered
        BY <1>2 DEF Making
    <2>6. ASSUME NEW c \in Cells, Tells(c), c.kind = "relay", 1 <= hops', registered' = registered
          PROVE  Making(1)'
        <3>1. CASE 1 \in cut
            BY <1>2, <2>4, <2>5, <2>6, <3>1 DEF Tells
        <3>2. CASE 1 \notin cut
            <4>1. down'[1] = Append(down[1], c)
                BY <2>6, <3>2 DEF Tells
            <4>2. Sound(down'[1])
                BY <1>2, <2>6, <4>1, SoundAppend
            <4>3. /\ Holds(down'[1], "create") <=> Holds(down[1], "create") \/ c.kind = "create"
                  /\ Holds(down'[1], "destroy") <=> Holds(down[1], "destroy") \/ c.kind = "destroy"
                BY <1>2, <4>1, HoldsAppend
            <4> QED BY <2>4, <2>5, <2>6, <4>2, <4>3
        <3> QED BY <3>1, <3>2
    <2>7. ASSUME NEW q \in Nat, hops' \in 1..Hops
          PROVE  ForeCell(1, q)' \in Cells /\ ForeCell(1, q)'.kind = "relay"
        <3> DEFINE h == hops'
        <3>0. h \in Nat
            BY <1>4
        <3> HIDE DEF h
        <3>9. h - 1 + 1 \in Nat
            BY <3>0
        <3>1. hops' - 1 + 1 \in Nat
            BY <3>9 DEF h
        <3>2. Onion(q, hops' - 1 + 1) \in Seq(Nat)
            BY <3>1, OnionSeq
        <3>3. ForeCmd(q)' \in Commands
            BY DEF ForeCmd, Commands
        <3>4. (IF ForeCmd(q)' = "data" THEN q ELSE 0) \in Nat
            OBVIOUS
        <3>5. ForeCell(1, q)' = Relay(Onion(q, hops' - 1 + 1), ForeCmd(q)', IF ForeCmd(q)' = "data" THEN q ELSE 0)
            BY DEF ForeCell, Relay, Onion
        <3> QED BY <3>2, <3>3, <3>4, <3>5, MadeCells
    <2>8. CASE waitAnswered /\ pc # "openOK" /\ Tells(ForeCell(1, 0)')
        <3>1. hops' = hops + 1 /\ hops + 1 \in Relays /\ registered' = registered
            BY <2>8, HopAdded
        <3>2. hops' \in 1..Hops /\ 1 <= hops'
            BY <1>2, <3>1 DEF Relays
        <3> QED BY <2>6, <2>7, <2>8, <3>1, <3>2
    <2>9. ASSUME pc = "stream", hops' = hops PROVE hops' \in 1..Hops /\ 1 <= hops' /\ registered
        BY <1>2, <2>9 DEF Stage
    <2>10. CASE Write /\ Tells(ForeCell(1, written)')
        <3>1. pc = "stream" /\ hops' = hops /\ registered' = registered /\ written' = written + 1
            BY <2>10 DEF Write
        <3>2. written' \in Nat
            BY <3>1, Ranges
        <3>3. ForeCell(1, written)' \in Cells /\ ForeCell(1, written)'.kind = "relay"
            BY <2>7, <2>9, <3>1, <3>2
        <3> QED BY <2>6, <2>9, <2>10, <3>1, <3>3
    <2>11. CASE Close /\ down'[1] = IF 1 \in cut THEN down[1]
                          ELSE Append(Append(down[1], ForeCell(1, written + 1)'), Control("destroy"))
        <3>1. pc = "stream" /\ hops' = hops /\ ~registered' /\ written' = written
            BY <2>11 DEF Close
        <3>2. written + 1 \in Nat
            BY Ranges
        <3>3. ForeCell(1, written + 1)' \in Cells /\ ForeCell(1, written + 1)'.kind = "relay"
            BY <2>7, <2>9, <3>1, <3>2
        <3>4. CASE 1 \in cut
            BY <1>2, <2>4, <2>5, <2>9, <2>11, <3>1, <3>4
        <3>5. CASE 1 \notin cut
            <4> DEFINE c == ForeCell(1, written + 1)'
                       s == Append(down[1], c)
            <4>1. s \in Seq(Cells) /\ down'[1] = Append(s, Control("destroy"))
                BY <1>2, <2>11, <3>3, <3>5, LinkAppend
            <4>2. Sound(s)
                BY <1>2, <3>3, SoundAppend
            <4>3. Holds(s, "create") <=> Holds(down[1], "create") \/ c.kind = "create"
                BY <1>2, <3>3, HoldsAppend
            <4>4. c.kind = "relay"
                BY <3>3
            <4> HIDE DEF s, c
            <4>5. Sound(down'[1])
                BY <1>3, <4>1, <4>2, SoundAppend
            <4>6. Holds(down'[1], "create") <=> Holds(s, "create") \/ Control("destroy").kind = "create"
                BY <1>3, <4>1, HoldsAppend
            <4>7. Holds(down'[1], "create") => Holds(down[1], "create")
                BY <1>3, <4>3, <4>4, <4>6
            <4> QED BY <2>4, <2>9, <3>1, <4>5, <4>7
        <3> QED BY <3>4, <3>5
    <2>12. CASE Leaves /\ Stays
        <3>1. CASE 1 \in cut
            BY <1>2, <2>4, <2>5, <2>12, <3>1 DEF Leaves, Stays, Tells
        <3>2. CASE 1 \notin cut
            <4>1. down'[1] = Append(down[1], Control("destroy")) /\ ~registered' /\ hops' = hops
                BY <2>12, <3>2 DEF Tells, Leaves, Stays
            <4>2. Sound(down'[1])
                BY <1>2, <1>3, <4>1, SoundAppend
            <4>3. /\ Holds(down'[1], "create") <=> Holds(down[1], "create") \/ Control("destroy").kind = "create"
                  /\ Holds(down'[1], "relay") <=> Holds(down[1], "relay") \/ Control("destroy").kind = "relay"
                BY <1>2, <1>3, <4>1, HoldsAppend
            <4> QED BY <1>3, <2>4, <2>5, <4>1, <4>2, <4>3
        <3> QED BY <3>1, <3>2
    <2>13. CASE Listens /\ Stays
        BY <1>2, <2>4, <2>5, <2>13 DEF Listens, Stays
    <2> QED BY <1>9, <2>8, <2>10, <2>11, <2>12, <2>13, ClientKinds
<1> QED BY <1>5, <1>6, <1>8, <1>9

(* The two kinds of steps.                                                 *)
LEMMA Sides ==
  ASSUME CircuitNext
  PROVE  ClientSide \/ RelaySide
BY DEF CircuitNext, ClientReader, Pump, ClientSide, RelaySide

-----------------------------------------------------------------------------
(* Forward cells.                                                          *)

(* Without a new hop or a write the expected forward cells stay the same.  *)
LEMMA ForeSame ==
  ASSUME hops' = hops, written' = written, NEW k
  PROVE  Fore(k)' = Fore(k)
BY DEF Fore, ForeCell, ForeCmd

(* A link on which nothing happens.                                        *)
LEMMA ForwardSame ==
  ASSUME CircuitInv, NEW k \in 1..hops, hops' = hops, written' = written,
         Passed(k)' = Passed(k), Passed(k - 1)' = Passed(k - 1), down'[k] = down[k],
         relay'[k].state = "open" => relay[k].state = "open",
         k \in cut => k \in cut', Upstream(k)' => Upstream(k)
  PROVE  Forward(k)'
<1>1. Forward(k) /\ Fore(k)' = Fore(k)
    BY ForeSame DEF CircuitInv
<1> SUFFICES ASSUME relay'[k].state = "open"
             PROVE  /\ Run(down'[k], Passed(k)', Passed(k - 1)', Fore(k)')
                    /\ k \notin cut' /\ Upstream(k)' => Passed(k)' + Len(down'[k]) = Passed(k - 1)'
                    /\ written' > 0 => Drained(down'[k], Passed(k)', written')
    BY DEF Forward
<1>2. /\ Run(down[k], Passed(k), Passed(k - 1), Fore(k))
      /\ k \notin cut /\ Upstream(k) => Passed(k) + Len(down[k]) = Passed(k - 1)
      /\ written > 0 => Drained(down[k], Passed(k), written)
    BY <1>1 DEF Forward
<1> QED BY <1>1, <1>2

(* What the invariant says about an open hop's link.                       *)
LEMMA ForwardFacts ==
  ASSUME CircuitInv, NEW k \in 1..hops
  PROVE  /\ k \in Relays /\ k \in 0..hops /\ k - 1 \in 0..hops /\ down[k] \in Seq(Cells)
         /\ Len(down[k]) \in Nat /\ Passed(k) \in Nat /\ Passed(k - 1) \in Nat /\ written \in Nat
         /\ relay[k].state = "open" =>
              /\ Run(down[k], Passed(k), Passed(k - 1), Fore(k))
              /\ k \notin cut /\ Upstream(k) => Passed(k) + Len(down[k]) = Passed(k - 1)
              /\ written > 0 => Drained(down[k], Passed(k), written)
<1>1. k \in Relays /\ k \in 0..hops /\ k - 1 \in 0..hops /\ written \in Nat
    BY Ranges
<1>2. down[k] \in Seq(Cells) /\ Len(down[k]) \in Nat
    BY <1>1, LinkFacts
<1>3. Passed(k) \in Nat /\ Passed(k - 1) \in Nat
    BY <1>1, Positions
<1> QED BY <1>1, <1>2, <1>3 DEF CircuitInv, Forward

(* Relay i has counted a cell.                                             *)
LEMMA ForwardTaken ==
  ASSUME CircuitInv, NEW i \in Relays, LayerOpens(i), hops' = hops, written' = written, cut' = cut,
         Passed(i)' = Passed(i) + 1, Passed(i - 1)' = Passed(i - 1), down'[i] = Tail(down[i]),
         Upstream(i)' => Upstream(i)
  PROVE  Forward(i)'
<1>1. /\ down[i] # << >> /\ Head(down[i]).kind = "relay" /\ relay[i].state = "open" /\ i \in 1..hops
      /\ Run(Tail(down[i]), Passed(i) + 1, Passed(i - 1), Fore(i))
    BY OpenedEffect
<1>2. /\ down[i] \in Seq(Cells) /\ Len(down[i]) \in Nat /\ Passed(i) \in Nat /\ Passed(i - 1) \in Nat
      /\ written \in Nat
      /\ i \notin cut /\ Upstream(i) => Passed(i) + Len(down[i]) = Passed(i - 1)
      /\ written > 0 => Drained(down[i], Passed(i), written)
    BY <1>1, ForwardFacts
<1>3. Fore(i)' = Fore(i)
    BY ForeSame
<1>4. Len(down'[i]) = Len(down[i]) - 1
    BY <1>1, <1>2, LinkTail
<1>5. written > 0 => Drained(Tail(down[i]), Passed(i) + 1, written)
    BY <1>1, <1>2, DrainedTail
<1>6. i \notin cut' /\ Upstream(i)' => Passed(i)' + Len(down'[i]) = Passed(i - 1)'
    <2>1. CASE i \notin cut /\ Upstream(i)
        <3>1. Passed(i) + Len(down[i]) = Passed(i - 1)
            BY <1>2, <2>1
        <3>2. (Passed(i) + 1) + (Len(down[i]) - 1) = Passed(i) + Len(down[i])
            BY <1>2
        <3> QED BY <1>4, <3>1, <3>2
    <2> QED BY <2>1
<1> QED BY <1>1, <1>3, <1>5, <1>6 DEF Forward

(* The next link after relay i has passed a cell on.                       *)
LEMMA ForwardGiven ==
  ASSUME CircuitInv, NEW i \in Relays, Passes(i), hops' = hops, written' = written,
         Passed(i)' = Passed(i) + 1, Passed(i + 1)' = Passed(i + 1)
  PROVE  Forward(i + 1)'
<1> DEFINE k == i + 1
<1>1. /\ k \in 1..hops /\ i \in Nat /\ i >= 1 /\ k - 1 = i /\ k # i /\ k # 1
    BY Ranges DEF Passes
<1>2. /\ k \in Relays /\ down[k] \in Seq(Cells) /\ Len(down[k]) \in Nat
      /\ Passed(k) \in Nat /\ Passed(i) \in Nat /\ written \in Nat
      /\ relay[k].state = "open" =>
              /\ Run(down[k], Passed(k), Passed(i), Fore(k))
              /\ k \notin cut /\ Upstream(k) => Passed(k) + Len(down[k]) = Passed(i)
              /\ written > 0 => Drained(down[k], Passed(k), written)
    BY <1>1, ForwardFacts
<1>3. relay[i].state = "open" /\ cut' = cut /\ relay'[k].state = relay[k].state
    <2>1. LayerOpens(i) /\ cut' = cut /\ Steady(k)
        BY <1>1, <1>2 DEF Passes, CountsOne
    <2> QED BY <2>1 DEF LayerOpens, Steady
<1>4. Upstream(k)
    BY <1>1, <1>3 DEF Upstream
<1>5. Fore(k)' = Fore(k)
    BY ForeSame
<1>6. ForeCell(k, Passed(i)) \in Cells /\ ForeCell(k, Passed(i)).kind = "relay"
      /\ ForeCell(k, Passed(i)) \in Fore(k)[Passed(i)]
    BY <1>1, <1>2, ForeFields DEF Fore
<1>7. Passed(k)' = Passed(k) /\ Passed(k - 1)' = Passed(i) + 1
    BY <1>1
<1> HIDE DEF k
<1> SUFFICES ASSUME relay[k].state = "open"
             PROVE  /\ Run(down'[k], Passed(k), Passed(i) + 1, Fore(k))
                    /\ k \notin cut => Passed(k) + Len(down'[k]) = Passed(i) + 1
                    /\ written > 0 => Drained(down'[k], Passed(k), written)
    BY <1>3, <1>5, <1>7 DEF Forward, k
<1>8. Run(down[k], Passed(k), Passed(i) + 1, Fore(k))
    <2>1. Passed(i) + 1 \in Int /\ Passed(i) <= Passed(i) + 1
        BY <1>2
    <2> QED BY <1>2, <2>1, RunGrows
<1>9. CASE k \in cut
    <2>1. down'[k] = down[k]
        BY <1>1, <1>2, <1>9 DEF Passes, k
    <2> QED BY <1>2, <1>8, <1>9, <2>1
<1>10. CASE k \notin cut
    <2>1. down'[k] = Append(down[k], ForeCell(k, Passed(i)))
        BY <1>1, <1>2, <1>10 DEF Passes, k
    <2>2. Passed(k) + Len(down[k]) = Passed(i)
        BY <1>2, <1>4, <1>10
    <2>3. Len(down'[k]) = Len(down[k]) + 1
        BY <1>2, <1>6, <2>1, LinkAppend
    <2>4. Passed(k) + Len(down'[k]) = Passed(i) + 1
        BY <1>2, <2>2, <2>3
    <2>5. Run(down'[k], Passed(k), Passed(i) + 1, Fore(k))
        <3>1. ForeCell(k, Passed(i)) \in Fore(k)[Passed(k) + Len(down[k])]
              /\ Passed(k) + Len(down[k]) + 1 <= Passed(i) + 1 /\ Passed(i) + 1 \in Int
            BY <1>2, <1>6, <2>2
        <3> QED BY <1>2, <1>6, <1>8, <2>1, <3>1, RunAppend
    <2>6. written > 0 => Drained(down'[k], Passed(k), written)
        BY <1>2, <1>6, <2>1, DrainedAppend
    <2> QED BY <2>4, <2>5, <2>6
<1> QED BY <1>9, <1>10

(* The next link after relay i has closed its circuit.                     *)
LEMMA ForwardClosed ==
  ASSUME CircuitInv, NEW i \in Relays, NEW rest, Finishes(i, rest), hops' = hops, written' = written,
         i + 1 \in 1..hops, Passed(i)' = Passed(i), Passed(i + 1)' = Passed(i + 1)
  PROVE  Forward(i + 1)'
<1> DEFINE k == i + 1
<1>1. /\ k \in 1..hops /\ i \in Nat /\ i >= 1 /\ k - 1 = i /\ k # i /\ k # 1 /\ i < Hops /\ i \in 1..hops
    BY Ranges
<1>2. /\ k \in Relays /\ down[k] \in Seq(Cells) /\ Len(down[k]) \in Nat
      /\ Passed(k) \in Nat /\ Passed(i) \in Nat /\ written \in Nat
      /\ relay[k].state = "open" =>
              /\ Run(down[k], Passed(k), Passed(i), Fore(k))
              /\ k \notin cut /\ Upstream(k) => Passed(k) + Len(down[k]) = Passed(i)
              /\ written > 0 => Drained(down[k], Passed(k), written)
    BY <1>1, ForwardFacts
<1>3. /\ relay[i].state = "open" /\ down[i] # << >> /\ Head(down[i]).kind = "destroy" /\ cut' = cut
      /\ Closes(i, rest)
    BY <1>1 DEF Finishes
<1>4. relay'[i].state = "closed" /\ relay'[k] = relay[k]
    BY <1>1, <1>2, <1>3 DEF Closes, Becomes
<1>5. Upstream(k) /\ ~Upstream(k)'
    BY <1>1, <1>3, <1>4 DEF Upstream
<1>6. Fore(k)' = Fore(k) /\ Passed(k)' = Passed(k) /\ Passed(k - 1)' = Passed(i)
    BY <1>1, ForeSame
<1>7. written > 0 => Passed(i) > written
    <2>1. /\ down[i] \in Seq(Cells) /\ (written > 0 => Drained(down[i], Passed(i), written))
        BY <1>1, <1>3, ForwardFacts
    <2>2. Head(down[i]) = down[i][1] /\ 1 \in 1..Len(down[i])
        BY <1>3, <2>1, LinkTail
    <2>3. \A l \in 1..(1 - 1) : FALSE
        OBVIOUS
    <2>4. written > 0 => Passed(i) + 1 > written + 1
        BY <1>3, <2>1, <2>2, <2>3 DEF Drained
    <2> QED BY <1>2, <2>4
<1> HIDE DEF k
<1> SUFFICES ASSUME relay[k].state = "open"
             PROVE  /\ Run(down'[k], Passed(k), Passed(i), Fore(k))
                    /\ written > 0 => Drained(down'[k], Passed(k), written)
    BY <1>4, <1>5, <1>6 DEF Forward, k
<1>8. CASE down'[k] = down[k]
    BY <1>2, <1>8
<1>9. CASE k \notin cut /\ down'[k] = Append(down[k], Control("destroy"))
    <2>1. Control("destroy") \in Cells /\ Control("destroy").kind = "destroy"
        BY ControlCells
    <2>2. Run(down'[k], Passed(k), Passed(i), Fore(k))
        BY <1>2, <1>9, <2>1, RunAppend
    <2>3. Passed(k) + Len(down[k]) = Passed(i)
        BY <1>2, <1>5, <1>9
    <2>4. written > 0 => Passed(k) + Len(down[k]) > written
        BY <1>7, <2>3
    <2>5. written > 0 => Drained(down'[k], Passed(k), written)
        BY <1>2, <1>9, <2>1, <2>4, DrainedAppend
    <2> QED BY <2>2, <2>5
<1> QED BY <1>1, <1>2, <1>3, <1>8, <1>9 DEF Closes, k

(* How far the cells are, when nothing is counted.                         *)
LEMMA PassedKept ==
  ASSUME UNCHANGED clientVars, NEW k, k # 0 => relay'[k].fwdSeq = relay[k].fwdSeq
  PROVE  Passed(k)' = Passed(k)
<1>1. hops' = hops /\ Total' = Total
    BY DEF clientVars, Total
<1> QED BY <1>1 DEF Passed

(* A relay's link while the relay before it, and the relay itself, are as  *)
(* they were.                                                              *)
LEMMA ForwardSteady ==
  ASSUME CircuitInv, UNCHANGED clientVars, NEW k \in 1..hops, down'[k] = down[k],
         relay'[k].state = "open" => relay[k].state = "open", relay'[k].fwdSeq = relay[k].fwdSeq,
         k # 1 => /\ relay'[k - 1].state = "open" => relay[k - 1].state = "open"
                  /\ relay'[k - 1].fwdSeq = relay[k - 1].fwdSeq,
         cut \subseteq cut'
  PROVE  Forward(k)'
<1>1. k \in Nat /\ k >= 1 /\ (k - 1 # 0 => k # 1)
    BY Ranges
<1>2. hops' = hops /\ written' = written /\ registered' = registered
    BY DEF clientVars
<1>3. Passed(k)' = Passed(k)
    BY PassedKept
<1>4. Passed(k - 1)' = Passed(k - 1)
    BY <1>1, PassedKept
<1>5. Upstream(k)' => Upstream(k)
    BY <1>2 DEF Upstream
<1> QED BY <1>2, <1>3, <1>4, <1>5, ForwardSame

(* Steps of relays keep what is known of the forward cells.                *)
LEMMA ForwardRelay ==
  ASSUME CircuitInv, RelaySide
  PROVE  \A k \in 1..hops : Forward(k)'
<1>1. UNCHANGED clientVars
    BY Elsewhere DEF RelaySide
<1>2. hops' = hops /\ written' = written /\ registered' = registered
    BY <1>1 DEF clientVars
<1> SUFFICES ASSUME NEW k \in 1..hops
             PROVE  Forward(k)'
    OBVIOUS
<1>3. /\ k \in Relays /\ k \in Nat /\ k >= 1 /\ (k # 1 => k - 1 \in Relays) /\ (k - 1 # 0 => k # 1)
      /\ k - 1 # k /\ k <= hops /\ hops <= Hops /\ hops \in Nat /\ Hops \in Nat
    BY Ranges DEF Relays
<1>4. CASE Quiet
    BY <1>1, <1>3, <1>4, ForwardSteady DEF Quiet, Steady
<1>5. ASSUME NEW i \in Relays, NEW from, NEW to, Extends(i, from, to) PROVE Forward(k)'
    <2>1. \A j \in Relays : relay'[j].state = relay[j].state /\ relay'[j].fwdSeq = relay[j].fwdSeq
        BY <1>5 DEF Extends, Steady
    <2> QED BY <1>1, <1>3, <1>5, <2>1, ForwardSteady DEF Extends
<1>6. ASSUME NEW i \in Relays, Creates(i) PROVE Forward(k)'
    <2>1. k # i /\ k - 1 # i
        <3>1. i > hops /\ i \in Nat
            BY <1>6, Ranges DEF Creates
        <3> QED BY <1>3, <3>1
    <2>2. Steady(k) /\ (k # 1 => Steady(k - 1)) /\ down'[k] = down[k] /\ cut' = cut
        BY <1>3, <1>6, <2>1 DEF Creates
    <2> QED BY <1>1, <2>2, ForwardSteady DEF Steady
<1>7. ASSUME NEW i \in Relays, Drops(i) PROVE Forward(k)'
    <2>1. Steady(k) /\ (k # 1 => Steady(k - 1)) /\ cut' = cut
        BY <1>3, <1>7 DEF Drops
    <2>2. CASE k = i
        <3>1. relay'[k].state # "open"
            BY <1>7, <2>1, <2>2 DEF Drops, Steady
        <3> QED BY <3>1 DEF Forward
    <2>3. CASE k # i
        <3>1. down'[k] = down[k]
            BY <1>3, <1>7, <2>3 DEF Drops
        <3> QED BY <1>1, <2>1, <3>1, ForwardSteady DEF Steady
    <2> QED BY <2>2, <2>3
<1>8. ASSUME NEW i \in Relays, NEW ext, CountsOne(i, ext), i \in 1..hops
      PROVE  /\ k # i => Passed(k)' = Passed(k)
             /\ k - 1 # i => Passed(k - 1)' = Passed(k - 1)
             /\ k = i => Passed(k)' = Passed(k) + 1
             /\ k - 1 = i => Passed(k - 1)' = Passed(k - 1) + 1
             /\ LayerOpens(i) /\ cut' = cut
             /\ relay'[k].state = relay[k].state
             /\ Upstream(k)' => Upstream(k)
    <2>1. LayerOpens(i) /\ cut' = cut /\ \A j \in Relays : relay'[j].state = relay[j].state
        BY <1>8 DEF CountsOne, Steady
    <2>2. \A j \in Relays : j # i => relay'[j].fwdSeq = relay[j].fwdSeq
        BY <1>8 DEF CountsOne, Steady
    <2>3. k # i => Passed(k)' = Passed(k)
        BY <1>1, <1>3, <2>2, PassedKept
    <2>4. k - 1 # i => Passed(k - 1)' = Passed(k - 1)
        <3>1. CASE k = 1
            BY <1>1, <3>1, PassedKept
        <3>2. CASE k # 1
            <4>1. k - 1 # i => relay'[k - 1].fwdSeq = relay[k - 1].fwdSeq
                BY <1>3, <2>2, <3>2
            <4> QED BY <1>1, <4>1, PassedKept
        <3> QED BY <3>1, <3>2
    <2>5. Passed(i)' = Passed(i) + 1
        <3>1. i # 0 /\ i \in Nat /\ relay[i].fwdSeq \in Nat /\ relay'[i].fwdSeq = relay[i].fwdSeq + 1
            BY <1>8, Ranges, RelayFields DEF CountsOne, CircuitInv
        <3>2. Passed(i) = relay[i].fwdSeq + i - hops /\ Passed(i)' = relay'[i].fwdSeq + i - hops'
            BY <3>1 DEF Passed
        <3> QED BY <1>2, <1>3, <3>1, <3>2
    <2>6. Upstream(k)' => Upstream(k)
        BY <1>2, <1>3, <2>1 DEF Upstream
    <2> QED BY <1>3, <2>1, <2>3, <2>4, <2>5, <2>6
<1>9. ASSUME NEW i \in Relays, NEW ext, CountsOne(i, ext), i \in 1..hops, k = i \/ k # i + 1,
             down'[k] = IF k = i THEN Tail(down[k]) ELSE down[k]
      PROVE  Forward(k)'
    <2>1. k - 1 # i
        BY <1>3, <1>9, Ranges
    <2>2. CASE k = i
        <3>1. Passed(i)' = Passed(i) + 1 /\ Passed(i - 1)' = Passed(i - 1) /\ LayerOpens(i)
              /\ cut' = cut /\ (Upstream(i)' => Upstream(i)) /\ down'[i] = Tail(down[i])
            BY <1>8, <1>9, <2>1, <2>2
        <3>2. Forward(i)'
            BY <1>2, <3>1, ForwardTaken
        <3> QED BY <2>2, <3>2
    <2>3. CASE k # i
        <3>1. /\ Passed(k)' = Passed(k) /\ Passed(k - 1)' = Passed(k - 1) /\ cut' = cut
              /\ down'[k] = down[k] /\ relay'[k].state = relay[k].state /\ (Upstream(k)' => Upstream(k))
            BY <1>8, <1>9, <2>1, <2>3
        <3> QED BY <1>2, <3>1, ForwardSame
    <2> QED BY <2>2, <2>3
<1>10. ASSUME NEW i \in Relays, Passes(i) PROVE Forward(k)'
    <2>1. i \in 1..hops /\ CountsOne(i, relay[i].extension) /\ i + 1 \in 1..hops
        BY <1>10, Ranges DEF Passes
    <2>2. CASE k = i + 1
        <3>1. k - 1 = i /\ k # i
            BY <2>1, <2>2
        <3>2. Passed(i)' = Passed(i) + 1 /\ Passed(k)' = Passed(k)
            BY <1>8, <2>1, <3>1
        <3>3. Forward(i + 1)'
            BY <1>2, <1>10, <2>2, <3>2, ForwardGiven
        <3> QED BY <2>2, <3>3
    <2>3. CASE k # i + 1
        <3>1. down'[k] = IF k = i THEN Tail(down[k]) ELSE down[k]
            BY <1>3, <1>10, <2>3 DEF Passes
        <3> QED BY <1>9, <2>1, <2>3, <3>1
    <2> QED BY <2>2, <2>3
<1>11. ASSUME NEW i \in Relays, Consumes(i) \/ Asks(i) PROVE Forward(k)'
    <2>1. i = hops /\ i \in 1..hops /\ k # i + 1
        BY <1>3, <1>11, Ranges DEF Consumes, Asks
    <2>2. \E ext : CountsOne(i, ext)
        BY <1>11 DEF Consumes, Asks
    <2>3. down'[k] = IF k = i THEN Tail(down[k]) ELSE down[k]
        BY <1>3, <1>11, <2>1 DEF Consumes, Asks
    <2> QED BY <1>9, <2>1, <2>2, <2>3
<1>12. ASSUME NEW i \in Relays, NEW rest, Finishes(i, rest) PROVE Forward(k)'
    <2>1. /\ cut' = cut /\ Closes(i, rest)
          /\ \A j \in Relays : relay'[j].fwdSeq = relay[j].fwdSeq
          /\ \A j \in Relays : j # i => relay'[j].state = relay[j].state
          /\ relay'[i].state = "closed"
        BY <1>12 DEF Finishes, Closes, Becomes
    <2>2. CASE k = i
        BY <2>1, <2>2 DEF Forward
    <2>3. CASE k = i + 1
        <3>1. Passed(k)' = Passed(k)
            BY <1>1, <1>3, <2>1, PassedKept
        <3>2. Passed(i)' = Passed(i)
            BY <1>1, <2>1, PassedKept
        <3>3. Forward(i + 1)'
            BY <1>2, <1>12, <2>3, <3>1, <3>2, ForwardClosed
        <3> QED BY <2>3, <3>3
    <2>4. CASE k # i /\ k # i + 1
        <3>1. down'[k] = down[k]
            BY <1>3, <2>1, <2>4 DEF Closes
        <3>2. k - 1 # i
            BY <1>3, <2>4, Ranges
        <3> QED BY <1>1, <1>3, <2>1, <2>4, <3>1, <3>2, ForwardSteady
    <2> QED BY <2>2, <2>3, <2>4
<1>13. ASSUME NEW i \in Relays, Cuts(i) PROVE Forward(k)'
    <2>1. relay' = relay /\ cut' = cut \union {i}
        BY <1>13 DEF Cuts
    <2>2. CASE k # i
        <3>1. down'[k] = down[k]
            BY <1>3, <1>13, <2>2 DEF Cuts
        <3> QED BY <1>1, <2>1, <3>1, ForwardSteady
    <2>3. CASE k = i
        <3>1. PICK n \in 0..Len(down[k]) : down'[k] = SubSeq(down[k], 1, n)
            BY <1>13, <2>3 DEF Cuts
        <3>2. /\ down[k] \in Seq(Cells) /\ Passed(k) \in Nat /\ Passed(k - 1) \in Nat /\ written \in Nat
              /\ relay[k].state = "open" =>
                      /\ Run(down[k], Passed(k), Passed(k - 1), Fore(k))
                      /\ written > 0 => Drained(down[k], Passed(k), written)
            BY ForwardFacts
        <3>3. Passed(k)' = Passed(k)
            BY <1>1, <2>1, PassedKept
        <3>4. Passed(k - 1)' = Passed(k - 1)
            BY <1>1, <2>1, PassedKept
        <3>5. Fore(k)' = Fore(k)
            BY <1>2, ForeSame
        <3>6. SUFFICES ASSUME relay[k].state = "open"
                       PROVE  /\ Run(down'[k], Passed(k), Passed(k - 1), Fore(k))
                              /\ written > 0 => Drained(down'[k], Passed(k), written)
            BY <1>2, <2>1, <2>3, <3>3, <3>4, <3>5 DEF Forward
        <3>7. Run(down'[k], Passed(k), Passed(k - 1), Fore(k))
            BY <3>1, <3>2, <3>6, RunPrefix
        <3>8. written > 0 => Drained(down'[k], Passed(k), written)
            BY <3>1, <3>2, <3>6, DrainedPrefix
        <3> QED BY <3>7, <3>8
    <2> QED BY <2>2, <2>3
<1>14. ASSUME NEW i \in Relays, Kind(i) PROVE Forward(k)'
    BY <1>5, <1>6, <1>7, <1>10, <1>11, <1>12, <1>13, <1>14 DEF Kind
<1> QED BY <1>4, <1>14, RelayKinds

(* The order is kept when relay i counts the next cell.                    *)
LEMMA OrderRelay ==
  ASSUME CircuitInv, RelaySide
  PROVE  ForwardOrder'
<1>1. UNCHANGED clientVars
    BY Elsewhere DEF RelaySide
<1>2. hops' = hops
    BY <1>1 DEF clientVars
<1>3. /\ hops \in Nat /\ \A k \in 0..hops : Passed(k) \in Nat /\ k \in Nat
      /\ \A k \in 0..hops : k # 0 => k \in Relays /\ k \in 1..hops
    BY Ranges, Positions
<1>4. \A i, k \in 0..hops : i <= k => Passed(k) <= Passed(i)
    BY DEF CircuitInv, ForwardOrder
<1>5. ASSUME \A k \in Relays : relay'[k].fwdSeq = relay[k].fwdSeq
      PROVE  ForwardOrder'
    <2>1. \A k \in 0..hops : Passed(k)' = Passed(k)
        BY <1>1, <1>3, <1>5, PassedKept
    <2> QED BY <1>2, <1>4, <2>1 DEF ForwardOrder
<1>6. ASSUME NEW i \in Relays, NEW ext, CountsOne(i, ext)
      PROVE  ForwardOrder'
    <2>1. i \in 1..hops /\ i \in 0..hops /\ i - 1 \in 0..hops /\ i \in Nat /\ i # 0
          /\ Passed(i) + 1 <= Passed(i - 1)
        BY <1>6, OpenedEffect, Ranges DEF CountsOne
    <2>2. ASSUME NEW j \in 0..hops, j # i PROVE Passed(j)' = Passed(j)
        <3>1. j # 0 => relay'[j].fwdSeq = relay[j].fwdSeq
            BY <1>3, <1>6, <2>2 DEF CountsOne, Steady
        <3> QED BY <1>1, <3>1, PassedKept
    <2>3. Passed(i)' = Passed(i) + 1
        <3>1. relay[i].fwdSeq \in Nat /\ relay'[i].fwdSeq = relay[i].fwdSeq + 1
            BY <1>6, RelayFields DEF CountsOne, CircuitInv
        <3>2. Passed(i) = relay[i].fwdSeq + i - hops /\ Passed(i)' = relay'[i].fwdSeq + i - hops'
            BY <2>1 DEF Passed
        <3> QED BY <1>2, <1>3, <2>1, <3>1, <3>2
    <2>4. ASSUME NEW j \in 0..hops, NEW k \in 0..hops, j <= k
          PROVE  Passed(k)' <= Passed(j)'
        <3>1. Passed(k) <= Passed(j) /\ Passed(k) \in Nat /\ Passed(j) \in Nat
            BY <1>3, <1>4, <2>4
        <3>2. CASE k = i /\ j # i
            <4>1. j <= i - 1
                BY <1>3, <2>1, <2>4, <3>2
            <4>2. Passed(i - 1) <= Passed(j) /\ Passed(i - 1) \in Nat /\ Passed(i) \in Nat
                BY <1>3, <1>4, <2>1, <4>1
            <4>3. Passed(i)' = Passed(i) + 1 /\ Passed(j)' = Passed(j)
                BY <2>2, <2>3, <3>2
            <4> QED BY <2>1, <3>1, <3>2, <4>2, <4>3
        <3>3. CASE k # i /\ j = i
            <4>1. Passed(i)' = Passed(i) + 1 /\ Passed(k)' = Passed(k) /\ Passed(i) \in Nat
                BY <1>3, <2>1, <2>2, <2>3, <3>3
            <4> QED BY <3>1, <3>3, <4>1
        <3>4. CASE k # i /\ j # i
            BY <2>2, <3>1, <3>4
        <3>5. CASE k = i /\ j = i
            <4>1. Passed(i)' = Passed(i) + 1 /\ Passed(i) \in Nat
                BY <1>3, <2>1, <2>3
            <4> QED BY <3>5, <4>1
        <3> QED BY <3>2, <3>3, <3>4, <3>5
    <2> QED BY <1>2, <2>4 DEF ForwardOrder
<1>7. CASE Quiet
    BY <1>5, <1>7 DEF Quiet, Steady
<1>8. ASSUME NEW i \in Relays, Kind(i) PROVE ForwardOrder'
    <2>1. ASSUME NEW from, NEW to, Extends(i, from, to)
          PROVE  \A k \in Relays : relay'[k].fwdSeq = relay[k].fwdSeq
        BY <2>1 DEF Extends, Steady
    <2>2. ASSUME NEW rest, Finishes(i, rest)
          PROVE  \A k \in Relays : relay'[k].fwdSeq = relay[k].fwdSeq
        BY <2>2 DEF Finishes, Closes, Becomes
    <2>3. Creates(i) \/ Drops(i) \/ Cuts(i) => \A k \in Relays : relay'[k].fwdSeq = relay[k].fwdSeq
        BY DEF Creates, Drops, Cuts, Steady
    <2>4. Passes(i) \/ Consumes(i) \/ Asks(i) => \E ext : CountsOne(i, ext)
        BY DEF Passes, Consumes, Asks
    <2> QED BY <1>5, <1>6, <1>8, <2>1, <2>2, <2>3, <2>4 DEF Kind
<1> QED BY <1>7, <1>8, RelayKinds

(* A link without CREATE, relay cells and DESTROY is empty.                *)
LEMMA NoneHeld ==
  ASSUME NEW s \in Seq(Cells), Sound(s), ~Holds(s, "create"), ~Holds(s, "relay"), ~Holds(s, "destroy")
  PROVE  s = << >>
<1>1. Len(s) \in Nat /\ \A m \in 1..Len(s) : FALSE
    BY DEF Sound, Holds
<1>2. Len(s) = 0
    <2>1. 1 \notin 1..Len(s)
        BY <1>1
    <2> QED BY <1>1, <2>1
<1> QED BY <1>2

(* Cells that run up to their own number are none.                         *)
LEMMA RunNone ==
  ASSUME NEW s \in Seq(Cells), NEW p \in Int, NEW f, Run(s, p, p, f)
  PROVE  Front(s) = {}
<1>1. ASSUME NEW m \in Front(s) PROVE FALSE
    <2>1. m \in Nat /\ m >= 1 /\ p + m <= p
        BY DEF Front, Run
    <2> QED BY <2>1
<1> QED BY <1>1

(* When a hop is added, no forward cell is on its way.                     *)
LEMMA HopEmpty ==
  ASSUME CircuitInv, waitAnswered, pc # "openOK", NEW k \in 1..(hops + 1), relay[k].state = "open"
  PROVE  /\ Front(down[k]) = {}
         /\ k \notin cut /\ Upstream(k) => down[k] = << >>
<1>1. /\ hops \in Nat /\ hops < Hops /\ hops + 1 \in Relays /\ k \in Nat /\ k >= 1 /\ k \in Relays
      /\ k <= hops + 1
      /\ Total = (IF hops = 0 THEN 0 ELSE 1) /\ \A i \in 1..hops : Passed(i) = 1
      /\ hops >= 1 => relay[hops].extension = "linked"
    <2>1. Hops \in Nat
        BY Ranges
    <2> QED BY <2>1, HopAdded DEF Relays
<1>2. down[k] \in Seq(Cells) /\ Sound(down[k])
    BY <1>1, LinkFacts
<1>3. CASE k <= hops
    <2>1. k \in 1..hops
        BY <1>1, <1>3
    <2>2. Passed(k) = 1 /\ Passed(k - 1) = 1
        <3>1. CASE k = 1
            BY <1>1, <1>3, <3>1 DEF Passed
        <3>2. CASE k # 1
            <4>1. k - 1 \in 1..hops
                BY <1>1, <1>3, <3>2
            <4> QED BY <1>1, <2>1, <4>1
        <3> QED BY <3>1, <3>2
    <2>3. /\ Run(down[k], 1, 1, Fore(k))
          /\ k \notin cut /\ Upstream(k) => 1 + Len(down[k]) = 1
        BY <2>1, <2>2, ForwardFacts
    <2>4. Front(down[k]) = {}
        BY <1>2, <2>3, RunNone
    <2>5. k \notin cut /\ Upstream(k) => down[k] = << >>
        BY <1>2, <2>3
    <2> QED BY <2>4, <2>5
<1>4. CASE k = hops + 1
    <2>1. Making(k)
        BY <1>1 DEF CircuitInv
    <2>2. ~Holds(down[k], "relay")
        BY <1>1, <1>4, <2>1 DEF Making
    <2>3. Made(k)
        <3>1. CASE k = 1
            <4>1. responses # << >>
                BY DEF waitAnswered
            <4> QED BY <3>1, <4>1 DEF Made
        <3>2. CASE k # 1
            <4>1. k - 1 = hops /\ hops >= 1
                BY <1>1, <1>4, <3>2
            <4> QED BY <1>1, <3>2, <4>1 DEF Made
        <3> QED BY <3>1, <3>2
    <2>4. ~Holds(down[k], "create")
        BY <2>1, <2>3 DEF Making
    <2>5. Upstream(k) => ~Holds(down[k], "destroy")
        BY <2>1 DEF Making, Upstream
    <2>6. Upstream(k) => down[k] = << >>
        BY <1>2, <2>2, <2>4, <2>5, NoneHeld
    <2>7. Front(down[k]) = {}
        BY <1>2, <2>2, RunEmpty
    <2> QED BY <2>6, <2>7
<1> QED BY <1>1, <1>3, <1>4

(* A hop is added: the numbers of all relays start again.                  *)
LEMMA PassedAgain ==
  ASSUME CircuitInv, waitAnswered, pc # "openOK"
  PROVE  /\ hops' = hops + 1 /\ hops \in Nat /\ hops + 1 \in Relays
         /\ \A k \in 1..(hops + 1) : Passed(k)' = 0 /\ k \in Relays
         /\ Passed(0)' = 1 /\ written' = written /\ written = 0 /\ registered' = registered
         /\ relay' = relay /\ cut' = cut
<1>1. /\ hops \in Nat /\ hops < Hops /\ hops' = hops + 1 /\ hops + 1 \in Relays
      /\ Total' = 1 /\ relay' = relay /\ registered' = registered
      /\ \A k \in Relays : k > hops => relay[k].fwdSeq = 0
      /\ \A i \in 1..hops : Passed(i) = 1
    BY HopAdded
<1>2. written' = written /\ cut' = cut /\ pc \in {"created", "extended"}
    BY AnswerTaken DEF waitAnswered
<1>3. written = 0
    BY <1>2 DEF CircuitInv, Stage
<1>4. Passed(0)' = 1
    BY <1>1 DEF Passed
<1>5. ASSUME NEW k \in 1..(hops + 1) PROVE Passed(k)' = 0 /\ k \in Relays
    <2>1. Hops \in Nat /\ k \in Relays /\ k \in Nat /\ k # 0
        BY <1>1, Ranges DEF Relays
    <2>2. relay[k].fwdSeq \in Nat
        BY <2>1, RelayFields DEF CircuitInv
    <2>3. Passed(k)' = relay[k].fwdSeq + k - (hops + 1)
        BY <1>1, <2>1 DEF Passed
    <2>4. CASE k <= hops
        <3>1. k \in 1..hops
            BY <2>1, <2>4
        <3>2. Passed(k) = 1 /\ Passed(k) = relay[k].fwdSeq + k - hops
            BY <1>1, <2>1, <3>1 DEF Passed
        <3> QED BY <1>1, <2>1, <2>2, <2>3, <3>2
    <2>5. CASE k = hops + 1
        <3>1. relay[k].fwdSeq = 0
            BY <1>1, <2>1, <2>5
        <3> QED BY <1>1, <2>1, <2>3, <2>5, <3>1
    <2> QED BY <1>1, <2>1, <2>4, <2>5
<1> QED BY <1>1, <1>2, <1>3, <1>4, <1>5

(* So does the client's step to the next hop.                              *)
LEMMA ForwardHop ==
  ASSUME CircuitInv, waitAnswered, pc # "openOK", Tells(ForeCell(1, 0)')
  PROVE  (\A k \in 1..hops' : Forward(k)') /\ ForwardOrder'
<1>1. /\ hops' = hops + 1 /\ hops \in Nat /\ hops + 1 \in Relays
      /\ \A k \in 1..(hops + 1) : Passed(k)' = 0 /\ k \in Relays
      /\ Passed(0)' = 1 /\ written' = written /\ written = 0 /\ registered' = registered
      /\ relay' = relay /\ cut' = cut
    BY PassedAgain
<1>2. ForwardOrder'
    <2> SUFFICES ASSUME NEW i \in 0..(hops + 1), NEW k \in 0..(hops + 1), i <= k
                 PROVE  Passed(k)' <= Passed(i)'
        BY <1>1 DEF ForwardOrder
    <2>1. i \in Nat /\ k \in Nat
        OBVIOUS
    <2>2. CASE i = 0
        <3>1. k = 0 \/ k \in 1..(hops + 1)
            BY <1>1, <2>1
        <3>2. Passed(k)' \in {0, 1}
            BY <1>1, <3>1
        <3> QED BY <1>1, <2>2, <3>2
    <2>3. CASE i # 0
        <3>1. i \in 1..(hops + 1) /\ k \in 1..(hops + 1)
            BY <1>1, <2>1, <2>3
        <3>2. Passed(k)' = 0 /\ Passed(i)' = 0
            BY <1>1, <3>1
        <3> QED BY <3>2
    <2> QED BY <2>2, <2>3
<1>3. ASSUME NEW k \in 1..(hops + 1) PROVE Forward(k)'
    <2> SUFFICES ASSUME relay[k].state = "open"
                 PROVE  /\ Run(down'[k], Passed(k)', Passed(k - 1)', Fore(k)')
                        /\ k \notin cut /\ Upstream(k)' => Passed(k)' + Len(down'[k]) = Passed(k - 1)'
        BY <1>1 DEF Forward
    <2>1. Front(down[k]) = {} /\ (k \notin cut /\ Upstream(k) => down[k] = << >>)
        BY HopEmpty
    <2>2. k \in Relays /\ k \in Nat /\ k >= 1 /\ Passed(k)' = 0 /\ down[k] \in Seq(Cells)
        BY <1>1, LinkFacts
    <2>3. Upstream(k)' => Upstream(k)
        BY <1>1 DEF Upstream
    <2>4. \A p, top, f : Run(down[k], p, top, f)
        BY <2>1 DEF Run
    <2>5. CASE k # 1
        <3>1. down'[k] = down[k]
            BY <2>2, <2>5, ClientEffects DEF ClientSide
        <3>2. Passed(k - 1)' = 0
            <4>1. k - 1 \in 1..(hops + 1)
                BY <1>1, <2>2, <2>5
            <4> QED BY <1>1, <4>1
        <3>3. Run(down'[k], Passed(k)', Passed(k - 1)', Fore(k)')
            BY <2>4, <3>1
        <3>4. k \notin cut /\ Upstream(k)' => Len(down'[k]) = 0
            BY <2>1, <2>3, <3>1
        <3> QED BY <2>2, <3>2, <3>3, <3>4
    <2>6. CASE k = 1
        <3>1. Passed(k - 1)' = 1 /\ Passed(k)' = 0
            BY <1>1, <2>2, <2>6
        <3>2. CASE 1 \in cut
            <4>1. down'[1] = down[1]
                BY <3>2 DEF Tells
            <4>2. Run(down'[k], Passed(k)', Passed(k - 1)', Fore(k)')
                BY <2>4, <2>6, <4>1
            <4> QED BY <2>6, <3>2, <4>2
        <3>3. CASE 1 \notin cut
            <4> DEFINE c == ForeCell(1, 0)'
            <4>1. down'[1] = Append(down[1], c)
                BY <3>3 DEF Tells
            <4>2. c = Relay(Onion(0, hops' - 1 + 1), ForeCmd(0)', 0) /\ ForeCmd(0)' \in Commands
                  /\ c \in (Fore(1)')[0]
                BY DEF ForeCell, ForeCmd, Commands, Fore
            <4>3. Onion(0, hops' - 1 + 1) \in Seq(Nat)
                <5>1. hops' - 1 + 1 \in Nat
                    BY <1>1
                <5> QED BY <5>1, OnionSeq
            <4>4. c \in Cells /\ c.kind = "relay"
                BY <4>2, <4>3, MadeCells
            <4> HIDE DEF c
            <4>5. (\A m \in 1..Len(down[1]) : down[1][m].kind = "relay") => Len(down[1]) = 0
                <5>1. SUFFICES ASSUME \A m \in 1..Len(down[1]) : down[1][m].kind = "relay",
                                      Len(down[1]) # 0
                               PROVE  FALSE
                    OBVIOUS
                <5>2. 1 \in 1..Len(down[1]) /\ Len(down[1]) \in Nat
                    BY <2>2, <2>6, <5>1
                <5>3. 1 \in Front(down[1])
                    BY <5>1, <5>2 DEF Front
                <5> QED BY <2>1, <2>6, <5>3
            <4>6. Run(down'[1], 0, 1, Fore(1)')
                <5>1. Run(down[1], 0, 1, Fore(1)')
                    BY <2>4, <2>6
                <5>2. (\A m \in 1..Len(down[1]) : down[1][m].kind = "relay")
                         => c \in (Fore(1)')[0 + Len(down[1])] /\ 0 + Len(down[1]) + 1 <= 1
                    BY <4>2, <4>5
                <5> QED BY <2>2, <2>6, <4>1, <4>4, <5>1, <5>2, RunAppend
            <4>7. Upstream(1)' => Len(down'[1]) = 1
                <5>1. Upstream(1)' => down[1] = << >>
                    BY <2>1, <2>3, <2>6, <3>3
                <5>2. Len(down'[1]) = Len(down[1]) + 1
                    BY <2>2, <2>6, <4>1, <4>4, LinkAppend
                <5> QED BY <5>1, <5>2
            <4>8. Run(down'[k], Passed(k)', Passed(k - 1)', Fore(k)')
                <5>1. Run(down'[1], Passed(k)', Passed(k - 1)', Fore(1)')
                    BY <3>1, <4>6
                <5> QED BY <2>6, <5>1
            <4>9. Upstream(k)' => Len(down'[k]) = 1
                BY <2>6, <4>7
            <4>10. ASSUME Upstream(k)' PROVE Passed(k)' + Len(down'[k]) = Passed(k - 1)'
                <5>1. Len(down'[k]) = 1
                    BY <4>9, <4>10
                <5>2. 0 + Len(down'[k]) = 1
                    BY <5>1
                <5> QED BY <3>1, <5>2
            <4> QED BY <4>8, <4>10
        <3> QED BY <3>2, <3>3
    <2> QED BY <2>5, <2>6
<1> QED BY <1>1, <1>2, <1>3

(* What the client writes changes only what it has sent.                   *)
LEMMA PassedClient ==
  ASSUME relay' = relay, hops' = hops, NEW k, k # 0 \/ Total' = Total
  PROVE  Passed(k)' = Passed(k)
BY DEF Passed

(* Counting more cells sent keeps the order of the counters.               *)
LEMMA OrderGrows ==
  ASSUME CircuitInv, relay' = relay, hops' = hops, Total' \in Nat, Total' >= Total
  PROVE  ForwardOrder'
<1>1. hops \in Nat /\ Total \in Nat /\ \A k \in 0..hops : Passed(k) \in Nat
    BY Ranges, Positions
<1> SUFFICES ASSUME NEW i \in 0..hops, NEW k \in 0..hops, i <= k
             PROVE  Passed(k)' <= Passed(i)'
    BY DEF ForwardOrder
<1>2. Passed(k) <= Passed(i) /\ Passed(k) \in Nat /\ Passed(i) \in Nat
    BY <1>1 DEF CircuitInv, ForwardOrder
<1>3. CASE i # 0
    <2>1. k # 0
        BY <1>1, <1>3
    <2>2. Passed(k)' = Passed(k) /\ Passed(i)' = Passed(i)
        BY <1>3, <2>1, PassedClient
    <2> QED BY <1>2, <2>2
<1>4. CASE i = 0
    <2>1. Passed(i)' = Total' /\ Passed(i) = Total
        BY <1>4 DEF Passed
    <2>2. CASE k = 0
        BY <1>4, <2>1, <2>2
    <2>3. CASE k # 0
        <3>1. Passed(k)' = Passed(k)
            BY <2>3, PassedClient
        <3> QED BY <1>1, <1>2, <2>1, <3>1
    <2> QED BY <2>2, <2>3
<1> QED BY <1>3, <1>4

(* The client writes data.                                                 *)
LEMMA ForwardWrite ==
  ASSUME CircuitInv, Write, Tells(ForeCell(1, written)')
  PROVE  (\A k \in 1..hops' : Forward(k)') /\ ForwardOrder'
<1>1. /\ pc = "stream" /\ pc' = pc /\ hops' = hops /\ written' = written + 1 /\ registered' = registered
    BY DEF Write
<1>2. /\ registered /\ hops = Hops /\ hops \in Nat /\ hops >= 1 /\ written \in Nat /\ 1 \in 1..hops
    BY <1>1, Ranges DEF CircuitInv, Stage
<1>3. Total = written + 1 /\ Total' = written + 2
    BY <1>1, <1>2 DEF Total
<1>4. relay' = relay /\ cut' = cut /\ \A k \in Relays : k # 1 => down'[k] = down[k]
    BY ClientEffects DEF ClientSide
<1>5. ForwardOrder'
    BY <1>1, <1>2, <1>3, <1>4, OrderGrows
<1>6. ASSUME NEW k \in 1..hops, NEW q \in Nat, q <= written
      PROVE  Fore(k)[q] = (Fore(k)')[q]
    <2>1. ForeCmd(q)' = ForeCmd(q)
        BY <1>1, <1>2, <1>6 DEF ForeCmd
    <2> QED BY <1>1, <2>1 DEF Fore, ForeCell
<1>7. ASSUME NEW k \in 1..hops PROVE Forward(k)'
    <2>1. /\ k \in Relays /\ k \in Nat /\ k >= 1 /\ k - 1 \in 0..hops /\ down[k] \in Seq(Cells)
          /\ Len(down[k]) \in Nat /\ Passed(k) \in Nat /\ Passed(k - 1) \in Nat
          /\ relay[k].state = "open" =>
              /\ Run(down[k], Passed(k), Passed(k - 1), Fore(k))
              /\ k \notin cut /\ Upstream(k) => Passed(k) + Len(down[k]) = Passed(k - 1)
        BY ForwardFacts, Ranges
    <2>2. Passed(k)' = Passed(k)
        <3>1. k # 0
            BY <2>1
        <3> QED BY <1>1, <1>4, <3>1, PassedClient
    <2>3. Passed(k - 1) <= Total
        <3>1. 0 \in 0..hops /\ 0 <= k - 1 /\ Passed(0) = Total
            BY <1>2, <2>1 DEF Passed
        <3> QED BY <2>1, <3>1 DEF CircuitInv, ForwardOrder
    <2>4. Passed(k - 1)' \in Nat /\ Passed(k - 1) <= Passed(k - 1)'
        <3>1. CASE k = 1
            <4>1. Passed(k - 1)' = Total' /\ Passed(k - 1) = Total
                BY <3>1 DEF Passed
            <4> QED BY <1>2, <1>3, <4>1
        <3>2. CASE k # 1
            <4>1. Passed(k - 1)' = Passed(k - 1)
                BY <1>1, <1>4, <2>1, <3>2, PassedClient
            <4> QED BY <2>1, <4>1
        <3> QED BY <3>1, <3>2
    <2>5. ~Holds(down[k], "destroy")
        BY <1>2, <2>1, ClosedBefore
    <2>6. Drained(down[k], Passed(k), written')
        BY <2>5 DEF Drained, Holds
    <2>7. relay[k].state = "open" => Run(down[k], Passed(k), Passed(k - 1)', Fore(k)')
        <3>1. ASSUME NEW q \in Int, q >= Passed(k), q < Passed(k - 1)
              PROVE  Fore(k)[q] \subseteq (Fore(k)')[q]
            <4>1. q \in Nat /\ q <= written
                BY <1>2, <1>3, <2>1, <2>3, <3>1
            <4> QED BY <1>6, <4>1
        <3> QED BY <2>1, <2>4, <3>1, RunGrows
    <2> SUFFICES ASSUME relay[k].state = "open"
                 PROVE  /\ Run(down'[k], Passed(k), Passed(k - 1)', Fore(k)')
                        /\ k \notin cut /\ Upstream(k)' => Passed(k) + Len(down'[k]) = Passed(k - 1)'
                        /\ Drained(down'[k], Passed(k), written')
        BY <1>4, <2>2 DEF Forward
    <2>8. Upstream(k)' => Upstream(k)
        BY <1>1, <1>4 DEF Upstream
    <2>9. CASE k # 1
        <3>1. down'[k] = down[k]
            BY <1>4, <2>1, <2>9
        <3>2. Passed(k - 1)' = Passed(k - 1)
            BY <1>1, <1>4, <2>1, <2>9, PassedClient
        <3>3. k \notin cut /\ Upstream(k)' => Passed(k) + Len(down'[k]) = Passed(k - 1)'
            BY <2>1, <2>8, <3>1, <3>2
        <3> QED BY <2>6, <2>7, <3>1, <3>3
    <2>10. CASE k = 1 /\ 1 \in cut
        <3>1. down'[k] = down[k]
            BY <2>10 DEF Tells
        <3> QED BY <2>6, <2>7, <2>10, <3>1
    <2>11. CASE k = 1 /\ 1 \notin cut
        <3> DEFINE c == ForeCell(1, written)'
        <3>1. down'[1] = Append(down[1], c)
            BY <2>11 DEF Tells
        <3>2. /\ written' \in Nat /\ ForeCmd(written)' = "data"
              /\ c = Relay(Onion(written', hops - 1 + 1), "data", written')
            BY <1>1, <1>2 DEF ForeCell, ForeCmd
        <3>3. c \in (Fore(1)')[written']
            BY <3>2 DEF Fore
        <3>4. Onion(written', hops - 1 + 1) \in Seq(Nat)
            <4>1. hops - 1 + 1 \in Nat
                BY <1>2
            <4> QED BY <3>2, <4>1, OnionSeq
        <3>5. c \in Cells /\ c.kind = "relay"
            BY <3>2, <3>4, MadeCells DEF Commands
        <3> HIDE DEF c
        <3>6. Passed(0) = Total /\ Passed(0)' = Total' /\ k - 1 = 0
            BY <2>11 DEF Passed
        <3>7. Passed(1) + Len(down[1]) = written + 1
            <4>1. Upstream(1)
                BY <1>2 DEF Upstream
            <4> QED BY <1>3, <2>1, <2>11, <3>6, <4>1
        <3>8. Len(down'[1]) = Len(down[1]) + 1
            BY <2>1, <2>11, <3>1, <3>5, LinkAppend
        <3>9. Passed(1) + Len(down'[1]) = written + 2
            <4>1. Passed(1) \in Nat /\ Len(down[1]) \in Nat
                BY <2>1, <2>11
            <4>2. Passed(1) + (Len(down[1]) + 1) = (written + 1) + 1
                BY <1>2, <3>7, <4>1
            <4> QED BY <1>2, <3>8, <4>2
        <3>10. Run(down[1], Passed(1), written + 2, Fore(1)')
            <4>1. Run(down[1], Passed(1), Passed(k - 1)', Fore(1)')
                BY <2>7, <2>11
            <4>2. Passed(k - 1)' = written + 2
                BY <1>3, <3>6
            <4> QED BY <4>1, <4>2
        <3>11. Run(down'[1], Passed(1), written + 2, Fore(1)')
            <4>1. c \in (Fore(1)')[Passed(1) + Len(down[1])] /\ Passed(1) + Len(down[1]) + 1 <= written + 2
                BY <1>1, <1>2, <3>3, <3>7
            <4>2. Passed(1) \in Int /\ written + 2 \in Int /\ down[1] \in Seq(Cells)
                BY <1>2, <2>1, <2>11
            <4> QED BY <3>1, <3>5, <3>10, <4>1, <4>2, RunAppend
        <3>12. Drained(down'[1], Passed(1), written')
            <4>1. Drained(down[1], Passed(1), written') /\ Passed(1) \in Int /\ down[1] \in Seq(Cells)
                BY <2>1, <2>6, <2>11
            <4> QED BY <3>1, <3>2, <3>5, <4>1, DrainedAppend
        <3>13. Passed(k - 1)' = written + 2
            BY <1>3, <3>6
        <3> QED BY <2>11, <3>9, <3>11, <3>12, <3>13
    <2> QED BY <2>9, <2>10, <2>11
<1> QED BY <1>1, <1>5, <1>7

(* The client closes: CLOSE and DESTROY follow all data.                   *)
LEMMA ForwardClose ==
  ASSUME CircuitInv, Close,
         down'[1] = IF 1 \in cut THEN down[1]
                    ELSE Append(Append(down[1], ForeCell(1, written + 1)'), Control("destroy"))
  PROVE  (\A k \in 1..hops' : Forward(k)') /\ ForwardOrder'
<1>1. /\ pc = "stream" /\ pc' = "closed" /\ hops' = hops /\ written' = written /\ ~registered'
    BY DEF Close
<1>2. /\ registered /\ hops = Hops /\ hops \in Nat /\ hops >= 1 /\ written \in Nat /\ 1 \in 1..hops
    BY <1>1, Ranges DEF CircuitInv, Stage
<1>3. Total = written + 1 /\ Total' = written + 2
    BY <1>1, <1>2 DEF Total
<1>4. relay' = relay /\ cut' = cut /\ \A k \in Relays : k # 1 => down'[k] = down[k]
    BY ClientEffects DEF ClientSide
<1>5. ForwardOrder'
    BY <1>1, <1>2, <1>3, <1>4, OrderGrows
<1>6. ASSUME NEW k \in 1..hops, k # 1 PROVE Forward(k)'
    <2>1. k \in Relays /\ k \in Nat /\ k - 1 # 0 /\ k # 0
        BY <1>6, Ranges
    <2>2. Passed(k)' = Passed(k)
        BY <1>1, <1>4, <2>1, PassedClient
    <2>3. Passed(k - 1)' = Passed(k - 1)
        BY <1>1, <1>4, <2>1, PassedClient
    <2>4. Upstream(k)' => Upstream(k)
        BY <1>4, <1>6 DEF Upstream
    <2> QED BY <1>1, <1>4, <1>6, <2>1, <2>2, <2>3, <2>4, ForwardSame
<1>7. Forward(1)'
    <2>1. /\ down[1] \in Seq(Cells) /\ Len(down[1]) \in Nat /\ Passed(1) \in Nat
          /\ relay[1].state = "open" =>
              /\ Run(down[1], Passed(1), Passed(1 - 1), Fore(1))
              /\ 1 \notin cut /\ Upstream(1) => Passed(1) + Len(down[1]) = Passed(1 - 1)
              /\ written > 0 => Drained(down[1], Passed(1), written)
        BY <1>2, ForwardFacts
    <2>2. 1 - 1 = 0 /\ Passed(1 - 1) = written + 1 /\ Passed(1 - 1)' = written + 2 /\ Passed(1)' = Passed(1)
        BY <1>1, <1>3, <1>4, PassedClient DEF Passed
    <2>3. Upstream(1) /\ ~Upstream(1)'
        BY <1>1, <1>2 DEF Upstream
    <2>4. Fore(1)' = Fore(1)
        BY <1>1, ForeSame
    <2> SUFFICES ASSUME relay[1].state = "open"
                 PROVE  /\ Run(down'[1], Passed(1), written + 2, Fore(1))
                        /\ written > 0 => Drained(down'[1], Passed(1), written)
        BY <1>1, <1>4, <2>2, <2>3, <2>4 DEF Forward
    <2>5. Run(down[1], Passed(1), written + 2, Fore(1))
        <3>1. Run(down[1], Passed(1), written + 1, Fore(1)) /\ Passed(1) \in Int
              /\ written + 1 \in Int /\ written + 2 \in Int /\ written + 1 <= written + 2
            BY <1>2, <2>1, <2>2
        <3> QED BY <2>1, <3>1, RunGrows
    <2>6. CASE 1 \in cut
        BY <2>1, <2>5, <2>6
    <2>7. CASE 1 \notin cut
        <3> DEFINE c == ForeCell(1, written + 1)
                   s == Append(down[1], c)
        <3>1. ForeCell(1, written + 1)' = c
            BY <1>1 DEF ForeCell, ForeCmd
        <3>2. c \in Cells /\ c.kind = "relay" /\ c \in Fore(1)[written + 1]
            <4>1. written + 1 \in Nat
                BY <1>2
            <4>2. c \in Cells /\ c.kind = "relay"
                BY <1>2, <4>1, ForeFields
            <4>3. c \in Fore(1)[written + 1]
                BY <4>1 DEF Fore
            <4> QED BY <4>2, <4>3
        <3>3. Control("destroy") \in Cells /\ Control("destroy").kind = "destroy"
            BY ControlCells
        <3>4. down'[1] = Append(s, Control("destroy"))
            BY <2>7, <3>1
        <3>5. Passed(1) + Len(down[1]) = written + 1
            BY <2>1, <2>2, <2>3, <2>7
        <3> HIDE DEF c
        <3>6. s \in Seq(Cells) /\ Len(s) = Len(down[1]) + 1
            BY <2>1, <3>2, LinkAppend
        <3>7. Run(s, Passed(1), written + 2, Fore(1))
            <4>1. c \in Fore(1)[Passed(1) + Len(down[1])] /\ Passed(1) + Len(down[1]) + 1 <= written + 2
                  /\ Passed(1) \in Int /\ written + 2 \in Int
                BY <1>2, <2>1, <3>2, <3>5
            <4> QED BY <2>1, <2>5, <3>2, <4>1, RunAppend
        <3>8. written > 0 => Drained(s, Passed(1), written)
            BY <1>2, <2>1, <3>2, DrainedAppend
        <3>9. Passed(1) + Len(s) > written
            BY <1>2, <2>1, <3>5, <3>6
        <3> HIDE DEF s
        <3>10. Run(down'[1], Passed(1), written + 2, Fore(1))
            <4>1. Passed(1) \in Int /\ written + 2 \in Int
                BY <1>2, <2>1
            <4> QED BY <3>3, <3>4, <3>6, <3>7, <4>1, RunAppend
        <3>11. written > 0 => Drained(down'[1], Passed(1), written)
            <4>1. SUFFICES ASSUME written > 0
                           PROVE  Drained(down'[1], Passed(1), written)
                OBVIOUS
            <4>2. Passed(1) \in Int /\ written \in Int /\ Drained(s, Passed(1), written)
                BY <1>2, <2>1, <3>8, <4>1
            <4> QED BY <3>3, <3>4, <3>6, <3>9, <4>2, DrainedAppend
        <3> QED BY <3>10, <3>11
    <2> QED BY <2>6, <2>7
<1>8. \A k \in 1..hops : Forward(k)'
    BY <1>6, <1>7
<1> QED BY <1>1, <1>5, <1>8

(* The other steps of the client.                                          *)
LEMMA ForwardStays ==
  ASSUME CircuitInv, ClientSide, Stays, Leaves \/ Listens
  PROVE  (\A k \in 1..hops' : Forward(k)') /\ ForwardOrder'
<1>1. hops' = hops /\ written' = written /\ Total' = Total
    BY DEF Stays
<1>2. relay' = relay /\ cut' = cut /\ \A k \in Relays : k # 1 => down'[k] = down[k]
    BY ClientEffects
<1>3. ForwardOrder'
    <2>1. Total \in Nat /\ Total >= Total
        BY Ranges
    <2> QED BY <1>1, <1>2, <2>1, OrderGrows
<1>4. ASSUME NEW k \in 1..hops PROVE Forward(k)'
    <2>1. k \in Relays /\ k \in Nat /\ k >= 1
        BY Ranges
    <2>2. Passed(k)' = Passed(k)
        BY <1>1, <1>2, PassedClient
    <2>3. Passed(k - 1)' = Passed(k - 1)
        BY <1>1, <1>2, PassedClient
    <2>4. Upstream(k)' => Upstream(k)
        BY <1>2 DEF Upstream, Leaves, Listens
    <2>5. CASE down'[k] = down[k]
        BY <1>1, <1>2, <2>2, <2>3, <2>4, <2>5, ForwardSame
    <2>6. CASE k = 1 /\ Leaves /\ 1 \notin cut
        <3>1. registered /\ ~registered' /\ down'[1] = Append(down[1], Control("destroy"))
            BY <2>6 DEF Leaves, Tells
        <3>2. /\ down[1] \in Seq(Cells) /\ Len(down[1]) \in Nat /\ Passed(1) \in Nat /\ written \in Nat
              /\ Passed(1 - 1) \in Nat
              /\ relay[1].state = "open" =>
                  /\ Run(down[1], Passed(1), Passed(1 - 1), Fore(1))
                  /\ 1 \notin cut /\ Upstream(1) => Passed(1) + Len(down[1]) = Passed(1 - 1)
                  /\ written > 0 => Drained(down[1], Passed(1), written)
            BY <2>6, ForwardFacts
        <3>3. Upstream(1) /\ ~Upstream(1)'
            BY <3>1 DEF Upstream
        <3>4. Fore(1)' = Fore(1)
            BY <1>1, ForeSame
        <3> SUFFICES ASSUME relay[1].state = "open"
                     PROVE  /\ Run(down'[1], Passed(1), Passed(1 - 1), Fore(1))
                            /\ written > 0 => Drained(down'[1], Passed(1), written)
            BY <1>1, <1>2, <2>2, <2>3, <2>6, <3>3, <3>4 DEF Forward
        <3>5. Control("destroy") \in Cells /\ Control("destroy").kind = "destroy"
            BY ControlCells
        <3>6. Run(down'[1], Passed(1), Passed(1 - 1), Fore(1))
            BY <3>1, <3>2, <3>5, RunAppend
        <3>7. written > 0 => Passed(1) + Len(down[1]) > written
            <4>1. Passed(1) + Len(down[1]) = Total
                BY <2>6, <3>2, <3>3 DEF Passed
            <4>2. written > 0 => hops = Hops
                <5>1. written > 0 => pc \in {"stream", "stopped", "closed"}
                    BY DEF CircuitInv, Stage
                <5> QED BY <5>1 DEF CircuitInv, Stage
            <4>3. hops \in Nat /\ hops >= 1 /\ Hops \in Nat
                BY <2>1, Ranges
            <4>4. written > 0 => Total > written
                BY <3>2, <4>2, <4>3 DEF Total
            <4> QED BY <4>1, <4>4
        <3>8. written > 0 => Drained(down'[1], Passed(1), written)
            BY <3>1, <3>2, <3>5, <3>7, DrainedAppend
        <3> QED BY <3>6, <3>8
    <2> QED BY <1>2, <2>1, <2>5, <2>6 DEF Leaves, Listens, Tells
<1> QED BY <1>1, <1>3, <1>4

(* All the steps of the client keep what is known of the forward cells.    *)
LEMMA ForwardClient ==
  ASSUME CircuitInv, ClientSide
  PROVE  (\A k \in 1..hops' : Forward(k)') /\ ForwardOrder'
<1>1. CASE buildCircuit
    <2>1. hops' = hops /\ hops = 0 /\ 0 \in Nat
        BY <1>1 DEF buildCircuit, CircuitInv, Stage
    <2>2. Total' = 0 /\ Passed(0)' = 0
        BY <2>1 DEF Total, Passed
    <2>3. 0..0 = {0} /\ 1..0 = {}
        OBVIOUS
    <2>4. ForwardOrder'
        BY <2>1, <2>2, <2>3 DEF ForwardOrder
    <2> QED BY <2>1, <2>3, <2>4
<1> QED BY <1>1, ClientKinds, ForwardHop, ForwardWrite, ForwardClose, ForwardStays

(* Forward cells.                                                          *)
LEMMA ForwardStep ==
  ASSUME CircuitInv, CircuitNext
  PROVE  (\A k \in 1..hops' : Forward(k)') /\ ForwardOrder'
<1>1. CASE RelaySide
    <2>1. hops' = hops
        BY <1>1, Elsewhere DEF RelaySide, clientVars
    <2> QED BY <1>1, <2>1, ForwardRelay, OrderRelay
<1> QED BY <1>1, Sides, ForwardClient

(* Links are created and destroyed in order.                               *)
LEMMA MakingStep ==
  ASSUME CircuitInv, CircuitNext
  PROVE  \A k \in Relays : Making(k)'
BY Sides, MakingClient, MakingRelay

-----------------------------------------------------------------------------
(* Reverse cells.                                                          *)

(* What has been answered stays answered.                                  *)
Remembers ==
  /\ hops' = hops /\ (relay[hops].extension = "linked" => relay'[hops].extension = "linked")
  /\ pump # "none" => pump' # "none"
  /\ answered \in Nat /\ answered' \in Nat /\ answered' >= answered
  /\ app \in {"ended", "closed"} => app' = app /\ answered' = answered

(* What answers a request goes on answering it.                            *)
LEMMA AnswerKept ==
  ASSUME Remembers, NEW cmd, NEW n, NEW q \in Nat, Answer(cmd, n, q)
  PROVE  Answer(cmd, n, q)'
<1>1. CASE hops < Hops
    <2>1. q = 0 /\ (cmd = "openError" \/ (cmd = "extended" /\ relay[hops].extension = "linked"))
        BY <1>1 DEF Answer
    <2> QED BY <1>1, <2>1 DEF Answer, Remembers
<1>2. CASE ~(hops < Hops)
    <2>1. hops' = hops
        BY DEF Remembers
    <2>2. CASE q = 0 /\ (cmd = "openError" \/ (cmd = "openOK" /\ pump # "none"))
        <3>1. cmd = "openError" \/ (cmd = "openOK" /\ pump' # "none")
            BY <2>2 DEF Remembers
        <3> QED BY <1>2, <2>1, <2>2, <3>1 DEF Answer
    <2>3. CASE q \in 1..answered /\ cmd = "data" /\ n = q
        <3>1. q \in 1..answered'
            BY <2>3 DEF Remembers
        <3> QED BY <1>2, <2>1, <2>3, <3>1 DEF Answer
    <2>4. CASE q = answered + 1 /\ cmd = "close" /\ app \in {"ended", "closed"}
        <3>1. app' \in {"ended", "closed"} /\ answered' = answered
            BY <2>4 DEF Remembers
        <3>2. q = answered' + 1
            BY <2>4, <3>1
        <3> QED BY <1>2, <2>1, <2>4, <3>1, <3>2 DEF Answer
    <2> QED BY <1>2, <2>2, <2>3, <2>4 DEF Answer
<1> QED BY <1>1, <1>2

(* A cell expected on the way back stays expected.                         *)
LEMMA BackKept ==
  ASSUME Remembers, NEW k, NEW q \in Nat
  PROVE  Back(k)[q] \subseteq (Back(k)')[q]
<1> SUFFICES ASSUME NEW c \in Back(k)[q]
             PROVE  c \in (Back(k)')[q]
    OBVIOUS
<1>1. c \in Cells /\ c.kind = "relay" /\ c.layers = Onion(q, hops - k + 1) /\ Answer(c.cmd, c.n, q)
    BY DEF Back
<1>2. Answer(c.cmd, c.n, q)'
    BY <1>1, AnswerKept
<1>3. hops' = hops
    BY DEF Remembers
<1> QED BY <1>1, <1>2, <1>3 DEF Back

(* What the invariant says about an open hop's link.                       *)
LEMMA ReturnedFacts ==
  ASSUME CircuitInv, registered, NEW k \in 1..hops
  PROVE  /\ k \in Relays /\ k \in Nat /\ k >= 1 /\ k <= hops /\ hops \in Nat /\ k - 1 \in 0..hops
         /\ up[k] \in Seq(Cells) /\ Len(up[k]) \in Nat
         /\ Returned(k) \in Nat /\ Returned(k - 1) \in Nat /\ Returned(k - 1) <= Returned(k)
         /\ Returned(k) = relay[k].revSeq + k - hops /\ relay[k].revSeq \in Nat
         /\ Run(up[k], Returned(k - 1), Returned(k), Back(k))
         /\ k \notin cut /\ Idle(k) => Returned(k - 1) + Len(up[k]) = Returned(k)
         /\ \A g \in Goroutines : k \notin cut /\ sending[k][g] # NoCell =>
              Returned(k - 1) + Len(up[k]) + 1 = Returned(k) /\ Pending(k, g)
<1>1. /\ k \in Relays /\ k \in Nat /\ k >= 1 /\ k <= hops /\ hops \in Nat /\ hops >= 1 /\ k - 1 \in 0..hops
      /\ k \in 0..hops /\ 0 \in 0..hops /\ hops \in Relays
    BY Ranges
<1>2. up[k] \in Seq(Cells) /\ Len(up[k]) \in Nat
    BY <1>1, LinkFacts
<1>3. /\ \A i, j \in 0..hops : i <= j => Returned(i) <= Returned(j)
      /\ Backward(k)
    BY <1>1 DEF CircuitInv, Returning
<1>4. recvSeq[hops] \in Nat /\ relay[k].revSeq \in Nat
    BY <1>1, RelayFields DEF CircuitInv, CircuitTypeOK
<1>5. Returned(0) \in Nat
    BY <1>4 DEF Returned
<1>6. ASSUME NEW j \in 0..hops PROVE Returned(j) \in Nat
    <2>1. CASE j = 0
        BY <1>5, <2>1
    <2>2. CASE j # 0
        <3>1. j \in Relays /\ j \in Nat
            BY <1>1, <2>2, Ranges
        <3>2. relay[j].revSeq \in Nat
            BY <3>1, RelayFields DEF CircuitInv
        <3>3. Returned(j) \in Int
            BY <1>1, <2>2, <3>1, <3>2 DEF Returned
        <3>4. Returned(0) <= Returned(j)
            BY <1>1, <1>3, <3>1
        <3> QED BY <1>5, <3>3, <3>4
    <2> QED BY <2>1, <2>2
<1>7. Returned(k - 1) <= Returned(k)
    BY <1>1, <1>3
<1>8. Returned(k) = relay[k].revSeq + k - hops
    BY <1>1 DEF Returned
<1>9. Returned(k) \in Nat /\ Returned(k - 1) \in Nat
    BY <1>1, <1>6
<1>10. /\ Run(up[k], Returned(k - 1), Returned(k), Back(k))
       /\ k \notin cut /\ Idle(k) => Returned(k - 1) + Len(up[k]) = Returned(k)
       /\ \A g \in Goroutines : k \notin cut /\ sending[k][g] # NoCell =>
              Returned(k - 1) + Len(up[k]) + 1 = Returned(k) /\ Pending(k, g)
    BY <1>3 DEF Backward
<1> QED BY <1>1, <1>2, <1>4, <1>7, <1>8, <1>9, <1>10

(* More answers are possible.                                              *)
LEMMA RunBack ==
  ASSUME Remembers, NEW k, NEW s \in Seq(Cells), NEW p \in Nat, NEW top \in Nat, NEW most \in Nat,
         Run(s, p, top, Back(k)), top <= most
  PROVE  Run(s, p, most, Back(k)')
<1>1. ASSUME NEW q \in Int, q >= p, q < top
      PROVE  Back(k)[q] \subseteq (Back(k)')[q]
    <2>1. q \in Nat
        BY <1>1
    <2> QED BY <2>1, BackKept
<1> DEFINE f == Back(k)
           g == Back(k)'
<1>2. /\ Run(s, p, top, f) /\ p \in Int /\ top \in Int /\ most \in Int
      /\ \A q \in Int : q >= p /\ q < top => f[q] \subseteq g[q]
    BY <1>1
<1> HIDE DEF f, g
<1>3. Run(s, p, most, g)
    BY <1>2, RunGrows
<1> QED BY <1>3 DEF g

(* A cell that waits to be written stays what it is.                       *)
LEMMA PendingKept ==
  ASSUME Remembers, NEW k, NEW g \in Goroutines, Pending(k, g), sending'[k] = sending[k],
         Returned(k)' = Returned(k), Returned(k) \in Nat, Returned(k) >= 1
  PROVE  Pending(k, g)'
<1>1. Returned(k) - 1 \in Nat /\ hops' = hops
    BY DEF Remembers
<1>2. Back(k)[Returned(k) - 1] \subseteq (Back(k)')[Returned(k) - 1]
    BY <1>1, BackKept
<1> QED BY <1>1, <1>2 DEF Pending

(* A link on which nothing happens, or that is lost.                       *)
LEMMA BackwardSame ==
  ASSUME CircuitInv, registered, Remembers, NEW k \in 1..hops,
         up'[k] = up[k] \/ (k \in cut' /\ \E n \in 0..Len(up[k]) : up'[k] = SubSeq(up[k], 1, n)),
         sending'[k] = sending[k], Returned(k)' = Returned(k), Returned(k - 1)' = Returned(k - 1),
         cut \subseteq cut'
  PROVE  Backward(k)'
<1>1. /\ up[k] \in Seq(Cells) /\ Len(up[k]) \in Nat
      /\ Returned(k) \in Nat /\ Returned(k - 1) \in Nat /\ Returned(k - 1) <= Returned(k)
      /\ Run(up[k], Returned(k - 1), Returned(k), Back(k))
      /\ k \notin cut /\ Idle(k) => Returned(k - 1) + Len(up[k]) = Returned(k)
      /\ \A g \in Goroutines : k \notin cut /\ sending[k][g] # NoCell =>
              Returned(k - 1) + Len(up[k]) + 1 = Returned(k) /\ Pending(k, g)
    BY ReturnedFacts
<1>2. Run(up[k], Returned(k - 1), Returned(k), Back(k)')
    BY <1>1, RunBack
<1>3. Idle(k)' => Idle(k)
    BY DEF Idle
<1>4. CASE up'[k] = up[k]
    <2>1. ASSUME NEW g \in Goroutines, k \notin cut, sending[k][g] # NoCell
          PROVE  Returned(k - 1) + Len(up[k]) + 1 = Returned(k) /\ Pending(k, g)'
        <3>1. Returned(k - 1) + Len(up[k]) + 1 = Returned(k) /\ Pending(k, g)
            BY <1>1, <2>1
        <3>2. Returned(k) >= 1
            BY <1>1, <3>1
        <3> QED BY <1>1, <3>1, <3>2, PendingKept
    <2> QED BY <1>1, <1>2, <1>3, <1>4, <2>1 DEF Backward
<1>5. ASSUME k \in cut', NEW n \in 0..Len(up[k]), up'[k] = SubSeq(up[k], 1, n)
      PROVE  Backward(k)'
    <2>1. Run(up'[k], Returned(k - 1), Returned(k), Back(k)')
        BY <1>1, <1>2, <1>5, RunPrefix
    <2> QED BY <1>5, <2>1 DEF Backward
<1> QED BY <1>4, <1>5

(* The node before has read from the link.                                 *)
LEMMA BackwardTaken ==
  ASSUME CircuitInv, registered, Remembers, NEW k \in 1..hops, up[k] # << >>, Head(up[k]).kind = "relay",
         up'[k] = Tail(up[k]), sending'[k] = sending[k], cut' = cut,
         Returned(k)' = Returned(k), Returned(k - 1)' = Returned(k - 1) + 1
  PROVE  Backward(k)'
<1>1. /\ up[k] \in Seq(Cells) /\ Len(up[k]) \in Nat
      /\ Returned(k) \in Nat /\ Returned(k - 1) \in Nat /\ Returned(k - 1) <= Returned(k)
      /\ Run(up[k], Returned(k - 1), Returned(k), Back(k))
      /\ k \notin cut /\ Idle(k) => Returned(k - 1) + Len(up[k]) = Returned(k)
      /\ \A g \in Goroutines : k \notin cut /\ sending[k][g] # NoCell =>
              Returned(k - 1) + Len(up[k]) + 1 = Returned(k) /\ Pending(k, g)
    BY ReturnedFacts
<1>2. /\ up'[k] \in Seq(Cells) /\ Len(up'[k]) = Len(up[k]) - 1
      /\ Run(up'[k], Returned(k - 1) + 1, Returned(k), Back(k))
    BY <1>1, RunTail, LinkTail
<1>3. Run(up'[k], Returned(k - 1) + 1, Returned(k), Back(k)')
    <2>1. Returned(k - 1) + 1 \in Nat /\ Returned(k) <= Returned(k)
        BY <1>1
    <2> QED BY <1>1, <1>2, <2>1, RunBack
<1>4. Idle(k)' => Idle(k)
    BY DEF Idle
<1>5. k \notin cut /\ Idle(k)' => Returned(k - 1) + 1 + Len(up'[k]) = Returned(k)
    <2>1. SUFFICES ASSUME k \notin cut, Idle(k)
                   PROVE  Returned(k - 1) + 1 + Len(up'[k]) = Returned(k)
        BY <1>4
    <2>2. Returned(k - 1) + Len(up[k]) = Returned(k)
        BY <1>1, <2>1
    <2>3. Returned(k - 1) + 1 + (Len(up[k]) - 1) = Returned(k - 1) + Len(up[k])
        <3>1. Returned(k - 1) \in Nat /\ Len(up[k]) \in Nat
            BY <1>1
        <3> DEFINE a == Returned(k - 1)
                   b == Len(up[k])
        <3>2. a \in Nat /\ b \in Nat
            BY <3>1
        <3> HIDE DEF a, b
        <3>3. a + 1 + (b - 1) = a + b
            BY <3>2
        <3> QED BY <3>3 DEF a, b
    <2> QED BY <1>2, <2>2, <2>3
<1>6. ASSUME NEW g \in Goroutines, k \notin cut, sending[k][g] # NoCell
      PROVE  Returned(k - 1) + 1 + Len(up'[k]) + 1 = Returned(k) /\ Pending(k, g)'
    <2>1. Returned(k - 1) + Len(up[k]) + 1 = Returned(k) /\ Pending(k, g)
        BY <1>1, <1>6
    <2>2. Returned(k) >= 1 /\ Returned(k - 1) + 1 + Len(up'[k]) + 1 = Returned(k)
        BY <1>1, <1>2, <2>1
    <2> QED BY <1>1, <2>1, <2>2, PendingKept
<1> QED BY <1>3, <1>5, <1>6 DEF Backward

(* A cell is numbered for the link.                                        *)
LEMMA BackwardNumbered ==
  ASSUME CircuitInv, registered, Remembers, NEW k \in 1..hops, NEW g \in Goroutines,
         up'[k] = up[k], cut' = cut, k \notin cut => Idle(k),
         sending'[k][g] # NoCell, \A h \in Goroutines : h # g => sending'[k][h] = sending[k][h],
         Returned(k)' = Returned(k) + 1, Returned(k - 1)' = Returned(k - 1),
         g = "out" <=> k < hops,
         \/ sending'[k][g] \in (Back(k)')[Returned(k)]
         \/ /\ g = "in" /\ k = Hops /\ Returned(k) = 0
            /\ sending'[k][g].cmd = "openOK" /\ sending'[k][g].layers = Onion(0, 1)
  PROVE  Backward(k)'
<1>1. /\ up[k] \in Seq(Cells) /\ Len(up[k]) \in Nat
      /\ Returned(k) \in Nat /\ Returned(k - 1) \in Nat
      /\ Run(up[k], Returned(k - 1), Returned(k), Back(k))
      /\ k \notin cut => Returned(k - 1) + Len(up[k]) = Returned(k)
    BY ReturnedFacts
<1>2. Run(up'[k], Returned(k - 1)', Returned(k)', Back(k)')
    <2>1. Returned(k) + 1 \in Nat /\ Returned(k) <= Returned(k) + 1
        BY <1>1
    <2> QED BY <1>1, <2>1, RunBack
<1>3. ~Idle(k)'
    BY DEF Idle
<1>4. Returned(k)' - 1 = Returned(k) /\ (Returned(k) = 0 => Returned(k)' = 1)
    BY <1>1
<1>5. hops' = hops
    BY DEF Remembers
<1>6. ASSUME NEW h \in Goroutines, k \notin cut, sending'[k][h] # NoCell
      PROVE  Returned(k - 1) + Len(up[k]) + 1 = Returned(k) + 1 /\ Pending(k, h)'
    <2>1. \A h2 \in Goroutines : h2 # g => sending'[k][h2] = NoCell
        BY <1>6 DEF Idle
    <2>2. h = g
        BY <1>6, <2>1
    <2>3. Pending(k, g)'
        BY <1>4, <1>5, <2>1 DEF Pending
    <2> QED BY <1>1, <1>6, <2>2, <2>3
<1> QED BY <1>2, <1>3, <1>6 DEF Backward

(* A numbered cell is written to the link.                                 *)
LEMMA BackwardWritten ==
  ASSUME CircuitInv, registered, Remembers, NEW k \in 1..hops, NEW g \in Goroutines,
         sending[k][g] # NoCell, sending'[k][g] = NoCell,
         \A h \in Goroutines : h # g => sending'[k][h] = sending[k][h],
         up'[k] = (IF k \notin cut THEN Append(up[k], sending[k][g]) ELSE up[k]), cut' = cut,
         Returned(k)' = Returned(k), Returned(k - 1)' = Returned(k - 1),
         k \notin cut => sending[k][g] \in (Back(k)')[Returned(k) - 1]
  PROVE  Backward(k)'
<1>1. /\ k \in Relays /\ up[k] \in Seq(Cells) /\ Len(up[k]) \in Nat
      /\ Returned(k) \in Nat /\ Returned(k - 1) \in Nat
      /\ Run(up[k], Returned(k - 1), Returned(k), Back(k))
      /\ k \notin cut => Returned(k - 1) + Len(up[k]) + 1 = Returned(k) /\ Pending(k, g)
    BY ReturnedFacts
<1>2. Run(up[k], Returned(k - 1), Returned(k), Back(k)')
    <2>1. Returned(k) <= Returned(k)
        BY <1>1
    <2> QED BY <1>1, <2>1, RunBack
<1>3. CASE k \in cut
    BY <1>2, <1>3 DEF Backward
<1>4. CASE k \notin cut
    <2> DEFINE c == sending[k][g]
    <2>1. c \in Cells
        <3>1. c \in Cells \union {NoCell}
            BY <1>1, RelayFields DEF CircuitInv
        <3> QED BY <3>1
    <2>2. up'[k] = Append(up[k], c)
        BY <1>4
    <2>3. Returned(k - 1) + Len(up[k]) = Returned(k) - 1
        BY <1>1, <1>4
    <2>4. c \in (Back(k)')[Returned(k) - 1]
        BY <1>4
    <2> HIDE DEF c
    <2>5. Run(up'[k], Returned(k - 1), Returned(k), Back(k)')
        <3>1. c \in (Back(k)')[Returned(k - 1) + Len(up[k])] /\ Returned(k - 1) + Len(up[k]) + 1 <= Returned(k)
            BY <1>1, <2>3, <2>4
        <3>2. Returned(k - 1) \in Int /\ Returned(k) \in Int
            BY <1>1
        <3> QED BY <1>1, <1>2, <2>1, <2>2, <3>1, <3>2, RunAppend
    <2>6. Len(up'[k]) = Len(up[k]) + 1
        BY <1>1, <2>1, <2>2, LinkAppend
    <2>7. Returned(k - 1) + Len(up'[k]) = Returned(k)
        BY <1>1, <2>3, <2>6
    <2>8. \A h \in Goroutines : sending'[k][h] = NoCell
        BY <1>1, <1>4 DEF Pending
    <2> QED BY <2>5, <2>7, <2>8 DEF Backward
<1> QED BY <1>3, <1>4

(* Reverse cells of an open circuit with hops.                             *)
Coming ==
  /\ \A i, k \in 0..hops : i <= k => Returned(i) <= Returned(k)
  /\ \A k \in 1..hops : Backward(k)

(* What came back to relay k changes only with its own counter, or the     *)
(* client's.                                                               *)
LEMMA ReturnedKept ==
  ASSUME hops' = hops, recvSeq' = recvSeq, NEW k, k # 0 => relay'[k].revSeq = relay[k].revSeq
  PROVE  Returned(k)' = Returned(k)
BY DEF Returned

(* What came back is a number.                                             *)
LEMMA ReturnedNumbers ==
  ASSUME CircuitInv, registered, hops >= 1, NEW k \in 0..hops
  PROVE  Returned(k) \in Nat
<1>1. hops \in Relays /\ (k # 0 => k \in 1..hops)
    BY Ranges
<1>2. CASE k = 0
    <2>1. recvSeq[hops] \in Nat
        BY <1>1 DEF CircuitInv, CircuitTypeOK
    <2> QED BY <1>2, <2>1 DEF Returned
<1>3. CASE k # 0
    BY <1>1, <1>3, ReturnedFacts
<1> QED BY <1>2, <1>3

(* The reverse cells with a number.                                        *)
LEMMA BackFields ==
  ASSUME NEW k, NEW q \in Nat, NEW c, c \in Back(k)[q]
  PROVE  c \in Cells /\ c.kind = "relay" /\ c.layers = Onion(q, hops - k + 1) /\ Answer(c.cmd, c.n, q)
BY DEF Back

(* A cell with the layers and the answer of its number is the expected     *)
(* one.                                                                    *)
LEMMA BackNext ==
  ASSUME NEW k, NEW q \in Nat, NEW c \in Cells, NEW cmd, NEW n, c.kind = "relay", c.cmd = cmd, c.n = n,
         hops' = hops, c.layers = Onion(q, hops - k + 1), Answer(cmd, n, q)'
  PROVE  c \in (Back(k)')[q]
BY DEF Back

(* Nothing is numbered, read or written.                                   *)
LEMMA ComingSame ==
  ASSUME CircuitInv, registered, hops >= 1, Remembers, recvSeq' = recvSeq, cut \subseteq cut',
         \A k \in Relays : relay'[k].revSeq = relay[k].revSeq,
         \A k \in 1..hops :
            /\ up'[k] = up[k] \/ (k \in cut' /\ \E n \in 0..Len(up[k]) : up'[k] = SubSeq(up[k], 1, n))
            /\ sending'[k] = sending[k]
  PROVE  Coming'
<1>1. hops' = hops /\ hops \in Nat /\ \A k \in 0..hops : k # 0 => k \in Relays
    BY Ranges DEF Remembers
<1>2. ASSUME NEW k \in 0..hops PROVE Returned(k)' = Returned(k)
    BY <1>1, ReturnedKept
<1>3. ASSUME NEW i \in 0..hops, NEW k \in 0..hops, i <= k
      PROVE  Returned(i)' <= Returned(k)'
    <2>1. Returned(i) <= Returned(k)
        BY <1>3 DEF CircuitInv, Returning
    <2> QED BY <1>2, <2>1
<1>4. ASSUME NEW k \in 1..hops PROVE Backward(k)'
    <2>1. k \in 0..hops /\ k - 1 \in 0..hops
        BY <1>1
    <2>2. Returned(k)' = Returned(k) /\ Returned(k - 1)' = Returned(k - 1)
        BY <1>2, <2>1
    <2> QED BY <2>2, BackwardSame
<1> QED BY <1>1, <1>3, <1>4 DEF Coming

(* A goroutine of the last hop numbers its answer.                         *)
LEMMA ComingNumbered ==
  ASSUME CircuitInv, registered, hops >= 1, Remembers, recvSeq' = recvSeq, cut' = cut, up' = up,
         NEW g \in Goroutines, g # "out", NEW cmd \in Commands, NEW n \in Nat,
         NEW q \in Nat, relay[hops].revSeq = q,
         Puts(hops, g, Relay(<<q>> \o << >>, cmd, n)), relay'[hops].revSeq = q + 1,
         \A k \in Relays : k # hops => relay'[k].revSeq = relay[k].revSeq,
         Idle(hops),
         \/ Answer(cmd, n, q)'
         \/ g = "in" /\ hops = Hops /\ q = 0 /\ cmd = "openOK"
  PROVE  Coming'
<1>1. /\ hops' = hops /\ hops \in Nat /\ hops \in Relays /\ hops \in 1..hops /\ ~(hops < hops)
      /\ \A k \in 0..hops : k # 0 => k \in Relays /\ k \in 1..hops
    BY Ranges DEF Remembers
<1>2. Returned(hops) = q /\ Returned(hops)' = q + 1
    <2>1. hops # 0
        BY <1>1
    <2>2. Returned(hops) = q + hops - hops /\ Returned(hops)' = (q + 1) + hops - hops
        BY <1>1, <2>1 DEF Returned
    <2> QED BY <1>1, <2>2
<1>3. ASSUME NEW k \in 0..hops, k # hops PROVE Returned(k)' = Returned(k)
    <2>1. k # 0 => relay'[k].revSeq = relay[k].revSeq
        BY <1>1, <1>3
    <2> QED BY <1>1, <2>1, ReturnedKept
<1>4. ASSUME NEW i \in 0..hops, NEW k \in 0..hops, i <= k
      PROVE  Returned(i)' <= Returned(k)'
    <2>1. Returned(i) <= Returned(k)
        BY <1>4 DEF CircuitInv, Returning
    <2>2. CASE k # hops
        <3>1. i # hops
            BY <1>1, <1>4, <2>2
        <3> QED BY <1>3, <2>1, <2>2, <3>1
    <2>3. CASE k = hops /\ i = hops
        <3>1. Returned(k)' = q + 1 /\ Returned(i)' = q + 1
            BY <1>1, <1>2, <2>3
        <3> QED BY <3>1
    <2>4. CASE k = hops /\ i # hops
        <3>1. Returned(i)' = Returned(i) /\ Returned(i) <= q
            BY <1>2, <1>3, <2>1, <2>4
        <3>2. Returned(i) \in Nat
            BY ReturnedNumbers
        <3>3. Returned(k)' = q + 1
            BY <1>1, <1>2, <2>4
        <3> QED BY <3>1, <3>2, <3>3
    <2> QED BY <2>2, <2>3, <2>4
<1>5. ASSUME NEW k \in 1..hops PROVE Backward(k)'
    <2>1. k \in 0..hops /\ k - 1 \in 0..hops /\ k - 1 # hops /\ k \in Relays
        BY <1>1
    <2>2. Returned(k - 1)' = Returned(k - 1)
        BY <1>3, <2>1
    <2>3. CASE k # hops
        <3>1. Returned(k)' = Returned(k)
            BY <1>3, <2>1, <2>3
        <3>2. sending'[k] = sending[k] /\ up'[k] = up[k]
            BY <2>1, <2>3 DEF Puts
        <3> QED BY <2>2, <3>1, <3>2, BackwardSame
    <2>4. CASE k = hops
        <3> DEFINE c == Relay(<<q>> \o << >>, cmd, n)
        <3>1. sending'[k][g] = c /\ \A h \in Goroutines : h # g => sending'[k][h] = sending[k][h]
            BY <2>4 DEF Puts
        <3>2. <<q>> \o << >> = Onion(q, 1) /\ Onion(q, 1) \in Seq(Nat)
            BY OnionOne, OnionSeq
        <3>3. c \in Cells /\ c.kind = "relay" /\ c.layers = Onion(q, 1) /\ c.cmd = cmd /\ c.n = n
            BY <3>2, MadeCells
        <3> HIDE DEF c
        <3>4. c # NoCell
            BY <3>3, NoCellAssumption
        <3>5. \/ c \in (Back(k)')[Returned(k)]
              \/ /\ g = "in" /\ k = Hops /\ Returned(k) = 0
                 /\ c.cmd = "openOK" /\ c.layers = Onion(0, 1)
            <4>1. CASE Answer(cmd, n, q)'
                <5>1. c.layers = Onion(q, hops - k + 1)
                    <6>1. hops - k + 1 = 1
                        BY <1>1, <2>4
                    <6> QED BY <3>3, <6>1
                <5>2. c \in (Back(k)')[q]
                    BY <1>1, <3>3, <4>1, <5>1, BackNext
                <5> QED BY <1>2, <2>4, <5>2
            <4>2. CASE g = "in" /\ hops = Hops /\ q = 0 /\ cmd = "openOK"
                BY <1>2, <2>4, <3>3, <4>2
            <4> QED BY <4>1, <4>2
        <3>6. Returned(k)' = Returned(k) + 1 /\ Idle(k) /\ up'[k] = up[k] /\ ~(k < hops)
            BY <1>1, <1>2, <2>4
        <3> QED BY <2>2, <3>1, <3>4, <3>5, <3>6, BackwardNumbered
    <2> QED BY <2>3, <2>4
<1> QED BY <1>1, <1>4, <1>5 DEF Coming

(* A relay before the last hop reads a reverse cell and numbers it.        *)
LEMMA ComingPassed ==
  ASSUME CircuitInv, registered, hops >= 1, Remembers, recvSeq' = recvSeq, cut' = cut,
         NEW i \in Relays, handleCircuitReverse(i)
  PROVE  Coming'
<1> DEFINE j == i + 1
           cell == Head(up[j])
<1>1. /\ i < Hops /\ j \in Relays /\ j \in 1..hops /\ i \in 1..hops
      /\ up[j] # << >> /\ Head(up[j]).kind = "relay" /\ Head(up[j]) \in Cells
      /\ sending[i]["out"] = NoCell
      /\ \A k \in Relays : up'[k] = IF k = j THEN Tail(up[k]) ELSE up[k]
      /\ IF relay[i].relayOut /\ relay[i].state = "open"
         THEN /\ Counts(i, relay[i].fwdSeq, relay[i].revSeq + 1)
              /\ sending'[i]["out"] = Relay(<<relay[i].revSeq>> \o Head(up[j]).layers,
                                            Head(up[j]).cmd, Head(up[j]).n)
              /\ \A h \in Goroutines : h # "out" => sending'[i][h] = sending[i][h]
              /\ \A k \in Relays : k # i => sending'[k] = sending[k]
         ELSE relay' = relay /\ sending' = sending
    BY ReverseEffect
<1>2. /\ hops' = hops /\ hops \in Nat /\ i \in Nat /\ i >= 1 /\ i < hops /\ j - 1 = i /\ j # i /\ i # 0
      /\ \A k \in 0..hops : k # 0 => k \in Relays /\ k \in 1..hops
    <2>1. hops \in Nat /\ i \in Nat /\ i >= 1 /\ j <= hops
        BY <1>1, Ranges
    <2> QED BY <2>1, Ranges DEF Remembers
<1>3. relay[i].relayOut /\ relay[i].state = "open"
    <2>1. relay[i].state # "none" /\ relay[i].extension = "linked"
        BY <1>1, <1>2, HopsMade
    <2>2. Grown(i) /\ relay[i].state \in {"none", "open", "closed"}
        BY RelayFields DEF CircuitInv
    <2>3. relay[i].state # "closed"
        BY <1>1, <2>2 DEF Grown
    <2> QED BY <2>1, <2>2, <2>3 DEF Grown
<1>4. /\ relay'[i].revSeq = relay[i].revSeq + 1
      /\ \A k \in Relays : k # i => relay'[k].revSeq = relay[k].revSeq
      /\ Puts(i, "out", Relay(<<relay[i].revSeq>> \o cell.layers, cell.cmd, cell.n))
    BY <1>1, <1>3 DEF Counts, Becomes, Puts
<1>5. /\ Returned(i) \in Nat /\ Returned(i) = relay[i].revSeq + i - hops /\ relay[i].revSeq \in Nat
      /\ i \in 0..hops
    BY <1>1, <1>2, ReturnedFacts
<1>6. Returned(i)' = Returned(i) + 1
    <2>1. Returned(i)' = (relay[i].revSeq + 1) + i - hops
        BY <1>2, <1>4 DEF Returned
    <2> QED BY <1>2, <1>5, <2>1
<1>7. ASSUME NEW k \in 0..hops, k # i PROVE Returned(k)' = Returned(k)
    <2>1. k # 0 => relay'[k].revSeq = relay[k].revSeq
        BY <1>2, <1>4, <1>7
    <2> QED BY <1>2, <2>1, ReturnedKept
<1>8. cell \in Back(j)[Returned(i)] /\ Returned(i) + 1 <= Returned(j)
    <2>1. up[j] \in Seq(Cells) /\ Returned(j) \in Nat /\ Run(up[j], Returned(j - 1), Returned(j), Back(j))
        BY <1>1, ReturnedFacts
    <2>2. Returned(i) \in Int /\ Returned(j) \in Int
        BY <1>5, <2>1
    <2> QED BY <1>1, <1>2, <2>1, <2>2, RunTail
<1>9. ASSUME NEW k \in 0..hops PROVE Returned(k) \in Int
    BY <1>9, ReturnedNumbers
<1> HIDE DEF cell
<1>10. ASSUME NEW l \in 0..hops, NEW k \in 0..hops, l <= k
       PROVE  Returned(l)' <= Returned(k)'
    <2>1. Returned(l) <= Returned(k) /\ Returned(l) \in Int /\ Returned(k) \in Int
        BY <1>9, <1>10 DEF CircuitInv, Returning
    <2>2. CASE l = i /\ k # i
        <3>1. j <= k /\ j \in 0..hops
            BY <1>1, <1>2, <1>10, <2>2
        <3>2. Returned(j) <= Returned(k) /\ Returned(j) \in Int
            BY <1>9, <3>1 DEF CircuitInv, Returning
        <3>3. Returned(l)' = Returned(i) + 1 /\ Returned(k)' = Returned(k)
            BY <1>6, <1>7, <2>2
        <3> QED BY <1>5, <1>8, <2>1, <3>2, <3>3
    <2>3. CASE l # i /\ k = i
        <3>1. Returned(k)' = Returned(k) + 1 /\ Returned(l)' = Returned(l)
            BY <1>6, <1>7, <2>3
        <3> QED BY <2>1, <3>1
    <2>4. CASE l = i /\ k = i
        BY <1>5, <1>6, <2>4
    <2>5. CASE l # i /\ k # i
        BY <1>7, <2>1, <2>5
    <2> QED BY <2>2, <2>3, <2>4, <2>5
<1>11. ASSUME NEW k \in 1..hops PROVE Backward(k)'
    <2>1. k \in 0..hops /\ k - 1 \in 0..hops /\ k \in Relays /\ k \in Nat /\ k >= 1 /\ k - 1 # k
        BY <1>2
    <2>2. CASE k = j
        <3>1. Returned(k)' = Returned(k) /\ Returned(k - 1)' = Returned(k - 1) + 1
            BY <1>2, <1>6, <1>7, <2>1, <2>2
        <3>2. up'[k] = Tail(up[k]) /\ sending'[k] = sending[k]
            BY <1>1, <1>2, <1>4, <2>1, <2>2 DEF Puts
        <3>3. up[k] # << >> /\ Head(up[k]).kind = "relay"
            BY <1>1, <2>2
        <3> QED BY <3>1, <3>2, <3>3, BackwardTaken
    <2>3. CASE k = i
        <3>1. k - 1 # i /\ Returned(k - 1)' = Returned(k - 1) /\ Returned(k)' = Returned(k) + 1
            BY <1>6, <1>7, <2>1, <2>3
        <3>2. up'[k] = up[k]
            BY <1>1, <1>2, <2>1, <2>3
        <3> PICK q, cmd, n : q \in Nat /\ q = Returned(i) /\ cmd = cell.cmd /\ n = cell.n
            BY <1>5
        <3> DEFINE c == Relay(<<relay[i].revSeq>> \o cell.layers, cmd, n)
        <3>3. cell \in Cells /\ cell.kind = "relay" /\ cell.layers = Onion(q, hops - j + 1)
              /\ Answer(cell.cmd, cell.n, q)
            BY <1>8, BackFields
        <3>4. hops - i \in Nat /\ hops - j + 1 = hops - i /\ relay[i].revSeq = q + (hops - i)
            BY <1>2, <1>5
        <3>5. <<relay[i].revSeq>> \o cell.layers = Onion(q, hops - i + 1)
            <4>1. <<q + (hops - i)>> \o Onion(q, hops - i) = Onion(q, hops - i + 1)
                BY <3>4, OnionPut
            <4> QED BY <3>3, <3>4, <4>1
        <3>6. Onion(q, hops - i + 1) \in Seq(Nat)
            <4>1. hops - i + 1 \in Nat
                BY <1>2
            <4> QED BY <4>1, OnionSeq
        <3>7. c \in Cells /\ c.kind = "relay" /\ c.layers = Onion(q, hops - i + 1) /\ c.cmd = cmd /\ c.n = n
            <4>1. cmd \in Commands /\ n \in Nat
                BY <3>3, CellFields
            <4>2. c = Relay(Onion(q, hops - i + 1), cmd, n)
                BY <3>5
            <4> HIDE DEF c
            <4>3. "create" \in {"create", "created", "destroy"}
                OBVIOUS
            <4> QED BY <3>6, <4>1, <4>2, <4>3, MadeCells
        <3>8. Answer(cmd, n, q)'
            <4>1. Answer(cmd, n, q)
                BY <3>3
            <4> QED BY <4>1, AnswerKept
        <3> HIDE DEF c
        <3>9. c \in (Back(k)')[Returned(k)]
            <4>1. c \in (Back(k)')[q]
                BY <1>2, <2>3, <3>7, <3>8, BackNext
            <4> QED BY <2>3, <4>1
        <3>10. c # NoCell
            BY <3>7, NoCellAssumption
        <3>11. sending'[k]["out"] = c /\ \A h \in Goroutines : h # "out" => sending'[k][h] = sending[k][h]
            BY <1>4, <2>3 DEF Puts, c
        <3>12. k \notin cut => Idle(k)
            <4>1. SUFFICES ASSUME k \notin cut, NEW h \in Goroutines, sending[k][h] # NoCell
                           PROVE  FALSE
                BY DEF Idle
            <4>2. Pending(k, h)
                BY <4>1, ReturnedFacts
            <4>3. h = "out"
                BY <1>2, <2>3, <4>2 DEF Pending
            <4> QED BY <1>1, <2>3, <4>1, <4>3
        <3>13. k < hops /\ "out" \in Goroutines
            BY <1>2, <2>3 DEF Goroutines
        <3> QED BY <3>1, <3>2, <3>9, <3>10, <3>11, <3>12, <3>13, BackwardNumbered
    <2>4. CASE k # i /\ k # j
        <3>1. k - 1 # i
            BY <1>2, <2>1, <2>4
        <3>2. Returned(k)' = Returned(k) /\ Returned(k - 1)' = Returned(k - 1)
            BY <1>7, <2>1, <2>4, <3>1
        <3>3. sending'[k] = sending[k] /\ up'[k] = up[k]
            BY <1>1, <1>4, <2>1, <2>4 DEF Puts
        <3> QED BY <3>2, <3>3, BackwardSame
    <2> QED BY <2>2, <2>3, <2>4
<1> QED BY <1>2, <1>10, <1>11 DEF Coming

(* What the service has said, and that it ends, does not change.           *)
LEMMA ServiceKept ==
  ASSUME CircuitInv, RelaySide
  PROVE  /\ app \in {"ended", "closed"} => app' = app /\ answered' = answered
         /\ answered' \in Nat /\ answered' >= answered
         /\ app # "none" => app' # "none"
         /\ ~pumpReads => answered' = answered
<1>1. answered \in Nat /\ Hops \in Relays
    BY Ranges
<1>2. ASSUME UNCHANGED <<app, answered>> PROVE
         /\ app \in {"ended", "closed"} => app' = app /\ answered' = answered
         /\ answered' \in Nat /\ answered' >= answered
         /\ app # "none" => app' # "none"
         /\ answered' = answered
    BY <1>1, <1>2
<1>3. ASSUME NEW i \in Relays, NEW rest, Closes(i, rest), answered' = answered PROVE
         /\ app \in {"ended", "closed"} => app' = app /\ answered' = answered
         /\ answered' \in Nat /\ answered' >= answered
         /\ app # "none" => app' # "none"
         /\ answered' = answered
    BY <1>1, <1>3 DEF Closes
<1>4. CASE pumpReads
    <2>1. app = "open" /\ app' = app /\ answered' = answered + 1
        BY <1>4 DEF pumpReads
    <2> QED BY <1>1, <1>4, <2>1
<1>5. CASE serviceEnds
    <2>1. app = "open" /\ app' = "ended" /\ answered' = answered
        BY <1>5 DEF serviceEnds
    <2> QED BY <1>1, <2>1
<1>6. CASE pumpEnds
    BY <1>2, <1>6 DEF pumpEnds
<1>7. CASE pumpWrites
    <2>1. answered' = answered
        BY <1>7 DEF pumpWrites
    <2>2. CASE closeRelayCircuit(Hops, down)
        BY <1>1, <1>3, <2>1, <2>2, ClosesEffect
    <2>3. CASE app' = app
        BY <1>2, <2>1, <2>3
    <2> QED BY <1>7, <2>2, <2>3 DEF pumpWrites
<1>8. ASSUME NEW i \in Relays, ReaderIn(i) PROVE
         /\ app \in {"ended", "closed"} => app' = app /\ answered' = answered
         /\ answered' \in Nat /\ answered' >= answered
         /\ app # "none" => app' # "none"
         /\ answered' = answered
    <2>1. answered' = answered
        BY <1>8 DEF ReaderIn, handleCircuitCreate, forwardRejected, forwardOn, extendCircuit,
                openCircuitTarget, relayData, relayClose, destroyCircuitByKey, writeReverse,
                writeOpenOK, exitVars
    <2>2. CASE handleCircuitCreate(i) \/ forwardOn(i) \/ extendCircuit(i) \/ writeReverse(i, "in")
        <3>1. app' = app
            BY <2>2 DEF handleCircuitCreate, forwardOn, extendCircuit, writeReverse, exitVars
        <3> QED BY <1>2, <2>1, <3>1
    <2>3. CASE forwardRejected(i)
        BY <1>2, <2>1, <2>3, RejectedEffect
    <2>4. CASE openCircuitTarget(i)
        <3>1. app = "none"
            BY <2>4, OpenEffect
        <3> QED BY <1>1, <2>1, <3>1
    <2>5. CASE relayData(i)
        BY <1>2, <1>3, <2>1, <2>5, DataEffect
    <2>6. CASE relayClose(i)
        BY <1>3, <2>1, <2>6, CloseCmdEffect
    <2>7. CASE destroyCircuitByKey(i)
        <3>1. app' = app \/ Closes(i, Tail(down[i]))
            BY <2>7, DestroyEffect
        <3> QED BY <1>2, <1>3, <2>1, <3>1
    <2>8. CASE writeOpenOK(i)
        <3>1. app' = app \/ closeRelayCircuit(i, down)
            BY <2>8 DEF writeOpenOK
        <3>2. app' = app \/ Closes(i, down[i])
            BY <3>1, ClosesEffect
        <3> QED BY <1>2, <1>3, <2>1, <3>2
    <2> QED BY <1>8, <2>2, <2>3, <2>4, <2>5, <2>6, <2>7, <2>8 DEF ReaderIn
<1>9. ASSUME NEW i \in Relays, ReaderOut(i) \/ Extension(i) \/ extendTimesOut(i) \/ Cut(i)
      PROVE  UNCHANGED <<app, answered>>
    BY <1>9 DEF ReaderOut, Extension, extendAnswered, extendLinked, writeReverse,
       extendTimesOut, Cut,
                handleCircuitCreated, handleCircuitReverse, exitVars
<1> QED BY <1>2, <1>4, <1>5, <1>6, <1>7, <1>8, <1>9 DEF RelaySide

(* A hop that is linked stays linked.                                      *)
LEMMA LinkedKept ==
  ASSUME CircuitInv, RelaySide, NEW k \in Relays, relay[k].extension = "linked"
  PROVE  relay'[k].extension = "linked"
<1>1. CASE Quiet
    BY <1>1 DEF Quiet, Steady
<1>2. ASSUME NEW i \in Relays, Kind(i) PROVE relay'[k].extension = "linked"
    <2>1. ASSUME NEW from, NEW to, Extends(i, from, to), from # "linked"
          PROVE  relay'[k].extension = "linked"
        BY <2>1 DEF Extends, Steady
    <2>2. ASSUME NEW rest, Finishes(i, rest) PROVE relay'[k].extension = "linked"
        BY <2>2 DEF Finishes, Closes, Becomes
    <2>3. Creates(i) \/ Drops(i) \/ Cuts(i) => relay'[k].extension = "linked"
        BY DEF Creates, Drops, Cuts, Steady
    <2>4. Passes(i) \/ Consumes(i) => relay'[k].extension = "linked"
        BY DEF Passes, Consumes, CountsOne, Steady
    <2>5. Asks(i) => relay'[k].extension = "linked"
        BY DEF Asks, CountsOne, Steady
    <2> QED BY <1>2, <2>1, <2>2, <2>3, <2>4, <2>5 DEF Kind
<1> QED BY <1>1, <1>2, RelayKinds

(* Relays forget nothing that was sent, and leave the client's counters    *)
(* alone.                                                                  *)
LEMMA RemembersRelay ==
  ASSUME CircuitInv, RelaySide, hops >= 1
  PROVE  Remembers /\ recvSeq' = recvSeq /\ registered' = registered
<1>1. UNCHANGED clientVars /\ (pump # "none" => pump' # "none")
    BY Elsewhere DEF RelaySide
<1>2. hops \in Relays /\ answered \in Nat
    BY Ranges
<1> QED BY <1>1, <1>2, ServiceKept, LinkedKept DEF Remembers, clientVars

(* A goroutine writes its cell.                                            *)
LEMMA ComingWritten ==
  ASSUME CircuitInv, registered, hops >= 1, Remembers, recvSeq' = recvSeq, cut' = cut,
         NEW i \in Relays, NEW g \in Goroutines, sending[i][g] # NoCell, Written(i, g),
         \A k \in Relays : relay'[k].revSeq = relay[k].revSeq,
         i \in 1..hops /\ i \notin cut => sending[i][g] \in (Back(i)')[Returned(i) - 1]
  PROVE  Coming'
<1>1. hops' = hops /\ hops \in Nat /\ \A k \in 0..hops : k # 0 => k \in Relays
    BY Ranges DEF Remembers
<1>2. ASSUME NEW k \in 0..hops PROVE Returned(k)' = Returned(k)
    BY <1>1, ReturnedKept
<1>3. ASSUME NEW l \in 0..hops, NEW k \in 0..hops, l <= k
      PROVE  Returned(l)' <= Returned(k)'
    <2>1. Returned(l) <= Returned(k)
        BY <1>3 DEF CircuitInv, Returning
    <2> QED BY <1>2, <2>1
<1>4. /\ \A k \in Relays : up'[k] = IF k = i /\ i \notin cut THEN Append(up[k], sending[i][g])
                                                              ELSE up[k]
      /\ sending'[i][g] = NoCell
      /\ \A h \in Goroutines : h # g => sending'[i][h] = sending[i][h]
      /\ \A k \in Relays : k # i => sending'[k] = sending[k]
    BY WrittenEffect DEF CircuitInv
<1>5. ASSUME NEW k \in 1..hops PROVE Backward(k)'
    <2>1. k \in 0..hops /\ k - 1 \in 0..hops /\ k \in Relays
        BY <1>1
    <2>2. Returned(k)' = Returned(k) /\ Returned(k - 1)' = Returned(k - 1)
        BY <1>2, <2>1
    <2>3. CASE k # i
        BY <1>4, <2>1, <2>2, <2>3, BackwardSame
    <2>4. CASE k = i
        <3>1. up'[k] = IF k \notin cut THEN Append(up[k], sending[k][g]) ELSE up[k]
            BY <1>4, <2>1, <2>4
        <3> QED BY <1>4, <2>2, <2>4, <3>1, BackwardWritten
    <2> QED BY <2>3, <2>4
<1> QED BY <1>1, <1>3, <1>5 DEF Coming

(* What is about to be written.                                            *)
LEMMA PendingAnswer ==
  ASSUME CircuitInv, registered, hops >= 1, Remembers, NEW i \in 1..hops, i \notin cut,
         NEW g \in Goroutines, sending[i][g] # NoCell,
         g = "in" /\ sending[i][g].cmd = "openOK" => pump' # "none"
  PROVE  sending[i][g] \in (Back(i)')[Returned(i) - 1]
<1>1. /\ Returned(i) \in Nat /\ Returned(i - 1) \in Nat /\ Len(up[i]) \in Nat /\ i \in Relays
      /\ Returned(i - 1) + Len(up[i]) + 1 = Returned(i) /\ Pending(i, g)
      /\ hops \in Nat /\ i \in Nat /\ i <= hops
    BY ReturnedFacts
<1>2. Returned(i) - 1 \in Nat
    BY <1>1
<1>3. CASE sending[i][g] \in Back(i)[Returned(i) - 1]
    BY <1>2, <1>3, BackKept
<1>4. CASE /\ g = "in" /\ i = Hops /\ Returned(i) = 1
           /\ sending[i][g].cmd = "openOK" /\ sending[i][g].layers = Onion(0, 1)
    <2>1. sending[i][g] \in Cells /\ sending[i][g].kind = "relay"
        <3>1. sending[i][g] \in Cells \union {NoCell} /\ Writers(i)
            BY <1>1, RelayFields DEF CircuitInv
        <3> QED BY <3>1 DEF Writers
    <2>2. hops = Hops /\ hops - i + 1 = 1 /\ Returned(i) - 1 = 0 /\ hops' = hops /\ Hops \in Nat
        BY <1>1, <1>4, Ranges DEF Remembers
    <2> PICK n : n = sending[i][g].n
        OBVIOUS
    <2>3. Answer("openOK", n, 0)'
        BY <1>4, <2>2 DEF Answer
    <2>4. sending[i][g] \in (Back(i)')[0]
        BY <1>4, <2>1, <2>2, <2>3, BackNext
    <2> QED BY <2>2, <2>4
<1> QED BY <1>1, <1>3, <1>4 DEF Pending

(* Before its first reverse cell, and when its pump is about to go on, the *)
(* last hop writes nothing.                                                *)
LEMMA LastIdle ==
  ASSUME CircuitInv, NEW i \in Relays,
         relay[i].revSeq = 0 \/ (i = Hops /\ pump # "none" /\ sending[i]["pump"] = NoCell)
  PROVE  Idle(i)
<1>1. Writers(i) /\ Grown(i) /\ Service /\ i \in Nat
    BY Ranges DEF CircuitInv
<1>2. CASE relay[i].revSeq = 0
    BY <1>1, <1>2 DEF Writers, Idle
<1>3. CASE i = Hops /\ pump # "none" /\ sending[i]["pump"] = NoCell
    <2>1. sending[i]["in"] = NoCell
        BY <1>1, <1>3 DEF Service
    <2>2. ~(i < Hops)
        BY <1>1, <1>3
    <2>3. sending[i]["out"] = NoCell
        BY <1>1, <2>2 DEF Writers, Goroutines
    <2>4. sending[i]["extend"] = NoCell
        BY <1>1, <2>2 DEF Writers, Grown, Goroutines
    <2> QED BY <1>3, <2>1, <2>3, <2>4 DEF Idle, Goroutines
<1> QED BY <1>2, <1>3

(* Steps of relays keep what is known of the cells still coming back.      *)
LEMMA ComingRelay ==
  ASSUME CircuitInv, registered, hops >= 1, RelaySide
  PROVE  Coming'
<1>1. /\ \A j \in Relays : j \in Nat /\ j >= 1 /\ j <= Hops
      /\ Hops \in Relays /\ Hops \in Nat /\ hops \in Relays /\ hops \in Nat /\ hops <= Hops
      /\ \A k \in 1..hops : k \in Relays
      /\ "in" \in Goroutines /\ "out" \in Goroutines /\ "extend" \in Goroutines /\ "pump" \in Goroutines
      /\ {"openError", "openOK", "extended", "data", "close"} \subseteq Commands
    BY Ranges DEF Goroutines, Commands
<1>2. Remembers /\ recvSeq' = recvSeq /\ hops' = hops
    BY RemembersRelay DEF Remembers
<1>3. ASSUME up' = up, sending' = sending, cut \subseteq cut',
             \A k \in Relays : relay'[k].revSeq = relay[k].revSeq
      PROVE  Coming'
    BY <1>2, <1>3, ComingSame
<1>4. ASSUME up' = up, sending' = sending, cut \subseteq cut', NEW i \in Relays,
             NEW st, NEW fwd, NEW rev, NEW out, NEW rout, NEW ext,
             Becomes(i, st, fwd, rev, out, rout, ext), rev = relay[i].revSeq
      PROVE  Coming'
    <2>1. \A k \in Relays : relay'[k].revSeq = relay[k].revSeq
        BY <1>4 DEF Becomes
    <2> QED BY <1>3, <1>4, <2>1
<1>5. ASSUME NEW i \in Relays, NEW g \in Goroutines, sending[i][g] # NoCell, Written(i, g), cut' = cut,
             relay' = relay \/ \E rest : Closes(i, rest),
             i \notin cut /\ g = "in" /\ sending[i][g].cmd = "openOK" => pump' # "none"
      PROVE  Coming'
    <2>1. \A k \in Relays : relay'[k].revSeq = relay[k].revSeq
        BY <1>5 DEF Closes, Becomes
    <2>2. i \in 1..hops /\ i \notin cut => sending[i][g] \in (Back(i)')[Returned(i) - 1]
        BY <1>2, <1>5, PendingAnswer
    <2> QED BY <1>2, <1>5, <2>1, <2>2, ComingWritten
<1>6. app # "none" => hops = Hops
    <2>1. app # "none" => relay[Hops].fwdSeq >= 1
        BY DEF CircuitInv, Service
    <2>2. relay[Hops].fwdSeq >= 1 => Hops <= hops
        BY <1>1 DEF CircuitInv, Grown
    <2> QED BY <1>1, <2>1, <2>2
<1>7. CASE pumpEnds
    <2>1. up' = up /\ cut' = cut /\ app' = app /\ answered' = answered
        BY <1>7 DEF pumpEnds
    <2>2. /\ app \in {"ended", "closed"} /\ pump = "running" /\ sending[Hops]["pump"] = NoCell
          /\ relay[Hops].revSeq = answered + 1 /\ answered \in Nat
        BY <1>7, PumpEndsEffect, Ranges
    <2>3. CASE relay[Hops].state = "open"
        <3>1. /\ Counts(Hops, relay[Hops].fwdSeq, relay[Hops].revSeq + 1)
              /\ Puts(Hops, "pump", Relay(<<relay[Hops].revSeq>> \o << >>, "close", 0))
            BY <1>7, <2>3, PumpEndsEffect DEF Puts
        <3> PICK q \in Nat : q = answered + 1
            BY <2>2
        <3>2. hops = Hops /\ relay[hops].revSeq = q /\ Puts(hops, "pump", Relay(<<q>> \o << >>, "close", 0))
            BY <1>6, <2>2, <3>1
        <3>3. relay'[hops].revSeq = q + 1 /\ \A k \in Relays : k # hops => relay'[k].revSeq = relay[k].revSeq
            BY <1>1, <3>1, <3>2 DEF Counts, Becomes
        <3>4. Idle(hops)
            BY <1>1, <2>2, <3>2, LastIdle
        <3>5. Answer("close", 0, q)'
            BY <1>1, <1>2, <2>1, <2>2, <3>2 DEF Answer
        <3>6. "close" \in Commands /\ 0 \in Nat
            BY <1>1
        <3> QED BY <1>1, <1>2, <2>1, <3>2, <3>3, <3>4, <3>5, <3>6, ComingNumbered
    <2>4. CASE relay[Hops].state # "open"
        BY <1>3, <1>7, <2>1, <2>4, PumpEndsEffect
    <2> QED BY <2>3, <2>4
<1>8. CASE pumpReads
    <2>1. up' = up /\ cut' = cut /\ answered' = answered + 1
        BY <1>8 DEF pumpReads
    <2>2. /\ app = "open" /\ pump = "running" /\ sending[Hops]["pump"] = NoCell
          /\ relay[Hops].revSeq = answered + 1 /\ answered \in Nat
          /\ Counts(Hops, relay[Hops].fwdSeq, relay[Hops].revSeq + 1)
          /\ Puts(Hops, "pump", Relay(<<relay[Hops].revSeq>> \o << >>, "data", answered + 1))
        BY <1>8, PumpReadsEffect, Ranges DEF Puts
    <2> PICK q \in Nat : q = answered + 1
        BY <2>2
    <2>3. hops = Hops /\ relay[hops].revSeq = q /\ Puts(hops, "pump", Relay(<<q>> \o << >>, "data", q))
        BY <1>6, <2>2
    <2>4. relay'[hops].revSeq = q + 1 /\ \A k \in Relays : k # hops => relay'[k].revSeq = relay[k].revSeq
        BY <1>1, <2>2, <2>3 DEF Counts, Becomes
    <2>5. Idle(hops)
        BY <1>1, <2>2, <2>3, LastIdle
    <2>6. Answer("data", q, q)'
        <3>1. q \in 1..answered' /\ hops' = Hops /\ ~(Hops < Hops)
            BY <1>1, <1>2, <2>1, <2>2, <2>3
        <3> QED BY <3>1 DEF Answer
    <2>7. "data" \in Commands
        BY <1>1
    <2> QED BY <1>1, <1>2, <2>1, <2>3, <2>4, <2>5, <2>6, <2>7, ComingNumbered
<1>9. CASE serviceEnds
    BY <1>3, <1>9 DEF serviceEnds
<1>10. CASE pumpWrites
    <2>1. cut' = cut /\ sending[Hops]["pump"] # NoCell /\ Written(Hops, "pump")
        BY <1>10 DEF pumpWrites
    <2>2. relay' = relay \/ closeRelayCircuit(Hops, down)
        BY <1>10 DEF pumpWrites
    <2>3. relay' = relay \/ Closes(Hops, down[Hops])
        BY <1>1, <2>2, ClosesEffect
    <2> QED BY <1>1, <1>5, <2>1, <2>3
<1>11. ASSUME NEW i \in Relays, NEW cmd, Puts(i, "in", Relay(<< 0 >> \o << >>, cmd, 0)), Counts(i, 1, 1),
              up' = up, cut' = cut, i = hops, relay[i].revSeq = 0,
              cmd = "openError" \/ (cmd = "openOK" /\ hops = Hops)
       PROVE  Coming'
    <2>1. relay'[hops].revSeq = 0 + 1 /\ \A k \in Relays : k # hops => relay'[k].revSeq = relay[k].revSeq
        BY <1>11 DEF Counts, Becomes
    <2>2. Idle(hops)
        BY <1>11, LastIdle
    <2>3. Answer(cmd, 0, 0)' \/ (hops = Hops /\ cmd = "openOK")
        BY <1>11 DEF Answer
    <2>4. cmd \in Commands /\ "in" # "out" /\ 0 \in Nat
        BY <1>1, <1>11
    <2>5. Puts(hops, "in", Relay(<< 0 >> \o << >>, cmd, 0)) /\ relay[hops].revSeq = 0
        BY <1>11
    <2> QED BY <1>1, <1>2, <1>11, <2>1, <2>2, <2>3, <2>4, <2>5, ComingNumbered
<1>12. ASSUME NEW i \in Relays, ReaderIn(i) PROVE Coming'
    <2>1. cut' = cut
        BY <1>12 DEF ReaderIn, handleCircuitCreate, forwardRejected, forwardOn, extendCircuit,
                openCircuitTarget, relayData, relayClose, destroyCircuitByKey, writeReverse,
                writeOpenOK
    <2>2. CASE handleCircuitCreate(i)
        <3>1. /\ Becomes(i, "open", relay[i].fwdSeq, relay[i].revSeq, relay[i].outgoing,
                         relay[i].relayOut, relay[i].extension)
              /\ \A k \in Relays : up'[k] = IF k = i /\ i \notin cut THEN Append(up[k], Control("created"))
                                                                     ELSE up[k]
              /\ i > hops
            BY <2>2, CreateEffect
        <3>2. sending' = sending
            BY <2>2 DEF handleCircuitCreate
        <3>3. \A k \in 1..hops : k # i
            BY <1>1, <3>1
        <3>4. \A k \in 1..hops : up'[k] = up[k] /\ sending'[k] = sending[k]
            BY <1>1, <3>1, <3>2, <3>3
        <3>5. \A k \in Relays : relay'[k].revSeq = relay[k].revSeq
            BY <3>1 DEF Becomes
        <3> QED BY <1>2, <2>1, <3>4, <3>5, ComingSame
    <2>3. CASE forwardRejected(i)
        <3>1. up' = up /\ sending' = sending
            BY <2>3 DEF forwardRejected
        <3> QED BY <1>3, <2>1, <2>3, <3>1, RejectedEffect
    <2>4. CASE forwardOn(i)
        <3>1. up' = up /\ sending' = sending
            BY <2>4 DEF forwardOn
        <3> QED BY <1>4, <2>1, <2>4, <3>1, ForwardOnEffect DEF Counts
    <2>5. CASE extendCircuit(i)
        <3>1. up' = up /\ i = hops /\ relay[i].revSeq = 0
            BY <2>5, ExtendEffect DEF extendCircuit
        <3>2. CASE Counts(i, 1, 1) /\ Puts(i, "in", Relay(<< 0 >> \o << >>, "openError", 0))
            BY <1>11, <2>1, <3>1, <3>2
        <3>3. CASE /\ Becomes(i, relay[i].state, 1, 0, relay[i].outgoing, relay[i].relayOut, "waiting")
                   /\ sending' = sending
            BY <1>4, <2>1, <3>1, <3>3
        <3> QED BY <2>5, <3>2, <3>3, ExtendEffect DEF Puts
    <2>6. CASE openCircuitTarget(i)
        <3>1. up' = up /\ i = hops /\ hops = Hops /\ Counts(i, 1, 1) /\ relay[i].revSeq = 0
            BY <2>6, OpenEffect DEF openCircuitTarget
        <3>2. \/ Puts(i, "in", Relay(<< 0 >> \o << >>, "openError", 0))
              \/ Puts(i, "in", Relay(<< 0 >> \o << >>, "openOK", 0))
            BY <2>6, OpenEffect DEF Puts
        <3> QED BY <1>11, <2>1, <3>1, <3>2
    <2>7. CASE relayData(i)
        <3>1. up' = up /\ sending' = sending
            BY <2>7 DEF relayData
        <3> QED BY <1>4, <2>1, <2>7, <3>1, DataEffect DEF Counts, Closes
    <2>8. CASE relayClose(i)
        <3>1. up' = up /\ sending' = sending
            BY <2>8 DEF relayClose
        <3> QED BY <1>4, <2>1, <2>8, <3>1, CloseCmdEffect DEF Closes
    <2>9. CASE destroyCircuitByKey(i)
        <3>1. up' = up /\ sending' = sending
            BY <2>9 DEF destroyCircuitByKey
        <3>2. CASE relay[i].state = "open"
            BY <1>4, <2>1, <2>9, <3>1, <3>2, DestroyEffect DEF Closes
        <3>3. CASE relay[i].state # "open"
            BY <1>3, <2>1, <2>9, <3>1, <3>3, DestroyEffect
        <3> QED BY <3>2, <3>3
    <2>10. CASE writeReverse(i, "in")
        <3>1. sending[i]["in"] # NoCell /\ Written(i, "in") /\ relay' = relay /\ sending[i]["in"].cmd # "openOK"
            BY <2>10 DEF writeReverse
        <3> QED BY <1>1, <1>5, <2>1, <3>1
    <2>11. CASE writeOpenOK(i)
        <3>1. sending[i]["in"] # NoCell /\ Written(i, "in")
            BY <2>11 DEF writeOpenOK
        <3>2. \/ pump' = "running" /\ relay' = relay
              \/ i \in cut /\ closeRelayCircuit(i, down)
            BY <2>11 DEF writeOpenOK
        <3>3. closeRelayCircuit(i, down) => Closes(i, down[i])
            BY ClosesEffect
        <3> QED BY <1>1, <1>5, <2>1, <3>1, <3>2, <3>3
    <2> QED BY <1>12, <2>2, <2>3, <2>4, <2>5, <2>6, <2>7, <2>8, <2>9, <2>10, <2>11 DEF ReaderIn
<1>13. ASSUME NEW i \in Relays, ReaderOut(i) PROVE Coming'
    <2>1. cut' = cut
        BY <1>13 DEF ReaderOut, handleCircuitCreated, handleCircuitReverse, writeReverse
    <2>2. CASE handleCircuitCreated(i)
        <3>1. sending' = sending
            BY <2>2 DEF handleCircuitCreated
        <3>2. /\ i + 1 \in Relays /\ up[i + 1] # << >> /\ Head(up[i + 1]).kind = "created"
              /\ \A k \in Relays : up'[k] = IF k = i + 1 THEN << >> ELSE up[k]
            BY <2>2, CreatedEffect
        <3>3. Holds(up[i + 1], "created")
            <4>1. up[i + 1] \in Seq(Cells)
                BY <3>2, LinkFacts
            <4> QED BY <3>2, <4>1, HoldsTail
        <3>4. \A k \in 1..hops : k # i + 1
            BY <3>3, HopsMade
        <3>5. \A k \in 1..hops : up'[k] = up[k] /\ sending'[k] = sending[k]
            BY <1>1, <3>1, <3>2, <3>4
        <3>6. \A k \in Relays : relay'[k].revSeq = relay[k].revSeq
            BY <2>2, CreatedEffect DEF Becomes
        <3> QED BY <1>2, <2>1, <3>5, <3>6, ComingSame
    <2>3. CASE handleCircuitReverse(i)
        BY <1>2, <2>1, <2>3, ComingPassed
    <2>4. CASE writeReverse(i, "out")
        <3>1. sending[i]["out"] # NoCell /\ Written(i, "out") /\ relay' = relay
            BY <2>4 DEF writeReverse
        <3> QED BY <1>1, <1>5, <2>1, <3>1
    <2> QED BY <1>13, <2>2, <2>3, <2>4 DEF ReaderOut
<1>14. ASSUME NEW i \in Relays, NEW cmd, NEW rout, NEW ext, LastWord(i, cmd, rout, ext),
              up' = up, cut' = cut, cmd = "openError" \/ (cmd = "extended" /\ ext = "linked")
       PROVE  Coming'
    <2>1. relay[i].revSeq = 0 /\ i = hops /\ i < Hops
        BY <1>14 DEF LastWord
    <2>2. CASE relay[i].state = "open"
        <3>1. /\ Becomes(i, relay[i].state, relay[i].fwdSeq, 1, relay[i].outgoing, rout, ext)
              /\ Puts(i, "extend", Relay(<< 0 >> \o << >>, cmd, 0))
            BY <1>14, <2>2 DEF LastWord, Puts
        <3>2. relay'[hops].revSeq = 0 + 1 /\ relay'[hops].extension = ext
              /\ \A k \in Relays : k # hops => relay'[k].revSeq = relay[k].revSeq
            BY <2>1, <3>1 DEF Becomes
        <3>3. Idle(hops)
            BY <1>1, <2>1, LastIdle
        <3>4. Answer(cmd, 0, 0)'
            BY <1>2, <1>14, <2>1, <3>2 DEF Answer
        <3>5. cmd \in Commands /\ "extend" # "out" /\ 0 \in Nat
            BY <1>1, <1>14
        <3>6. Puts(hops, "extend", Relay(<< 0 >> \o << >>, cmd, 0)) /\ relay[hops].revSeq = 0
            BY <2>1, <3>1
        <3> QED BY <1>1, <1>2, <1>14, <3>2, <3>3, <3>4, <3>5, <3>6, ComingNumbered
    <2>3. CASE relay[i].state # "open"
        <3>1. /\ Becomes(i, relay[i].state, relay[i].fwdSeq, 0, relay[i].outgoing, rout, ext)
              /\ sending' = sending
            BY <1>14, <2>3 DEF LastWord
        <3> QED BY <1>4, <1>14, <2>1, <3>1
    <2> QED BY <2>2, <2>3
<1>15. ASSUME NEW i \in Relays, Extension(i) PROVE Coming'
    <2>1. cut' = cut
        BY <1>15 DEF Extension, extendAnswered, extendLinked, writeReverse
    <2>2. CASE extendAnswered(i)
        <3>1. sending' = sending /\ up' = up
            BY <2>2 DEF extendAnswered
        <3>2. CASE relay[i].state = "closed"
            BY <1>4, <2>1, <2>2, <3>1, <3>2, AnsweredEffect
        <3>3. CASE relay[i].state # "closed"
            BY <1>4, <2>1, <2>2, <3>1, <3>3, AnsweredEffect
        <3> QED BY <3>2, <3>3
    <2>3. CASE extendLinked(i)
        <3>1. up' = up /\ LastWord(i, "extended", TRUE, "linked")
            <4>1. up' = up
                BY <2>3 DEF extendLinked
            <4> QED BY <2>3, <4>1, LinkedEffect
        <3> QED BY <1>14, <2>1, <3>1
    <2>4. CASE writeReverse(i, "extend")
        <3>1. sending[i]["extend"] # NoCell /\ Written(i, "extend") /\ relay' = relay
            BY <2>4 DEF writeReverse
        <3> QED BY <1>1, <1>5, <2>1, <3>1
    <2> QED BY <1>15, <2>2, <2>3, <2>4 DEF Extension
<1>16. ASSUME NEW i \in Relays, extendTimesOut(i) PROVE Coming'
    <2>1. up' = up /\ cut' = cut /\ LastWord(i, "openError", relay[i].relayOut, "abandoned")
        BY <1>16, TimesOutEffect DEF extendTimesOut
    <2> QED BY <1>14, <2>1
<1>17. ASSUME NEW i \in Relays, Cut(i) PROVE Coming'
    <2>1. /\ relay' = relay /\ sending' = sending /\ cut' = cut \union {i}
          /\ \E m \in 0..Len(up[i]) : up' = [up EXCEPT ![i] = SubSeq(@, 1, m)]
        BY <1>17 DEF Cut
    <2>2. up \in Links
        BY DEF CircuitInv, CircuitTypeOK, Links
    <2>3. PICK m \in 0..Len(up[i]) : up' = [up EXCEPT ![i] = SubSeq(@, 1, m)]
        BY <2>1
    <2>4. up'[i] = SubSeq(up[i], 1, m) /\ \A k \in Relays : k # i => up'[k] = up[k]
        BY <2>2, <2>3 DEF Links
    <2>5. \A k \in 1..hops :
            /\ up'[k] = up[k] \/ (k \in cut' /\ \E n \in 0..Len(up[k]) : up'[k] = SubSeq(up[k], 1, n))
            /\ sending'[k] = sending[k]
        BY <1>1, <2>1, <2>4
    <2> QED BY <1>2, <2>1, <2>5, ComingSame
<1> QED BY <1>7, <1>8, <1>9, <1>10, <1>12, <1>13, <1>15, <1>16, <1>17 DEF RelaySide

(* A hop is added: nothing is on its way back.                             *)
LEMMA ComingHop ==
  ASSUME CircuitInv, waitAnswered, pc # "openOK", registered
  PROVE  Coming'
<1>1. /\ hops \in Nat /\ hops < Hops /\ hops' = hops + 1 /\ hops + 1 \in Relays
      /\ relay' = relay /\ recvSeq' = recvSeq /\ registered' = registered
      /\ \A k \in Relays : k > hops => relay[k].revSeq = 0
      /\ hops >= 1 => recvSeq[hops] = 1 /\ relay[hops].extension = "linked"
      /\ \A k \in 1..hops : Returned(k) = 1
    BY HopAdded
<1>2. up' = up /\ sending' = sending /\ cut' = cut
    BY DEF waitAnswered
<1>3. \A k \in 0..(hops + 1) : k \in Nat /\ (k # 0 => k \in Relays)
    BY <1>1, Ranges DEF Relays
<1>4. ASSUME NEW k \in 0..(hops + 1) PROVE Returned(k)' = 0
    <2>1. CASE k = 0
        <3>1. hops + 1 > hops
            BY <1>1
        <3>2. recvSeq[hops + 1] = 0
            BY <1>1, <3>1 DEF CircuitInv, Numbers
        <3> QED BY <1>1, <2>1, <3>2 DEF Returned
    <2>2. CASE k # 0
        <3>1. k \in Relays /\ k \in Nat /\ relay[k].revSeq \in Nat
            BY <1>3, <2>2, RelayFields DEF CircuitInv
        <3>2. Returned(k)' = relay[k].revSeq + k - (hops + 1)
            BY <1>1, <2>2 DEF Returned
        <3>3. CASE k <= hops
            <4>1. k \in 1..hops
                BY <1>1, <2>2, <3>1, <3>3
            <4>2. Returned(k) = 1 /\ Returned(k) = relay[k].revSeq + k - hops
                BY <1>1, <2>2, <4>1 DEF Returned
            <4> QED BY <1>1, <3>1, <3>2, <4>2
        <3>4. CASE k > hops
            <4>1. k = hops + 1 /\ relay[k].revSeq = 0
                BY <1>1, <3>1, <3>4
            <4> QED BY <1>1, <3>2, <4>1
        <3> QED BY <1>1, <3>1, <3>3, <3>4
    <2> QED BY <2>1, <2>2
<1>5. ASSUME NEW k \in 1..(hops + 1)
      PROVE  /\ Front(up[k]) = {} /\ k \in Relays
             /\ k \notin cut => Len(up[k]) = 0 /\ Idle(k)
    <2>1. k \in Nat /\ k >= 1 /\ k \in Relays /\ k - 1 \in Nat
        BY <1>1, <1>3
    <2>2. up[k] \in Seq(Cells) /\ Making(k)
        BY <2>1, LinkFacts DEF CircuitInv
    <2>3. CASE k <= hops
        <3>1. k \in 1..hops /\ hops >= 1
            BY <1>1, <2>1, <2>3
        <3>2. Returned(k) = 1 /\ Returned(k - 1) = 1
            <4>1. CASE k = 1
                BY <1>1, <3>1, <4>1 DEF Returned
            <4>2. CASE k # 1
                <5>1. k - 1 \in 1..hops
                    BY <1>1, <2>1, <2>3, <4>2
                <5> QED BY <1>1, <3>1, <5>1
            <4> QED BY <4>1, <4>2
        <3>3. /\ Run(up[k], 1, 1, Back(k)) /\ Len(up[k]) \in Nat
              /\ k \notin cut /\ Idle(k) => 1 + Len(up[k]) = 1
              /\ \A g \in Goroutines : k \notin cut /\ sending[k][g] # NoCell => 1 + Len(up[k]) + 1 = 1
            BY <3>1, <3>2, ReturnedFacts
        <3>4. Front(up[k]) = {}
            BY <2>2, <3>3, RunNone
        <3>5. k \notin cut => Idle(k)
            BY <3>3 DEF Idle
        <3> QED BY <2>1, <3>3, <3>4, <3>5
    <2>4. CASE k = hops + 1
        <3>1. ~(k <= hops) /\ k > hops
            BY <1>1, <2>4
        <3>2. ~Holds(up[k], "relay")
            BY <2>2, <3>1 DEF Making
        <3>3. Made(k)
            <4>1. CASE k = 1
                <5>1. responses # << >>
                    BY DEF waitAnswered
                <5> QED BY <4>1, <5>1 DEF Made
            <4>2. CASE k # 1
                <5>1. k - 1 = hops /\ hops >= 1
                    BY <1>1, <2>4, <4>2
                <5> QED BY <1>1, <4>2, <5>1 DEF Made
            <4> QED BY <4>1, <4>2
        <3>4. ~Holds(up[k], "created")
            BY <2>2, <3>3 DEF Making
        <3>5. \A m \in 1..Len(up[k]) : FALSE
            BY <2>2, <3>2, <3>4 DEF Making, Holds
        <3>6. Len(up[k]) = 0
            <4>1. Len(up[k]) \in Nat /\ 1 \notin 1..Len(up[k])
                BY <2>2, <3>5
            <4> QED BY <4>1
        <3>7. Idle(k)
            <4>1. relay[k].revSeq = 0
                BY <1>1, <2>1, <3>1
            <4> QED BY <2>1, <4>1, LastIdle
        <3>8. Front(up[k]) = {}
            BY <2>2, <3>2, RunEmpty
        <3> QED BY <2>1, <3>6, <3>7, <3>8
    <2> QED BY <1>1, <2>1, <2>3, <2>4
<1>6. ASSUME NEW k \in 1..(hops + 1) PROVE Backward(k)'
    <2>1. k \in 0..(hops + 1) /\ k - 1 \in 0..(hops + 1)
        BY <1>1
    <2>2. Returned(k)' = 0 /\ Returned(k - 1)' = 0
        BY <1>4, <2>1
    <2>3. Run(up'[k], Returned(k - 1)', Returned(k)', Back(k)')
        BY <1>2, <1>5 DEF Run
    <2>4. k \notin cut' => Returned(k - 1)' + Len(up'[k]) = Returned(k)'
        BY <1>2, <1>5, <2>2
    <2>5. k \notin cut' => \A g \in Goroutines : sending'[k][g] = NoCell
        BY <1>2, <1>5 DEF Idle
    <2> QED BY <2>3, <2>4, <2>5 DEF Backward
<1>7. \A i, k \in 0..(hops + 1) : Returned(i)' <= Returned(k)'
    BY <1>4
<1> QED BY <1>1, <1>6, <1>7 DEF Coming

(* The client forgets nothing that was sent.                               *)
LEMMA RemembersClient ==
  ASSUME CircuitInv, ClientSide, hops' = hops
  PROVE  Remembers
<1>1. relay' = relay /\ UNCHANGED exitVars /\ answered \in Nat
    BY ClientEffects, Ranges
<1>2. answered <= answered
    BY <1>1
<1> QED BY <1>1, <1>2 DEF Remembers, exitVars

(* The client reads a reverse cell.                                        *)
LEMMA ComingRead ==
  ASSUME CircuitInv, handleReverse, registered', hops >= 1
  PROVE  Coming'
<1>1. /\ up[1] # << >> /\ Head(up[1]).kind = "relay" /\ up' = Taken(up, 1) /\ registered
      /\ recvSeq' = Advanced(recvSeq, hops) /\ hops' = hops /\ sending' = sending /\ cut' = cut
    BY DEF handleReverse
<1>2. /\ hops \in Nat /\ 1 \in Relays /\ 1 \in 1..hops /\ 0 \in 0..hops /\ hops \in Relays
      /\ \A k \in 0..hops : k # 0 => k \in Relays
    BY Ranges
<1>3. up'[1] = Tail(up[1]) /\ \A k \in Relays : k # 1 => up'[k] = up[k]
    <2>1. up \in Links
        BY DEF CircuitInv, CircuitTypeOK, Links
    <2> QED BY <1>1, <1>2, <2>1, TakenAt
<1>4. Remembers /\ relay' = relay
    BY <1>1, RemembersClient, ClientEffects DEF ClientSide
<1>5. recvSeq[hops] \in Nat /\ recvSeq[hops] + 1 <= Returned(1)
    BY <1>1, ReverseHead
<1>6. Returned(0) = recvSeq[hops] /\ Returned(0)' = recvSeq[hops] + 1
    <2>1. recvSeq'[hops] = recvSeq[hops] + 1
        BY <1>1, <1>2 DEF Advanced
    <2> QED BY <1>1, <2>1 DEF Returned
<1>7. ASSUME NEW k, k # 0 PROVE Returned(k)' = Returned(k)
    BY <1>1, <1>4, <1>7 DEF Returned
<1>8. ASSUME NEW l \in 0..hops, NEW k \in 0..hops, l <= k
      PROVE  Returned(l)' <= Returned(k)'
    <2>1. Returned(l) <= Returned(k) /\ Returned(k) \in Nat /\ Returned(1) \in Nat
        BY <1>1, <1>2, <1>8, ReturnedNumbers DEF CircuitInv, Returning
    <2>2. CASE l # 0
        <3>1. k # 0
            BY <1>2, <1>8, <2>2
        <3> QED BY <1>7, <2>1, <2>2, <3>1
    <2>3. CASE l = 0 /\ k = 0
        BY <1>5, <1>6, <2>3
    <2>4. CASE l = 0 /\ k # 0
        <3>1. 1 <= k /\ 1 \in 0..hops
            BY <1>2, <2>4
        <3>2. Returned(1) <= Returned(k)
            BY <1>1, <3>1 DEF CircuitInv, Returning
        <3>3. Returned(k)' = Returned(k) /\ Returned(l)' = recvSeq[hops] + 1
            BY <1>6, <1>7, <2>4
        <3> QED BY <1>5, <2>1, <3>2, <3>3
    <2> QED BY <2>2, <2>3, <2>4
<1>9. ASSUME NEW k \in 1..hops PROVE Backward(k)'
    <2>1. k \in Relays /\ k # 0 /\ k \in Nat /\ Returned(k)' = Returned(k)
        BY <1>7, Ranges
    <2>2. CASE k = 1
        <3>1. Returned(k - 1)' = Returned(k - 1) + 1
            BY <1>6, <2>2
        <3>2. up'[k] = Tail(up[k]) /\ up[k] # << >> /\ Head(up[k]).kind = "relay" /\ sending'[k] = sending[k]
            BY <1>1, <1>3, <2>2
        <3> QED BY <1>1, <1>4, <2>1, <3>1, <3>2, BackwardTaken
    <2>3. CASE k # 1
        <3>1. k - 1 # 0
            BY <2>1, <2>3
        <3>2. Returned(k - 1)' = Returned(k - 1)
            BY <1>7, <3>1
        <3> QED BY <1>1, <1>3, <1>4, <2>1, <2>3, <3>2, BackwardSame
    <2> QED BY <2>2, <2>3
<1> QED BY <1>1, <1>8, <1>9 DEF Coming

(* Steps of the client keep what is known of the cells still coming back.  *)
LEMMA ComingClient ==
  ASSUME CircuitInv, ClientSide, registered', hops' >= 1
  PROVE  Coming'
<1>1. relay' = relay /\ sending' = sending /\ cut' = cut
    BY ClientEffects
<1>2. ASSUME hops' = hops, recvSeq' = recvSeq, registered' = registered, up' = up
      PROVE  Coming'
    <2>1. Remembers
        BY <1>2, RemembersClient
    <2> QED BY <1>1, <1>2, <2>1, ComingSame
<1>3. CASE buildCircuit
    <2>1. hops = 0 /\ hops' = hops
        BY <1>3 DEF buildCircuit, CircuitInv, Stage
    <2> QED BY <2>1
<1>4. CASE waitAnswered
    <2>1. registered' = registered /\ recvSeq' = recvSeq /\ up' = up
        BY <1>4 DEF waitAnswered
    <2>2. CASE pc = "openOK"
        BY <1>2, <1>4, <2>1, <2>2, AnswerTaken
    <2>3. CASE pc # "openOK"
        BY <1>4, <2>1, <2>3, ComingHop
    <2> QED BY <2>2, <2>3
<1>5. CASE Write \/ Read
    BY <1>2, <1>5 DEF Write, Read
<1>6. CASE waitFails \/ Close \/ closeCircuits
    BY <1>6 DEF waitFails, Close, closeCircuits
<1>7. CASE handleCreated
    <2>1. up[1] # << >> /\ Head(up[1]).kind = "created" /\ hops' = hops /\ up[1] \in Seq(Cells)
        BY <1>7, Ranges, LinkFacts DEF handleCreated
    <2>2. 1 \in 1..hops
        BY <2>1, Ranges
    <2>3. Holds(up[1], "created")
        BY <2>1, HoldsTail
    <2> QED BY <2>2, <2>3, HopsMade
<1>8. CASE handleReverse
    <2>1. hops' = hops
        BY <1>8 DEF handleReverse
    <2> QED BY <1>8, <2>1, ComingRead
<1> QED BY <1>3, <1>4, <1>5, <1>6, <1>7, <1>8 DEF ClientSide

(* Every step keeps the reverse side of the invariant.                     *)
LEMMA ReturningStep ==
  ASSUME CircuitInv, CircuitNext
  PROVE  Returning'
<1>1. SUFFICES ASSUME registered', hops' >= 1 PROVE Coming'
    BY DEF Returning, Coming
<1>2. CASE RelaySide
    <2>1. registered' = registered /\ hops' = hops
        BY <1>2, Elsewhere DEF RelaySide, clientVars
    <2> QED BY <1>1, <1>2, <2>1, ComingRelay
<1> QED BY <1>1, <1>2, Sides, ComingClient

-----------------------------------------------------------------------------
(* The client's responses.                                                 *)

(* The numbers of reverse cells only grow.                                 *)
LEMMA NumbersGrow ==
  ASSUME CircuitInv, RelaySide, NEW k \in Relays
  PROVE  relay'[k].revSeq \in Nat /\ relay'[k].revSeq >= relay[k].revSeq
<1>1. Hops \in Relays /\ relay[k].revSeq \in Nat /\ \A j \in Relays : relay[j].revSeq \in Nat
    BY Ranges, RelayFields DEF CircuitInv
<1>2. ASSUME NEW i \in Relays, NEW st, NEW fwd, NEW rev, NEW out, NEW rout, NEW ext,
             Becomes(i, st, fwd, rev, out, rout, ext),
             rev = relay[i].revSeq \/ rev = relay[i].revSeq + 1
      PROVE  relay'[k].revSeq \in Nat /\ relay'[k].revSeq >= relay[k].revSeq
    <2>1. relay'[k].revSeq = relay[k].revSeq \/ relay'[k].revSeq = relay[k].revSeq + 1
        BY <1>2 DEF Becomes
    <2> QED BY <1>1, <2>1
<1>3. ASSUME relay' = relay
      PROVE  relay'[k].revSeq \in Nat /\ relay'[k].revSeq >= relay[k].revSeq
    BY <1>1, <1>3
<1>4. ASSUME NEW i \in Relays, NEW rest, Closes(i, rest)
      PROVE  relay'[k].revSeq \in Nat /\ relay'[k].revSeq >= relay[k].revSeq
    BY <1>2, <1>4 DEF Closes
<1>5. CASE pumpEnds
    BY <1>1, <1>2, <1>3, <1>5, PumpEndsEffect DEF Counts
<1>6. CASE pumpReads
    BY <1>1, <1>2, <1>6, PumpReadsEffect DEF Counts
<1>7. CASE serviceEnds
    BY <1>3, <1>7 DEF serviceEnds
<1>8. CASE pumpWrites
    <2>1. relay' = relay \/ closeRelayCircuit(Hops, down)
        BY <1>8 DEF pumpWrites
    <2> QED BY <1>1, <1>3, <1>4, <2>1, ClosesEffect
<1>9. ASSUME NEW i \in Relays, ReaderIn(i)
      PROVE  relay'[k].revSeq \in Nat /\ relay'[k].revSeq >= relay[k].revSeq
    <2>1. CASE handleCircuitCreate(i)
        BY <1>2, <2>1, CreateEffect
    <2>2. CASE forwardRejected(i)
        BY <1>3, <2>2, RejectedEffect
    <2>3. CASE forwardOn(i)
        BY <1>2, <2>3, ForwardOnEffect DEF Counts
    <2>4. CASE extendCircuit(i)
        <3>1. relay[i].revSeq = 0 /\ 1 = 0 + 1
            BY <2>4, ExtendEffect
        <3> QED BY <1>2, <2>4, <3>1, ExtendEffect DEF Counts
    <2>5. CASE openCircuitTarget(i)
        <3>1. relay[i].revSeq = 0 /\ 1 = 0 + 1
            BY <2>5, OpenEffect
        <3> QED BY <1>2, <2>5, <3>1, OpenEffect DEF Counts
    <2>6. CASE relayData(i)
        BY <1>2, <1>4, <2>6, DataEffect DEF Counts
    <2>7. CASE relayClose(i)
        BY <1>4, <2>7, CloseCmdEffect
    <2>8. CASE destroyCircuitByKey(i)
        BY <1>3, <1>4, <2>8, DestroyEffect
    <2>9. CASE writeReverse(i, "in")
        BY <1>3, <2>9 DEF writeReverse
    <2>10. CASE writeOpenOK(i)
        <3>1. relay' = relay \/ closeRelayCircuit(i, down)
            BY <2>10 DEF writeOpenOK
        <3> QED BY <1>3, <1>4, <3>1, ClosesEffect
    <2> QED BY <1>9, <2>1, <2>2, <2>3, <2>4, <2>5, <2>6, <2>7, <2>8, <2>9, <2>10 DEF ReaderIn
<1>10. ASSUME NEW i \in Relays, ReaderOut(i)
       PROVE  relay'[k].revSeq \in Nat /\ relay'[k].revSeq >= relay[k].revSeq
    <2>1. CASE handleCircuitCreated(i)
        BY <1>2, <1>3, <2>1, CreatedEffect
    <2>2. CASE handleCircuitReverse(i)
        BY <1>2, <1>3, <2>2, ReverseEffect DEF Counts
    <2>3. CASE writeReverse(i, "out")
        BY <1>3, <2>3 DEF writeReverse
    <2> QED BY <1>10, <2>1, <2>2, <2>3 DEF ReaderOut
<1>11. ASSUME NEW i \in Relays, NEW cmd, NEW rout, NEW ext, LastWord(i, cmd, rout, ext)
       PROVE  relay'[k].revSeq \in Nat /\ relay'[k].revSeq >= relay[k].revSeq
    <2>1. relay[i].revSeq = 0 /\ 1 = 0 + 1
        BY <1>11 DEF LastWord
    <2> QED BY <1>2, <1>11, <2>1 DEF LastWord
<1>12. ASSUME NEW i \in Relays, Extension(i)
       PROVE  relay'[k].revSeq \in Nat /\ relay'[k].revSeq >= relay[k].revSeq
    <2>1. CASE extendAnswered(i)
        BY <1>2, <2>1, AnsweredEffect
    <2>2. CASE extendLinked(i)
        BY <1>11, <2>2, LinkedEffect
    <2>3. CASE writeReverse(i, "extend")
        BY <1>3, <2>3 DEF writeReverse
    <2> QED BY <1>12, <2>1, <2>2, <2>3 DEF Extension
<1>13. ASSUME NEW i \in Relays, extendTimesOut(i)
       PROVE  relay'[k].revSeq \in Nat /\ relay'[k].revSeq >= relay[k].revSeq
    BY <1>11, <1>13, TimesOutEffect
<1>14. ASSUME NEW i \in Relays, Cut(i)
       PROVE  relay'[k].revSeq \in Nat /\ relay'[k].revSeq >= relay[k].revSeq
    BY <1>3, <1>14 DEF Cut
<1> QED BY <1>5, <1>6, <1>7, <1>8, <1>9, <1>10, <1>12, <1>13, <1>14 DEF RelaySide

(* The responses are the last ones that were opened.                       *)
Filed ==
  /\ hops = 0 => Len(responses) <= 1
  /\ hops = 0 => \A m \in 1..Len(responses) : responses[m].cmd = "created"
  /\ hops >= 1 => Len(responses) <= recvSeq[hops] /\ recvSeq[hops] <= relay[hops].revSeq
  /\ hops >= 1 => \A m \in 1..Len(responses) :
                     Answer(responses[m].cmd, responses[m].n,
                            recvSeq[hops] - Len(responses) + m - 1)

(* What the responses are.                                                 *)
LEMMA FiledFacts ==
  ASSUME CircuitInv
  PROVE  /\ Filed /\ responses \in Seq(Responses) /\ Len(responses) \in Nat
         /\ hops \in Nat /\ (hops >= 1 => hops \in Relays)
         /\ hops >= 1 => recvSeq[hops] \in Nat /\ relay[hops].revSeq \in Nat
         /\ Hops \in Relays /\ recvSeq[Hops] \in Nat /\ got \in Seq(Nat) /\ Len(got) \in Nat
         /\ Waiting /\ hops >= 1 => recvSeq[hops] = Len(responses)
         /\ pc \in {"stream", "stopped"} /\ eof = "none" =>
              recvSeq[Hops] = Len(responses) + 1 + Len(got)
<1>1. Filed
    BY DEF CircuitInv, Queued, Filed
<1>2. responses \in Seq(Responses) /\ Len(responses) \in Nat /\ got \in Seq(Nat) /\ Len(got) \in Nat
    BY DEF CircuitInv, CircuitTypeOK
<1>3. hops \in Nat /\ (hops >= 1 => hops \in Relays) /\ Hops \in Relays
    BY Ranges DEF Relays
<1>4. \A k \in Relays : recvSeq[k] \in Nat /\ relay[k].revSeq \in Nat
    BY RelayFields DEF CircuitInv, CircuitTypeOK
<1>5. /\ Waiting /\ hops >= 1 => recvSeq[hops] = Len(responses)
      /\ pc \in {"stream", "stopped"} /\ eof = "none" => recvSeq[Hops] = Len(responses) + 1 + Len(got)
    BY DEF CircuitInv, Queued
<1> QED BY <1>1, <1>2, <1>3, <1>4, <1>5

(* The number of a response, counted from the end.                         *)
LEMMA TakenNumber ==
  ASSUME NEW a \in Nat, NEW b \in Nat, NEW m \in Nat, NEW d \in {0, 1}, b <= a, m + d >= 1
  PROVE  /\ a - b + (m + d) - 1 \in Nat
         /\ a - b + (m + d) - 1 = a - (b - d) + m - 1
<1>1. CASE d = 0
    BY <1>1
<1>2. CASE d = 1
    BY <1>2
<1> QED BY <1>1, <1>2

(* None, or one, is taken.                                                 *)
LEMMA FiledKept ==
  ASSUME CircuitInv, hops' = hops, recvSeq' = recvSeq,
         hops >= 1 => Remembers /\ relay'[hops].revSeq \in Nat /\ relay'[hops].revSeq >= relay[hops].revSeq,
         responses' = responses \/ (responses # << >> /\ responses' = Tail(responses))
  PROVE  /\ Filed'
         /\ Len(responses') = IF responses' = responses THEN Len(responses) ELSE Len(responses) - 1
<1>1. /\ Filed /\ responses \in Seq(Responses) /\ Len(responses) \in Nat
      /\ hops \in Nat /\ (hops >= 1 => hops \in Relays)
      /\ hops >= 1 => recvSeq[hops] \in Nat /\ relay[hops].revSeq \in Nat
    BY FiledFacts
<1> PICK d \in {0, 1} : /\ Len(responses') = Len(responses) - d
                        /\ d = IF responses' = responses THEN 0 ELSE 1
                        /\ \A m \in 1..Len(responses') : responses'[m] = responses[m + d] /\ m + d \in 1..Len(responses)
    <2>1. CASE responses' = responses
        <3>1. \A m \in 1..Len(responses) : m + 0 = m
            BY <1>1
        <3> QED BY <1>1, <2>1, <3>1
    <2>2. CASE responses # << >> /\ responses' = Tail(responses)
        <3>1. /\ Len(responses') = Len(responses) - 1
              /\ \A m \in 1..Len(responses') : responses'[m] = responses[m + 1] /\ m + 1 \in 1..Len(responses)
            BY <1>1, <2>2, LinkTail
        <3>2. responses' # responses
            BY <1>1, <3>1
        <3> QED BY <3>1, <3>2
    <2> QED BY <2>1, <2>2
<1>2. CASE hops = 0
    <2>1. Len(responses) <= 1 /\ \A m \in 1..Len(responses) : responses[m].cmd = "created"
        BY <1>1, <1>2 DEF Filed
    <2>2. Len(responses') <= 1
        BY <1>1, <2>1
    <2>3. \A m \in 1..Len(responses') : responses'[m].cmd = "created"
        BY <2>1
    <2> QED BY <1>2, <2>2, <2>3 DEF Filed
<1>3. CASE hops >= 1
    <2>1. /\ Len(responses) <= recvSeq[hops] /\ recvSeq[hops] <= relay[hops].revSeq
          /\ recvSeq[hops] \in Nat /\ relay[hops].revSeq \in Nat /\ relay'[hops].revSeq \in Nat
          /\ relay'[hops].revSeq >= relay[hops].revSeq
          /\ \A m \in 1..Len(responses) :
                     Answer(responses[m].cmd, responses[m].n,
                            recvSeq[hops] - Len(responses) + m - 1)
        BY <1>1, <1>3 DEF Filed
    <2>2. Len(responses') <= recvSeq'[hops'] /\ recvSeq'[hops'] <= relay'[hops'].revSeq
        BY <1>1, <2>1
    <2>3. ASSUME NEW m \in 1..Len(responses')
          PROVE  Answer(responses[m].cmd, responses[m].n, recvSeq[hops] - Len(responses) + m - 1)'
        <3> PICK q, cmd, n : /\ q = recvSeq[hops] - Len(responses) + (m + d) - 1
                             /\ cmd = responses[m + d].cmd /\ n = responses[m + d].n
            OBVIOUS
        <3>1. m + d \in 1..Len(responses) /\ m \in Nat /\ responses'[m] = responses[m + d]
            BY <1>1
        <3>2. q \in Nat /\ q = recvSeq[hops] - Len(responses') + m - 1
            <4> DEFINE a == recvSeq[hops]
                       b == Len(responses)
                       c == Len(responses')
            <4>1. /\ a \in Nat /\ b \in Nat /\ b <= a /\ m \in Nat /\ d \in {0, 1}
                  /\ m + d >= 1 /\ q = a - b + (m + d) - 1 /\ c = b - d
                BY <1>1, <2>1, <3>1
            <4> HIDE DEF a, b, c
            <4>2. q \in Nat /\ q = a - c + m - 1
                <5>1. a - b + (m + d) - 1 \in Nat
                    BY <4>1, TakenNumber
                <5>2. a - b + (m + d) - 1 = a - (b - d) + m - 1
                    BY <4>1, TakenNumber
                <5>3. q = a - (b - d) + m - 1
                    BY <4>1, <5>2
                <5> QED BY <4>1, <5>1, <5>3
            <4> QED BY <4>2 DEF a, c
        <3>3. Answer(cmd, n, q)
            BY <2>1, <3>1
        <3>4. Answer(cmd, n, q)'
            BY <1>3, <3>2, <3>3, AnswerKept
        <3>5. cmd = responses'[m].cmd /\ n = responses'[m].n /\ q = recvSeq'[hops'] - Len(responses') + m - 1
            BY <3>1, <3>2
        <3> QED BY <3>4, <3>5
    <2>4. ~(hops' = 0)
        BY <1>1, <1>3
    <2> QED BY <2>2, <2>3, <2>4 DEF Filed
<1> QED BY <1>1, <1>2, <1>3

(* Steps of relays leave cc.responses and what was read of it alone.       *)
LEMMA QueuedRelay ==
  ASSUME CircuitInv, RelaySide
  PROVE  Queued'
<1>1. UNCHANGED clientVars
    BY Elsewhere DEF RelaySide
<1>2. /\ hops' = hops /\ recvSeq' = recvSeq /\ responses' = responses /\ pc' = pc /\ eof' = eof
      /\ got' = got
    BY <1>1 DEF clientVars
<1>3. hops >= 1 => Remembers /\ relay'[hops].revSeq \in Nat /\ relay'[hops].revSeq >= relay[hops].revSeq
    BY FiledFacts, RemembersRelay, NumbersGrow
<1>4. Filed'
    BY <1>2, <1>3, FiledKept
<1>5. /\ Waiting' /\ hops' >= 1 => recvSeq'[hops'] = Len(responses')
      /\ pc' \in {"stream", "stopped"} /\ eof' = "none" => recvSeq'[Hops] = Len(responses') + 1 + Len(got')
    BY <1>2, FiledFacts DEF Waiting
<1> QED BY <1>4, <1>5 DEF Queued, Filed

(* The next piece that the client reads from its stream.                   *)
LEMMA ReadHead ==
  ASSUME CircuitInv, pc \in {"stream", "stopped"}, eof = "none", responses # << >>
  PROVE  /\ hops = Hops /\ Head(responses).cmd \in {"data", "close"}
         /\ Head(responses).cmd = "data" => /\ Head(responses).n = Len(got) + 1
                                            /\ Len(got) + 1 <= answered
         /\ Head(responses).cmd = "close" => Len(got) = answered /\ app \in {"ended", "closed"}
<1>1. /\ Filed /\ responses \in Seq(Responses) /\ Len(responses) \in Nat /\ Len(got) \in Nat
      /\ recvSeq[Hops] \in Nat /\ recvSeq[Hops] = Len(responses) + 1 + Len(got)
    BY FiledFacts
<1>2. hops = Hops /\ Hops >= 1 /\ ~(hops < Hops) /\ answered \in Nat /\ Hops \in Nat
    BY Ranges DEF CircuitInv, Stage
<1> PICK q, cmd, n : /\ q = recvSeq[hops] - Len(responses) + 1 - 1
                     /\ cmd = Head(responses).cmd /\ n = Head(responses).n
    OBVIOUS
<1>3. Head(responses) = responses[1] /\ 1 \in 1..Len(responses)
    BY <1>1, LinkTail
<1>4. q = Len(got) + 1
    <2> DEFINE a == recvSeq[hops]
               b == Len(responses)
               c == Len(got)
    <2>1. a \in Nat /\ b \in Nat /\ c \in Nat /\ a = b + 1 + c /\ q = a - b + 1 - 1
        BY <1>1, <1>2
    <2> HIDE DEF a, b, c
    <2>2. q = c + 1
        BY <2>1
    <2> QED BY <2>2 DEF c
<1>5. Answer(cmd, n, q)
    BY <1>1, <1>2, <1>3 DEF Filed
<1>6. \/ q \in 1..answered /\ cmd = "data" /\ n = q
      \/ q = answered + 1 /\ cmd = "close" /\ app \in {"ended", "closed"}
    BY <1>1, <1>2, <1>4, <1>5 DEF Answer
<1>7. Len(got) + 1 = answered + 1 => Len(got) = answered
    BY <1>1, <1>2
<1> QED BY <1>1, <1>2, <1>4, <1>6, <1>7

(* The client takes a response, or none.                                   *)
LEMMA FiledClient ==
  ASSUME CircuitInv, ClientSide, hops' = hops, recvSeq' = recvSeq,
         responses' = responses \/ (responses # << >> /\ responses' = Tail(responses))
  PROVE  /\ Filed'
         /\ Len(responses') = IF responses' = responses THEN Len(responses) ELSE Len(responses) - 1
<1>1. relay' = relay /\ Remembers
    BY ClientEffects, RemembersClient
<1>2. hops >= 1 => relay[hops].revSeq \in Nat
    BY FiledFacts
<1>3. hops >= 1 => relay'[hops].revSeq \in Nat /\ relay'[hops].revSeq >= relay[hops].revSeq
    BY <1>1, <1>2
<1> QED BY <1>1, <1>3, FiledKept

(* A taken response is gone.                                               *)
LEMMA OneLess ==
  ASSUME CircuitInv, responses # << >>
  PROVE  Len(Tail(responses)) = Len(responses) - 1 /\ Len(responses) \in Nat
<1>1. responses \in Seq(Responses)
    BY FiledFacts
<1> QED BY <1>1, LinkTail

(* The client opens a reverse cell and queues the response.                *)
LEMMA QueuedReverse ==
  ASSUME CircuitInv, handleReverse
  PROVE  Queued'
<1>1. /\ Filed /\ responses \in Seq(Responses) /\ Len(responses) \in Nat
      /\ hops >= 1 => recvSeq[hops] \in Nat /\ relay[hops].revSeq \in Nat
      /\ Hops \in Relays /\ recvSeq[Hops] \in Nat /\ Len(got) \in Nat /\ hops \in Nat
      /\ Waiting /\ hops >= 1 => recvSeq[hops] = Len(responses)
      /\ pc \in {"stream", "stopped"} /\ eof = "none" =>
           recvSeq[Hops] = Len(responses) + 1 + Len(got)
    BY FiledFacts
<1>2. /\ hops' = hops /\ pc' = pc /\ eof' = eof /\ got' = got
      /\ up[1] # << >> /\ Head(up[1]).kind = "relay"
    BY DEF handleReverse
<1>3. CASE ~registered
    <2>1. recvSeq' = recvSeq /\ responses' = responses
        BY <1>3 DEF handleReverse
    <2>2. Filed'
        BY <1>2, <2>1, FiledClient DEF ClientSide
    <2>3. /\ Waiting' /\ hops' >= 1 => recvSeq'[hops'] = Len(responses')
          /\ pc' \in {"stream", "stopped"} /\ eof' = "none" => recvSeq'[Hops] = Len(responses') + 1 + Len(got')
        BY <1>1, <1>2, <2>1 DEF Waiting
    <2> QED BY <2>2, <2>3 DEF Queued, Filed
<1>4. CASE registered
    <2> PICK cell : cell = Head(up[1])
        OBVIOUS
    <2>1. /\ hops \in 1..Hops /\ Opens(cell) /\ cell \in Back(1)[recvSeq[hops]]
          /\ recvSeq[hops] + 1 <= Returned(1) /\ Returned(1) <= relay[hops].revSeq /\ Returned(1) \in Int
        BY <1>2, <1>4, ReverseHead
    <2>2. /\ hops >= 1 /\ recvSeq[hops] \in Nat /\ relay[hops].revSeq \in Nat /\ hops \in Relays
          /\ recvSeq[hops] + 1 <= relay[hops].revSeq
        <3>1. hops >= 1 /\ hops \in Relays
            BY <2>1, Ranges DEF Relays
        <3>2. recvSeq[hops] \in Nat /\ relay[hops].revSeq \in Nat
            BY <1>1, <3>1
        <3> QED BY <2>1, <3>1, <3>2
    <2>3. recvSeq' = Advanced(recvSeq, hops) /\ responses' = Append(responses, Response(cell.cmd, cell.n))
        BY <1>4, <2>1 DEF handleReverse, Queue
    <2>4. recvSeq'[hops'] = recvSeq[hops] + 1
        BY <1>1, <1>2, <2>2, <2>3 DEF Advanced
    <2>5. cell \in Cells /\ Answer(cell.cmd, cell.n, recvSeq[hops])
        BY <2>1, <2>2, BackFields
    <2>6. Response(cell.cmd, cell.n) \in Responses /\ Response(cell.cmd, cell.n).cmd = cell.cmd
          /\ Response(cell.cmd, cell.n).n = cell.n
        BY <2>5, CellFields DEF Response, Responses
    <2>7. /\ Len(responses') = Len(responses) + 1
          /\ responses'[Len(responses) + 1] = Response(cell.cmd, cell.n)
          /\ \A m \in 1..Len(responses) : responses'[m] = responses[m]
          /\ \A m \in 1..Len(responses') : m \in 1..Len(responses) \/ m = Len(responses) + 1
        BY <1>1, <2>3, <2>6, LinkAppend
    <2>8. Remembers /\ relay' = relay
        BY <1>2, RemembersClient, ClientEffects DEF ClientSide
    <2>9. Len(responses) <= recvSeq[hops]
        BY <1>1, <2>2 DEF Filed
    <2>10. Len(responses') <= recvSeq'[hops'] /\ recvSeq'[hops'] <= relay'[hops'].revSeq
        BY <1>1, <1>2, <2>2, <2>4, <2>7, <2>8, <2>9
    <2>11. ASSUME NEW m \in 1..Len(responses')
           PROVE  Answer(responses[m].cmd, responses[m].n, recvSeq[hops] - Len(responses) + m - 1)'
        <3> PICK q, cmd, n : /\ q = recvSeq'[hops'] - Len(responses') + m - 1
                             /\ cmd = responses'[m].cmd /\ n = responses'[m].n
            OBVIOUS
        <3>1. q = recvSeq[hops] - Len(responses) + m - 1 /\ q \in Nat
            <4> DEFINE a == recvSeq[hops]
                       b == Len(responses)
                       c == Len(responses')
                       e == recvSeq'[hops']
            <4>1. a \in Nat /\ b \in Nat /\ c = b + 1 /\ e = a + 1 /\ b <= a /\ m \in Nat /\ m >= 1
                BY <1>1, <2>2, <2>4, <2>7, <2>9
            <4>2. q = e - c + m - 1
                OBVIOUS
            <4> HIDE DEF a, b, c, e
            <4>3. q = a - b + m - 1 /\ q \in Nat
                BY <4>1, <4>2
            <4> QED BY <4>3 DEF a, b
        <3>2. Answer(cmd, n, q)
            <4>1. CASE m \in 1..Len(responses)
                <5>1. cmd = responses[m].cmd /\ n = responses[m].n
                    BY <2>7, <4>1
                <5> QED BY <1>1, <2>2, <3>1, <4>1, <5>1 DEF Filed
            <4>2. CASE m = Len(responses) + 1
                <5>1. cmd = cell.cmd /\ n = cell.n
                    BY <2>6, <2>7, <4>2
                <5>2. q = recvSeq[hops]
                    BY <1>1, <2>2, <3>1, <4>2
                <5> QED BY <2>5, <5>1, <5>2
            <4> QED BY <2>7, <4>1, <4>2
        <3>3. Answer(cmd, n, q)'
            BY <2>8, <3>1, <3>2, AnswerKept
        <3> QED BY <3>3
    <2>12. ~(hops' = 0)
        BY <1>2, <2>2
    <2>13. /\ Waiting' /\ hops' >= 1 => recvSeq'[hops'] = Len(responses')
           /\ pc' \in {"stream", "stopped"} /\ eof' = "none" => recvSeq'[Hops] = Len(responses') + 1 + Len(got')
        <3>1. Waiting' => recvSeq'[hops'] = Len(responses')
            BY <1>1, <1>2, <2>2, <2>4, <2>7 DEF Waiting
        <3>2. ASSUME pc' \in {"stream", "stopped"}, eof' = "none"
              PROVE  recvSeq'[Hops] = Len(responses') + 1 + Len(got')
            <4>1. hops = Hops
                BY <1>2, <3>2 DEF CircuitInv, Stage
            <4>2. recvSeq[Hops] = Len(responses) + 1 + Len(got)
                BY <1>1, <1>2, <3>2
            <4> QED BY <1>1, <1>2, <2>4, <2>7, <4>1, <4>2
        <3> QED BY <3>1, <3>2
    <2> QED BY <2>10, <2>11, <2>12, <2>13 DEF Queued
<1> QED BY <1>3, <1>4

(* The client takes the answer it waits for.                               *)
LEMMA QueuedAnswered ==
  ASSUME CircuitInv, waitAnswered
  PROVE  Queued'
<1>1. /\ responses # << >> /\ responses' = Tail(responses) /\ Waiting
      /\ pc = "openOK" => hops = Hops
      /\ pc # "openOK" => /\ pc' = IF hops + 1 < Hops THEN "extended" ELSE "openOK"
      /\ pc = "openOK" => hops' = hops /\ pc' \in {"stream", "stopped"}
    BY AnswerTaken
<1>2. recvSeq' = recvSeq /\ eof' = eof /\ got' = got
    BY DEF waitAnswered
<1>3. /\ responses \in Seq(Responses) /\ Len(responses) \in Nat /\ hops \in Nat /\ Len(got) \in Nat
      /\ Waiting /\ hops >= 1 => recvSeq[hops] = Len(responses)
    BY FiledFacts
<1>4. Len(responses') = Len(responses) - 1
    <2>1. responses # << >> /\ Len(responses') = Len(Tail(responses))
        BY <1>1, Zenon
    <2>2. Len(Tail(responses)) = Len(responses) - 1
        BY <2>1, OneLess
    <2> QED BY <2>1, <2>2, Zenon
<1>5. CASE pc = "openOK"
    <2>1. Filed'
        BY <1>1, <1>2, <1>5, FiledClient DEF ClientSide
    <2>2. ~Waiting'
        BY <1>1, <1>5 DEF Waiting
    <2>3. got = << >> /\ Len(got') = 0 /\ hops = Hops /\ hops >= 1
        BY <1>1, <1>2, <1>5, Ranges DEF CircuitInv, Stage
    <2>4. recvSeq'[Hops] = Len(responses') + 1 + Len(got')
        <3>1. recvSeq'[Hops] = Len(responses)
            BY <1>1, <1>2, <1>3, <2>3
        <3> QED BY <1>3, <1>4, <2>3, <3>1
    <2> QED BY <2>1, <2>2, <2>4 DEF Queued, Filed
<1>6. CASE pc # "openOK"
    <2>1. /\ hops' = hops + 1 /\ hops + 1 \in Relays /\ responses' = << >> /\ relay' = relay
          /\ \A k \in Relays : k > hops => relay[k].revSeq = 0
        BY <1>6, HopAdded
    <2>2. hops + 1 > hops /\ ~(hops + 1 <= hops) /\ ~(hops + 1 = 0) /\ hops + 1 >= 1
        BY <1>3
    <2>3. recvSeq'[hops'] = 0 /\ relay'[hops'].revSeq = 0
        BY <1>2, <2>1, <2>2 DEF CircuitInv, Numbers
    <2>4. Len(responses') = 0 /\ pc' \notin {"stream", "stopped"}
        BY <1>1, <1>6, <2>1
    <2>5. Len(responses') <= recvSeq'[hops'] /\ recvSeq'[hops'] <= relay'[hops'].revSeq
        BY <2>3, <2>4
    <2>6. \A m \in 1..Len(responses') : FALSE
        BY <2>4
    <2> QED BY <2>1, <2>2, <2>3, <2>4, <2>5, <2>6 DEF Queued
<1> QED BY <1>5, <1>6

(* The client reads from its stream.                                       *)
LEMMA QueuedRead ==
  ASSUME CircuitInv, Read
  PROVE  Queued'
<1>1. /\ hops' = hops /\ recvSeq' = recvSeq /\ pc' = pc /\ pc \in {"stream", "stopped"} /\ eof = "none"
      /\ responses' = responses \/ (responses # << >> /\ responses' = Tail(responses))
    BY DEF Read
<1>2. Filed'
    BY <1>1, FiledClient DEF ClientSide
<1>3. ~Waiting'
    BY <1>1 DEF Waiting
<1>4. /\ Len(responses) \in Nat /\ Len(got) \in Nat /\ got \in Seq(Nat)
      /\ recvSeq[Hops] = Len(responses) + 1 + Len(got)
    BY <1>1, FiledFacts
<1>5. ASSUME eof' = "none" PROVE recvSeq'[Hops] = Len(responses') + 1 + Len(got')
    <2>1. /\ responses # << >> /\ responses' = Tail(responses)
          /\ got' = IF Head(responses).cmd = "data" THEN Append(got, Head(responses).n) ELSE got
          /\ Head(responses).cmd \notin {"close", "error", "openError"}
        BY <1>1, <1>5 DEF Read
    <2>2. Head(responses).cmd = "data" /\ Head(responses).n = Len(got) + 1
        BY <1>1, <2>1, ReadHead
    <2>3. Len(got') = Len(got) + 1
        <3>1. Len(got) + 1 \in Nat
            BY <1>4
        <3> QED BY <1>4, <2>1, <2>2, <3>1, LinkAppend
    <2>4. Len(responses') = Len(responses) - 1
        <3>1. responses # << >> /\ Len(responses') = Len(Tail(responses))
            BY <2>1, Zenon
        <3>2. Len(Tail(responses)) = Len(responses) - 1
            BY <3>1, OneLess
        <3> QED BY <3>1, <3>2, Zenon
    <2> QED BY <1>1, <1>4, <2>3, <2>4
<1> QED BY <1>2, <1>3, <1>5 DEF Queued, Filed

(* The client's steps.                                                     *)
LEMMA QueuedClient ==
  ASSUME CircuitInv, ClientSide
  PROVE  Queued'
<1>1. /\ Waiting /\ hops >= 1 => recvSeq[hops] = Len(responses)
      /\ pc \in {"stream", "stopped"} /\ eof = "none" =>
           recvSeq[Hops] = Len(responses) + 1 + Len(got)
      /\ responses \in Seq(Responses) /\ hops \in Nat
    BY FiledFacts
<1>2. ASSUME hops' = hops, recvSeq' = recvSeq, responses' = responses, eof' = eof, got' = got,
             Waiting' => Waiting \/ hops = 0,
             pc' \in {"stream", "stopped"} => pc \in {"stream", "stopped"}
      PROVE  Queued'
    <2>1. Filed'
        BY <1>2, FiledClient
    <2>2. Waiting' /\ hops' >= 1 => recvSeq'[hops'] = Len(responses')
        BY <1>1, <1>2
    <2> QED BY <1>1, <1>2, <2>1, <2>2 DEF Queued, Filed
<1>3. CASE buildCircuit
    <2>1. hops = 0 /\ hops' = hops /\ recvSeq' = recvSeq /\ responses' = responses /\ eof' = eof
          /\ got' = got /\ pc' = "created"
        BY <1>3 DEF buildCircuit, CircuitInv, Stage
    <2> QED BY <1>2, <2>1
<1>4. CASE waitFails
    <2>1. /\ hops' = hops /\ recvSeq' = recvSeq /\ pc' = "failed"
          /\ responses' = responses \/ (responses # << >> /\ responses' = Tail(responses))
        BY <1>4 DEF waitFails, WaitReturns
    <2>2. Filed'
        BY <2>1, FiledClient
    <2> QED BY <2>1, <2>2 DEF Queued, Filed, Waiting
<1>5. CASE Write
    BY <1>2, <1>5 DEF Write, Waiting
<1>6. CASE Close
    BY <1>2, <1>6 DEF Close, Waiting
<1>7. CASE closeCircuits
    <2>1. hops' = hops /\ recvSeq' = recvSeq /\ responses' = responses /\ eof' = eof /\ got' = got
          /\ pc' = IF pc = "stream" THEN "stopped" ELSE pc
        BY <1>7 DEF closeCircuits
    <2> QED BY <1>2, <2>1 DEF Waiting
<1>8. CASE handleCreated
    <2>1. /\ up[1] # << >> /\ Head(up[1]).kind = "created" /\ hops' = hops /\ recvSeq' = recvSeq
          /\ pc' = pc /\ eof' = eof /\ got' = got
          /\ IF registered THEN QueueOrDrop(Response("created", 0)) ELSE responses' = responses
        BY <1>8 DEF handleCreated
    <2>2. CASE ~registered
        BY <1>2, <2>1, <2>2 DEF Waiting
    <2>3. CASE registered
        <3>1. Holds(up[1], "created") /\ Making(1)
            <4>1. 1 \in Relays /\ up[1] \in Seq(Cells)
                BY Ranges, LinkFacts
            <4> QED BY <2>1, <4>1, HoldsTail DEF CircuitInv
        <3>2. hops = 0 /\ responses = << >>
            BY <1>1, <3>1 DEF Making, Made
        <3>3. pc \notin {"stream", "stopped"}
            <4>1. Hops >= 1
                BY Ranges
            <4> QED BY <3>2, <4>1 DEF CircuitInv, Stage
        <3>4. responses' = << >> \/ responses' = <<Response("created", 0)>>
            BY <2>1, <2>3, <3>2 DEF QueueOrDrop
        <3>5. Len(responses') <= 1 /\ \A m \in 1..Len(responses') : responses'[m].cmd = "created"
            <4>1. CASE responses' = << >>
                BY <4>1
            <4>2. CASE responses' = <<Response("created", 0)>>
                <5>1. Len(responses') = 1 /\ responses'[1] = Response("created", 0)
                    BY <4>2
                <5>2. \A m \in 1..1 : m = 1
                    OBVIOUS
                <5> QED BY <5>1, <5>2 DEF Response
            <4> QED BY <3>4, <4>1, <4>2
        <3>6. ~(hops' >= 1)
            BY <2>1, <3>2
        <3> QED BY <2>1, <3>3, <3>5, <3>6 DEF Queued
    <2> QED BY <2>2, <2>3
<1> QED BY <1>3, <1>4, <1>5, <1>6, <1>7, <1>8, QueuedAnswered, QueuedRead, QueuedReverse
           DEF ClientSide

(* The client's responses.                                                 *)
LEMMA QueuedStep ==
  ASSUME CircuitInv, CircuitNext
  PROVE  Queued'
BY Sides, QueuedClient, QueuedRelay

-----------------------------------------------------------------------------
(* The service.                                                            *)

(* What the service and its pump are.                                      *)
LEMMA ServiceFacts ==
  ASSUME CircuitInv
  PROVE  /\ Service /\ answered \in Nat /\ received \in Seq(Nat) /\ Len(received) \in Nat
         /\ Hops \in Relays /\ Hops \in Nat /\ hops \in Nat
         /\ relay[Hops].fwdSeq \in Nat /\ relay[Hops].revSeq \in Nat
         /\ relay[Hops].state \in {"none", "open", "closed"}
         /\ app \in {"none", "open", "ended", "closed"} /\ pump \in {"none", "running", "ended"}
         /\ sending[Hops]["pump"] # NoCell => pump = "running"
         /\ relay[Hops].revSeq = 0 => sending[Hops]["pump"] = NoCell /\ sending[Hops]["in"] = NoCell
         /\ pump # "none" => sending[Hops]["in"] = NoCell
<1>1. Service /\ answered \in Nat /\ received \in Seq(Nat) /\ Len(received) \in Nat
      /\ app \in {"none", "open", "ended", "closed"} /\ pump \in {"none", "running", "ended"}
    BY DEF CircuitInv, CircuitTypeOK
<1>2. Hops \in Relays /\ Hops \in Nat /\ hops \in Nat
    BY Ranges
<1>3. /\ relay[Hops].fwdSeq \in Nat /\ relay[Hops].revSeq \in Nat
      /\ relay[Hops].state \in {"none", "open", "closed"}
    BY <1>2, RelayFields DEF CircuitInv
<1>4. Writers(Hops)
    BY <1>2 DEF CircuitInv
<1>5. /\ sending[Hops]["pump"] # NoCell => pump = "running"
      /\ relay[Hops].revSeq = 0 => sending[Hops]["pump"] = NoCell /\ sending[Hops]["in"] = NoCell
    BY <1>4 DEF Writers, Goroutines
<1>6. pump # "none" => sending[Hops]["in"] = NoCell
    BY <1>1 DEF Service
<1> QED BY <1>1, <1>2, <1>3, <1>5, <1>6

(* Nothing happens at the last relay.                                      *)
LEMMA ServiceSame ==
  ASSUME CircuitInv, relay'[Hops] = relay[Hops], sending'[Hops] = sending[Hops], UNCHANGED exitVars,
         app = "closed" /\ registered' => registered,
         eof' = "close" => eof = "close" \/ app # "open"
  PROVE  Service'
<1>1. Service
    BY ServiceFacts
<1>2. app' = app /\ pump' = pump /\ received' = received /\ answered' = answered
    BY DEF exitVars
<1> QED BY <1>1, <1>2 DEF Service

(* The client's steps.                                                     *)
LEMMA ServiceClient ==
  ASSUME CircuitInv, ClientSide
  PROVE  Service'
<1>1. relay' = relay /\ sending' = sending /\ UNCHANGED exitVars
    BY ClientEffects
<1>2. CASE buildCircuit
    <2>1. hops = 0 /\ eof' = eof
        BY <1>2 DEF buildCircuit, CircuitInv, Stage
    <2>2. relay[Hops].fwdSeq = 0
        <3>1. Grown(Hops) /\ relay[Hops].fwdSeq \in Nat /\ Hops >= 1 /\ Hops \in Nat
            BY Ranges, ServiceFacts DEF CircuitInv
        <3>2. ~(Hops <= hops)
            BY <2>1, <3>1
        <3> QED BY <3>1, <3>2 DEF Grown
    <2>3. app = "none"
        BY <2>2, ServiceFacts DEF Service
    <2> QED BY <1>1, <2>1, <2>3, ServiceSame
<1>3. CASE Read
    <2>1. /\ registered' = registered /\ pc \in {"stream", "stopped"} /\ eof = "none"
          /\ eof' = "close" => responses # << >> /\ Head(responses).cmd = "close"
        BY <1>3 DEF Read
    <2>2. eof' = "close" => app # "open"
        BY <2>1, ReadHead
    <2> QED BY <1>1, <2>1, <2>2, ServiceSame
<1>4. CASE ~buildCircuit /\ ~Read
    <2>1. eof' = eof /\ (registered' => registered)
        BY <1>4 DEF ClientSide, waitAnswered, waitFails, WaitReturns, Write, Close, closeCircuits,
                    handleCreated, handleReverse
    <2> QED BY <1>1, <2>1, ServiceSame
<1> QED BY <1>2, <1>3, <1>4

(* The last relay's circuit is closed by its reader or its pump.           *)
LEMMA ServiceCloses ==
  ASSUME CircuitInv, NEW rest, Closes(Hops, rest), registered' = registered, eof' = eof,
         pump' = pump, answered' = answered, received' = received, sending' = sending,
         ~registered \/ app = "ended", sending[Hops]["in"] = NoCell
  PROVE  Service'
<1>1. /\ relay'[Hops].state = "closed" /\ relay'[Hops].fwdSeq = relay[Hops].fwdSeq
      /\ relay'[Hops].revSeq = relay[Hops].revSeq
      /\ app' = IF app = "open" THEN "closed" ELSE app
    BY DEF Closes, Becomes
<1>2. Service
    BY ServiceFacts
<1>3. CASE app = "open"
    BY <1>1, <1>2, <1>3 DEF Service
<1>4. CASE app # "open"
    BY <1>1, <1>2, <1>4 DEF Service
<1> QED BY <1>3, <1>4

(* The last relay dials the service.                                       *)
LEMMA ServiceOpens ==
  ASSUME CircuitInv, openCircuitTarget(Hops), registered' = registered, eof' = eof
  PROVE  Service'
<1>1. /\ relay[Hops].fwdSeq = 0 /\ relay[Hops].revSeq = 0 /\ app = "none" /\ pump = "none"
      /\ Counts(Hops, 1, 1)
      /\ \A h \in Goroutines : h # "in" => sending'[Hops][h] = sending[Hops][h]
      /\ \/ sending'[Hops]["in"] = Relay(<< 0 >> \o << >>, "openError", 0) /\ app' = app
         \/ sending'[Hops]["in"] = Relay(<< 0 >> \o << >>, "openOK", 0) /\ app' = "open"
      /\ LayerOpens(Hops)
    BY ServiceFacts, OpenEffect
<1>2. pump' = pump /\ answered' = answered /\ received' = received
    BY DEF openCircuitTarget
<1>3. /\ relay'[Hops].fwdSeq = 1 /\ relay'[Hops].revSeq = 1
      /\ relay'[Hops].state = "open" /\ sending'[Hops]["pump"] = NoCell
    <2>1. relay'[Hops].fwdSeq = 1 /\ relay'[Hops].revSeq = 1 /\ relay'[Hops].state = relay[Hops].state
        BY <1>1 DEF Counts, Becomes
    <2>2. relay[Hops].state = "open"
        BY <1>1 DEF LayerOpens
    <2>3. sending'[Hops]["pump"] = NoCell
        BY <1>1, ServiceFacts DEF Goroutines
    <2> QED BY <2>1, <2>2, <2>3
<1>4. received = << >> /\ Len(received') = 1 - 1 /\ answered = 0
    BY <1>1, <1>2, ServiceFacts DEF Service
<1>5. sending'[Hops]["in"].cmd = "openOK" => app' = "open"
    BY <1>1 DEF Relay
<1>6. eof = "close" => eof = "close" /\ pc \in {"stream", "stopped", "closed"}
    BY DEF CircuitInv, Stage
<1>7. eof # "close"
    BY <1>1, <1>6 DEF CircuitInv, Stage
<1>8. app' \in {"none", "open"}
    BY <1>1
<1> QED BY <1>1, <1>2, <1>3, <1>4, <1>5, <1>7, <1>8 DEF Service

(* Data for the service.                                                   *)
LEMMA ServiceData ==
  ASSUME CircuitInv, relayData(Hops), registered' = registered, eof' = eof
  PROVE  Service'
<1>1. /\ LayerOpens(Hops)
      /\ \/ /\ Counts(Hops, relay[Hops].fwdSeq + 1, relay[Hops].revSeq)
            /\ received' = IF app = "open" THEN Append(received, relay[Hops].fwdSeq) ELSE received
            /\ app' = app
         \/ app = "ended" /\ Closes(Hops, Tail(down[Hops])) /\ received' = received
    BY ServiceFacts, DataEffect
<1>2. sending' = sending /\ pump' = pump /\ answered' = answered
    BY DEF relayData
<1>3. /\ Service /\ relay[Hops].fwdSeq \in Nat /\ received \in Seq(Nat) /\ Len(received) \in Nat
    BY ServiceFacts
<1>4. CASE app = "ended" /\ Closes(Hops, Tail(down[Hops])) /\ received' = received
    <2>1. sending[Hops]["in"] = NoCell
        BY <1>1 DEF LayerOpens, Arrives
    <2> QED BY <1>2, <1>4, <2>1, ServiceCloses
<1>5. ASSUME Counts(Hops, relay[Hops].fwdSeq + 1, relay[Hops].revSeq), app' = app,
             received' = IF app = "open" THEN Append(received, relay[Hops].fwdSeq) ELSE received
      PROVE  Service'
    <2>1. /\ relay'[Hops].fwdSeq = relay[Hops].fwdSeq + 1 /\ relay'[Hops].revSeq = relay[Hops].revSeq
          /\ relay'[Hops].state = relay[Hops].state
        BY <1>5 DEF Counts, Becomes
    <2>2. relay[Hops].fwdSeq + 1 # 0 /\ relay[Hops].fwdSeq + 1 >= 1
        BY <1>3
    <2>3. app = "open" => Len(received') = relay'[Hops].fwdSeq - 1
        <3>1. SUFFICES ASSUME app = "open" PROVE Len(received') = relay'[Hops].fwdSeq - 1
            OBVIOUS
        <3>2. received' = Append(received, relay[Hops].fwdSeq)
            BY <1>5, <3>1
        <3>3. Len(received') = Len(received) + 1
            BY <1>3, <3>2, LinkAppend
        <3>4. Len(received) = relay[Hops].fwdSeq - 1
            BY <1>3, <3>1 DEF Service
        <3> QED BY <1>3, <2>1, <3>3, <3>4
    <2> QED BY <1>2, <1>3, <1>5, <2>1, <2>2, <2>3 DEF Service
<1> QED BY <1>1, <1>4, <1>5

(* A goroutine other than the pump writes its cell.                        *)
LEMMA ServiceWritten ==
  ASSUME CircuitInv, NEW g \in Goroutines, writeReverse(Hops, g), registered' = registered, eof' = eof
  PROVE  Service'
<1>1. Written(Hops, g) /\ g # "pump" /\ relay' = relay /\ UNCHANGED exitVars
    BY DEF writeReverse
<1>2. /\ sending'[Hops][g] = NoCell
      /\ \A h \in Goroutines : h # g => sending'[Hops][h] = sending[Hops][h]
    BY <1>1, ServiceFacts, WrittenEffect DEF CircuitInv
<1>3. sending'[Hops]["pump"] = sending[Hops]["pump"]
    BY <1>1, <1>2 DEF Goroutines
<1>4. sending'[Hops]["in"] \in {sending[Hops]["in"], NoCell}
    BY <1>2 DEF Goroutines
<1>5. app' = app /\ pump' = pump /\ received' = received /\ answered' = answered
    BY <1>1 DEF exitVars
<1>6. Service
    BY ServiceFacts
<1> QED BY <1>1, <1>3, <1>4, <1>5, <1>6 DEF Service

(* OPEN_OK is written.                                                     *)
LEMMA ServiceStarts ==
  ASSUME CircuitInv, writeOpenOK(Hops), registered' = registered, eof' = eof
  PROVE  Service'
<1>1. /\ sending[Hops]["in"] # NoCell /\ sending[Hops]["in"].cmd = "openOK" /\ Written(Hops, "in")
      /\ answered' = answered /\ received' = received
    BY DEF writeOpenOK
<1>2. /\ sending'[Hops]["in"] = NoCell /\ sending'[Hops]["pump"] = sending[Hops]["pump"]
    BY <1>1, ServiceFacts, WrittenEffect DEF CircuitInv, Goroutines
<1>3. /\ Service /\ pump = "none" /\ relay[Hops].revSeq \in Nat /\ relay[Hops].revSeq # 0
      /\ sending[Hops]["pump"] = NoCell
    BY <1>1, ServiceFacts
<1>4. app \in {"open", "ended"} /\ answered = 0 /\ relay[Hops].revSeq <= 1
    BY <1>1, <1>3 DEF Service
<1>5. relay[Hops].revSeq = answered + 1
    <2> DEFINE a == relay[Hops].revSeq
    <2>1. a \in Nat /\ a # 0 /\ a <= 1
        BY <1>3, <1>4
    <2> HIDE DEF a
    <2>2. a = 0 + 1
        BY <2>1
    <2> QED BY <1>4, <2>2 DEF a
<1>6. CASE pump' = "running" /\ relay' = relay /\ app' = app
    BY <1>1, <1>2, <1>3, <1>4, <1>5, <1>6 DEF Service
<1>7. CASE closeRelayCircuit(Hops, down) /\ pump' = pump
    <2>1. Closes(Hops, down[Hops])
        BY <1>7, ServiceFacts, ClosesEffect
    <2>2. /\ relay'[Hops].state = "closed" /\ relay'[Hops].fwdSeq = relay[Hops].fwdSeq
          /\ relay'[Hops].revSeq = relay[Hops].revSeq
          /\ app' = IF app = "open" THEN "closed" ELSE app
        BY <2>1 DEF Closes, Becomes
    <2>3. app' \in {"closed", "ended"}
        BY <1>4, <2>2
    <2> QED BY <1>1, <1>2, <1>3, <1>4, <1>7, <2>2, <2>3 DEF Service
<1> QED BY <1>6, <1>7 DEF writeOpenOK

(* The pump.                                                               *)
LEMMA ServicePump ==
  ASSUME CircuitInv, pumpReads \/ pumpEnds \/ pumpWrites, registered' = registered, eof' = eof
  PROVE  Service'
<1>1. /\ Service /\ answered \in Nat /\ relay[Hops].revSeq \in Nat
      /\ sending[Hops]["pump"] # NoCell => pump = "running"
      /\ pump # "none" => sending[Hops]["in"] = NoCell
    BY ServiceFacts
<1>2. ASSUME NEW cmd \in Commands, NEW n \in Nat,
             Counts(Hops, relay[Hops].fwdSeq, relay[Hops].revSeq + 1), pump = "running", pump' = pump,
             sending'[Hops]["pump"] = Relay(<<relay[Hops].revSeq>> \o << >>, cmd, n),
             \A h \in Goroutines : h # "pump" => sending'[Hops][h] = sending[Hops][h]
      PROVE  /\ sending'[Hops]["pump"] # NoCell /\ sending'[Hops]["pump"].cmd = cmd
             /\ sending'[Hops]["in"] = NoCell /\ relay'[Hops].revSeq = relay[Hops].revSeq + 1
             /\ relay'[Hops].fwdSeq = relay[Hops].fwdSeq /\ relay'[Hops].state = relay[Hops].state
    <2> PICK layers : layers = <<relay[Hops].revSeq>> \o << >>
        OBVIOUS
    <2>1. layers \in Seq(Nat)
        BY <1>1
    <2>2. Relay(layers, cmd, n) \in Cells /\ Relay(layers, cmd, n).cmd = cmd
        BY <2>1 DEF Relay, Cells
    <2>3. sending'[Hops]["in"] = NoCell
        BY <1>1, <1>2 DEF Goroutines
    <2> QED BY <1>2, <2>2, <2>3, NoCellAssumption DEF Counts, Becomes
<1>3. CASE pumpReads
    <2>1. /\ app = "open" /\ pump = "running" /\ relay[Hops].revSeq = answered + 1
          /\ Counts(Hops, relay[Hops].fwdSeq, relay[Hops].revSeq + 1)
          /\ sending'[Hops]["pump"] = Relay(<<relay[Hops].revSeq>> \o << >>, "data", answered + 1)
          /\ \A h \in Goroutines : h # "pump" => sending'[Hops][h] = sending[Hops][h]
        BY <1>3, PumpReadsEffect
    <2>2. answered' = answered + 1 /\ app' = app /\ pump' = pump /\ received' = received
        BY <1>3 DEF pumpReads
    <2>3. "data" \in Commands /\ answered + 1 \in Nat
        BY <1>1 DEF Commands
    <2>4. /\ sending'[Hops]["pump"] # NoCell /\ sending'[Hops]["pump"].cmd = "data"
          /\ sending'[Hops]["in"] = NoCell /\ relay'[Hops].revSeq = relay[Hops].revSeq + 1
          /\ relay'[Hops].fwdSeq = relay[Hops].fwdSeq /\ relay'[Hops].state = relay[Hops].state
        BY <1>2, <2>1, <2>2, <2>3
    <2>5. relay'[Hops].revSeq = answered' + 1
        BY <2>1, <2>2, <2>4
    <2> QED BY <1>1, <2>1, <2>2, <2>4, <2>5 DEF Service
<1>4. CASE pumpEnds
    <2>1. /\ app \in {"ended", "closed"} /\ pump = "running" /\ sending[Hops]["pump"] = NoCell
          /\ app' = app /\ received' = received /\ answered' = answered
        BY <1>4, PumpEndsEffect DEF pumpEnds
    <2>2. CASE relay[Hops].state = "open"
        <3>1. /\ Counts(Hops, relay[Hops].fwdSeq, relay[Hops].revSeq + 1)
              /\ sending'[Hops]["pump"] = Relay(<<relay[Hops].revSeq>> \o << >>, "close", 0)
              /\ \A h \in Goroutines : h # "pump" => sending'[Hops][h] = sending[Hops][h]
              /\ pump' = pump
            BY <1>4, <2>2, PumpEndsEffect
        <3>2. "close" \in Commands /\ 0 \in Nat
            BY DEF Commands
        <3>3. /\ sending'[Hops]["pump"] # NoCell /\ sending'[Hops]["pump"].cmd = "close"
              /\ sending'[Hops]["in"] = NoCell /\ relay'[Hops].revSeq = relay[Hops].revSeq + 1
              /\ relay'[Hops].fwdSeq = relay[Hops].fwdSeq /\ relay'[Hops].state = relay[Hops].state
            BY <1>2, <2>1, <3>1, <3>2
        <3> QED BY <1>1, <2>1, <3>1, <3>3 DEF Service
    <2>3. CASE relay[Hops].state # "open"
        <3>1. pump' = "ended" /\ relay' = relay /\ sending' = sending
            BY <1>4, <2>3, PumpEndsEffect
        <3> QED BY <1>1, <2>1, <3>1 DEF Service
    <2> QED BY <2>2, <2>3
<1>5. CASE pumpWrites
    <2>1. sending[Hops]["pump"] # NoCell /\ Written(Hops, "pump") /\ received' = received
          /\ answered' = answered
        BY <1>5 DEF pumpWrites
    <2>2. /\ sending'[Hops]["pump"] = NoCell /\ sending'[Hops]["in"] = sending[Hops]["in"]
        BY <2>1, ServiceFacts, WrittenEffect DEF CircuitInv, Goroutines
    <2>3. pump = "running" /\ sending[Hops]["in"] = NoCell
        BY <1>1, <2>1
    <2>4. CASE sending[Hops]["pump"].cmd = "close"
        <3>1. app # "open" /\ pump' = "ended"
            BY <1>1, <1>5, <2>1, <2>4 DEF Service, pumpWrites
        <3>2. /\ relay'[Hops].state = relay[Hops].state \/ relay'[Hops].state = "closed"
              /\ relay'[Hops].fwdSeq = relay[Hops].fwdSeq /\ relay'[Hops].revSeq = relay[Hops].revSeq
              /\ app' = app
            <4>1. CASE relay' = relay /\ app' = app
                BY <4>1
            <4>2. CASE closeRelayCircuit(Hops, down)
                <5>1. Closes(Hops, down[Hops])
                    BY <4>2, ServiceFacts, ClosesEffect
                <5> QED BY <3>1, <5>1 DEF Closes, Becomes
            <4> QED BY <1>5, <2>4, <4>1, <4>2 DEF pumpWrites
        <3> QED BY <1>1, <2>1, <2>2, <2>3, <3>1, <3>2 DEF Service
    <2>5. CASE sending[Hops]["pump"].cmd # "close"
        <3>1. pump' \in {"running", "ended"} /\ relay' = relay /\ app' = app
            BY <1>5, <2>5 DEF pumpWrites
        <3>2. relay[Hops].revSeq = answered + 1
            BY <1>1, <2>1, <2>5 DEF Service
        <3> QED BY <1>1, <2>1, <2>2, <2>3, <3>1, <3>2 DEF Service
    <2> QED BY <2>4, <2>5
<1> QED BY <1>3, <1>4, <1>5

(* The service and the last relay.                                         *)
LEMMA ServiceStep ==
  ASSUME CircuitInv, CircuitNext
  PROVE  Service'
<1> SUFFICES ASSUME RelaySide PROVE Service'
    BY Sides, ServiceClient
<1>1. registered' = registered /\ eof' = eof
    BY Elsewhere DEF RelaySide, clientVars
<1>2. /\ Service /\ Hops \in Relays /\ Hops \in Nat /\ hops \in Nat
      /\ relay[Hops].state \in {"none", "open", "closed"}
    BY ServiceFacts
<1>3. ASSUME relay'[Hops] = relay[Hops], sending'[Hops] = sending[Hops], UNCHANGED exitVars
      PROVE  Service'
    BY <1>1, <1>3, ServiceSame
<1>4. ASSUME NEW i \in Relays, i # Hops, NEW st, NEW fwd, NEW rev, NEW out, NEW rout, NEW ext,
             Becomes(i, st, fwd, rev, out, rout, ext)
      PROVE  relay'[Hops] = relay[Hops]
    BY <1>2, <1>4 DEF Becomes
<1>5. ASSUME NEW i \in Relays, NEW rest, Closes(i, rest), pump' = pump, answered' = answered,
             received' = received, sending' = sending, ~registered \/ app = "ended",
             sending[i]["in"] = NoCell
      PROVE  Service'
    <2>1. CASE i = Hops
        BY <1>1, <1>5, <2>1, ServiceCloses
    <2>2. CASE i # Hops
        <3>1. relay'[Hops] = relay[Hops] /\ app' = app
            BY <1>4, <1>5, <2>2 DEF Closes
        <3> QED BY <1>3, <1>5, <3>1 DEF exitVars
    <2> QED BY <2>1, <2>2
<1>6. CASE serviceEnds
    <2>1. /\ app = "open" /\ app' = "ended" /\ pump' = pump /\ relay' = relay /\ sending' = sending
          /\ received' = received /\ answered' = answered
        BY <1>6 DEF serviceEnds
    <2> QED BY <1>1, <1>2, <2>1 DEF Service
<1>7. ASSUME NEW i \in Relays, ReaderIn(i)
      PROVE  Service'
    <2>1. CASE handleCircuitCreate(i)
        <3>1. /\ Becomes(i, "open", relay[i].fwdSeq, relay[i].revSeq, relay[i].outgoing,
                         relay[i].relayOut, relay[i].extension)
              /\ relay[i].state = "none" /\ sending' = sending /\ UNCHANGED exitVars
            BY <2>1, CreateEffect DEF handleCircuitCreate
        <3>2. CASE i # Hops
            BY <1>3, <1>4, <3>1, <3>2
        <3>3. CASE i = Hops
            <4>1. /\ relay'[Hops].fwdSeq = relay[Hops].fwdSeq /\ relay'[Hops].revSeq = relay[Hops].revSeq
                  /\ app' = app /\ pump' = pump /\ received' = received /\ answered' = answered
                BY <3>1, <3>3 DEF Becomes, exitVars
            <4>2. app \notin {"open", "closed"}
                BY <1>2, <3>1, <3>3 DEF Service
            <4> QED BY <1>1, <1>2, <3>1, <4>1, <4>2 DEF Service
        <3> QED BY <3>2, <3>3
    <2>2. CASE forwardRejected(i)
        <3>1. relay' = relay /\ app' = app
            BY <2>2, RejectedEffect
        <3>2. sending' = sending /\ pump' = pump /\ received' = received /\ answered' = answered
            BY <2>2 DEF forwardRejected
        <3> QED BY <1>3, <3>1, <3>2 DEF exitVars
    <2>3. CASE forwardOn(i)
        <3>1. i < hops /\ Counts(i, relay[i].fwdSeq + 1, relay[i].revSeq) /\ i \in Nat
            BY <2>3, ForwardOnEffect, Ranges
        <3>2. i # Hops
            BY <3>1, Ranges
        <3>3. relay'[Hops] = relay[Hops]
            BY <1>4, <3>1, <3>2 DEF Counts
        <3> QED BY <1>3, <2>3, <3>3 DEF forwardOn
    <2>4. CASE extendCircuit(i)
        <3>1. /\ i = hops /\ hops < Hops
              /\ \/ /\ Counts(i, 1, 1)
                    /\ \A k \in Relays : k # i => sending'[k] = sending[k]
                 \/ /\ Becomes(i, relay[i].state, 1, 0, relay[i].outgoing, relay[i].relayOut, "waiting")
                    /\ sending' = sending
            BY <2>4, ExtendEffect
        <3>2. i # Hops
            BY <1>2, <3>1
        <3>3. relay'[Hops] = relay[Hops] /\ sending'[Hops] = sending[Hops]
            BY <1>2, <1>4, <3>1, <3>2 DEF Counts
        <3> QED BY <1>3, <2>4, <3>3 DEF extendCircuit
    <2>5. CASE openCircuitTarget(i)
        <3>1. i = Hops
            BY <2>5, OpenEffect
        <3> QED BY <1>1, <2>5, <3>1, ServiceOpens
    <2>6. CASE relayData(i)
        <3>1. i = Hops
            BY <2>6, DataEffect
        <3> QED BY <1>1, <2>6, <3>1, ServiceData
    <2>7. CASE relayClose(i)
        <3>1. Closes(i, Tail(down[i])) /\ pc = "closed" /\ LayerOpens(i)
            BY <2>7, CloseCmdEffect
        <3>2. ~registered
            BY <3>1 DEF CircuitInv, Stage
        <3>3. sending[i]["in"] = NoCell
            BY <3>1 DEF LayerOpens, Arrives
        <3>4. sending' = sending /\ pump' = pump /\ received' = received /\ answered' = answered
            BY <2>7 DEF relayClose
        <3> QED BY <1>5, <3>1, <3>2, <3>3, <3>4
    <2>8. CASE destroyCircuitByKey(i)
        <3>1. /\ Holds(down[i], "destroy")
              /\ IF relay[i].state = "open" THEN Closes(i, Tail(down[i]))
                 ELSE relay' = relay /\ app' = app
            BY <2>8, DestroyEffect
        <3>2. ~registered
            BY <3>1, ClosedBefore
        <3>3. /\ sending' = sending /\ pump' = pump /\ received' = received /\ answered' = answered
              /\ sending[i]["in"] = NoCell
            BY <2>8 DEF destroyCircuitByKey, Arrives
        <3>4. CASE relay[i].state = "open"
            BY <1>5, <3>1, <3>2, <3>3, <3>4
        <3>5. CASE relay[i].state # "open"
            <4>1. relay' = relay /\ app' = app
                BY <3>1, <3>5
            <4> QED BY <1>3, <3>3, <4>1 DEF exitVars
        <3> QED BY <3>4, <3>5
    <2>9. CASE writeReverse(i, "in")
        <3>1. CASE i = Hops
            BY <1>1, <2>9, <3>1, ServiceWritten DEF Goroutines
        <3>2. CASE i # Hops
            <4>1. Written(i, "in") /\ relay' = relay /\ UNCHANGED exitVars
                BY <2>9 DEF writeReverse
            <4>2. sending'[Hops] = sending[Hops]
                BY <1>2, <3>2, <4>1, WrittenEffect DEF CircuitInv, Goroutines
            <4> QED BY <1>3, <4>1, <4>2
        <3> QED BY <3>1, <3>2
    <2>10. CASE writeOpenOK(i)
        <3>1. Writers(i)
            BY DEF CircuitInv
        <3>2. i = Hops
            BY <2>10, <3>1 DEF writeOpenOK, Writers
        <3> QED BY <1>1, <2>10, <3>2, ServiceStarts
    <2> QED BY <1>7, <2>1, <2>2, <2>3, <2>4, <2>5, <2>6, <2>7, <2>8, <2>9, <2>10 DEF ReaderIn
<1>8. ASSUME NEW i \in Relays, NEW g \in Goroutines, writeReverse(i, g)
      PROVE  Service'
    <2>1. CASE i = Hops
        BY <1>1, <1>8, <2>1, ServiceWritten
    <2>2. CASE i # Hops
        <3>1. Written(i, g) /\ relay' = relay /\ UNCHANGED exitVars
            BY <1>8 DEF writeReverse
        <3>2. sending'[Hops] = sending[Hops]
            BY <1>2, <2>2, <3>1, WrittenEffect DEF CircuitInv
        <3> QED BY <1>3, <3>1, <3>2
    <2> QED BY <2>1, <2>2
<1>9. "in" \in Goroutines /\ "out" \in Goroutines /\ "extend" \in Goroutines
    BY DEF Goroutines
<1>10. ASSUME NEW i \in Relays, ReaderOut(i)
       PROVE  Service'
    <2>1. CASE handleCircuitCreated(i)
        <3>1. /\ i < Hops
              /\ IF relay[i].extension = "waiting"
                 THEN Becomes(i, relay[i].state, relay[i].fwdSeq, relay[i].revSeq, relay[i].outgoing,
                              relay[i].relayOut, "answered")
                 ELSE relay' = relay
            BY <2>1, CreatedEffect
        <3>2. i # Hops
            BY <1>2, <3>1
        <3>3. relay'[Hops] = relay[Hops]
            BY <1>4, <3>1, <3>2
        <3> QED BY <1>3, <2>1, <3>3 DEF handleCircuitCreated
    <2>2. CASE handleCircuitReverse(i)
        <3>1. /\ i < Hops
              /\ IF relay[i].relayOut /\ relay[i].state = "open"
                 THEN /\ Counts(i, relay[i].fwdSeq, relay[i].revSeq + 1)
                      /\ \A k \in Relays : k # i => sending'[k] = sending[k]
                 ELSE relay' = relay /\ sending' = sending
            BY <2>2, ReverseEffect
        <3>2. i # Hops
            BY <1>2, <3>1
        <3>3. relay'[Hops] = relay[Hops] /\ sending'[Hops] = sending[Hops]
            BY <1>2, <1>4, <3>1, <3>2 DEF Counts
        <3> QED BY <1>3, <2>2, <3>3 DEF handleCircuitReverse
    <2> QED BY <1>8, <1>9, <1>10, <2>1, <2>2 DEF ReaderOut
<1>11. ASSUME NEW i \in Relays, NEW cmd, NEW rout, NEW ext, LastWord(i, cmd, rout, ext),
              UNCHANGED exitVars
       PROVE  Service'
    <2>1. i # Hops
        BY <1>2, <1>11 DEF LastWord
    <2>2. relay'[Hops] = relay[Hops]
        BY <1>4, <1>11, <2>1 DEF LastWord
    <2>3. sending'[Hops] = sending[Hops]
        BY <1>2, <1>11, <2>1 DEF LastWord
    <2> QED BY <1>3, <1>11, <2>2, <2>3
<1>12. ASSUME NEW i \in Relays, Extension(i)
       PROVE  Service'
    <2>1. CASE extendAnswered(i)
        <3>1. Grown(i) /\ relay[i].extension = "answered"
            BY <2>1 DEF CircuitInv, extendAnswered
        <3>2. i # Hops
            BY <1>2, <3>1 DEF Grown
        <3>3. relay'[Hops] = relay[Hops]
            BY <1>4, <2>1, <3>2, AnsweredEffect
        <3> QED BY <1>3, <2>1, <3>3 DEF extendAnswered
    <2>2. CASE extendLinked(i)
        <3>1. LastWord(i, "extended", TRUE, "linked")
            BY <2>2, LinkedEffect
        <3>2. UNCHANGED exitVars
            BY <2>2 DEF extendLinked
        <3> QED BY <1>11, <3>1, <3>2
    <2> QED BY <1>8, <1>9, <1>12, <2>1, <2>2 DEF Extension
<1>13. ASSUME NEW i \in Relays, extendTimesOut(i)
       PROVE  Service'
    BY <1>11, <1>13, TimesOutEffect DEF extendTimesOut
<1>14. ASSUME NEW i \in Relays, Cut(i)
       PROVE  Service'
    BY <1>3, <1>14 DEF Cut
<1> QED BY <1>1, <1>6, <1>7, <1>10, <1>12, <1>13, <1>14, ServicePump DEF RelaySide

-----------------------------------------------------------------------------
(* The stream.                                                             *)

(* Whoever closes the service's connection has seen all data.              *)
LEMMA ClosedHasAll ==
  ASSUME CircuitInv, app = "open", relay[Hops].fwdSeq > written \/ written = 0
  PROVE  Len(received) = written
<1>1. /\ Len(received) \in Nat /\ written \in Nat /\ relay[Hops].fwdSeq \in Nat
      /\ Len(received) <= written
    BY ServiceFacts, Ranges DEF CircuitInv, StreamIntact
<1>2. Len(received) = relay[Hops].fwdSeq - 1
    BY ServiceFacts DEF Service
<1> QED BY <1>1, <1>2

(* A DESTROY at the last relay comes after all data.                       *)
LEMMA DestroyHasAll ==
  ASSUME CircuitInv, app = "open", down[Hops] # << >>, Head(down[Hops]).kind = "destroy"
  PROVE  Len(received) = written
<1>1. /\ Service /\ Hops \in Relays /\ Hops \in Nat /\ hops \in Nat /\ relay[Hops].fwdSeq \in Nat
    BY ServiceFacts
<1>2. relay[Hops].fwdSeq >= 1 /\ relay[Hops].state = "open"
    BY <1>1 DEF Service
<1>3. hops = Hops /\ Hops \in 1..hops
    <2>1. Grown(Hops) /\ hops <= Hops /\ Hops >= 1
        BY <1>1, Ranges DEF CircuitInv
    <2>2. Hops <= hops
        BY <1>2, <2>1 DEF Grown
    <2> QED BY <1>1, <2>1, <2>2
<1>4. Passed(Hops) = relay[Hops].fwdSeq
    <2>1. Passed(Hops) = relay[Hops].fwdSeq + Hops - hops
        BY <1>1, <1>3 DEF Passed
    <2> QED BY <1>1, <1>3, <2>1
<1>5. down[Hops] \in Seq(Cells) /\ written \in Nat
      /\ (written > 0 => Drained(down[Hops], relay[Hops].fwdSeq, written))
    BY <1>2, <1>3, <1>4, ForwardFacts
<1>6. 1 \in 1..Len(down[Hops]) /\ down[Hops][1].kind = "destroy" /\ \A l \in 1..(1 - 1) : FALSE
    BY <1>5, LinkTail
<1>7. ASSUME written > 0 PROVE relay[Hops].fwdSeq > written
    <2>1. relay[Hops].fwdSeq + 1 > written + 1
        BY <1>5, <1>6, <1>7 DEF Drained
    <2> QED BY <1>1, <1>5, <2>1
<1> QED BY <1>5, <1>7, ClosedHasAll

(* What the service receives next, and how its connection is closed.       *)
LEMMA StreamRelay ==
  ASSUME CircuitInv, RelaySide
  PROVE  /\ \/ received' = received
            \/ /\ received' = Append(received, Len(received) + 1) /\ Len(received) + 1 <= written
               /\ app = "open" /\ app' = "open"
         /\ app' = "closed" => app = "closed" \/ Len(received) = written
<1> DEFINE G == /\ \/ received' = received
                   \/ /\ received' = Append(received, Len(received) + 1)
                      /\ Len(received) + 1 <= written
                      /\ app = "open" /\ app' = "open"
                /\ app' = "closed" => app = "closed" \/ Len(received) = written
<1>1. /\ Service /\ Len(received) \in Nat /\ relay[Hops].fwdSeq \in Nat /\ written \in Nat
    BY ServiceFacts, Ranges
<1>2. ASSUME received' = received, app' = app PROVE G
    BY <1>2
<1>3. CASE serviceEnds
    BY <1>3 DEF serviceEnds
<1>4. CASE pumpEnds \/ pumpReads
    BY <1>2, <1>4 DEF pumpEnds, pumpReads
<1>5. CASE pumpWrites
    <2>1. CASE sending[Hops]["pump"].cmd = "close"
        <3>1. app # "open" /\ received' = received
            BY <1>1, <1>5, <2>1 DEF pumpWrites, Service
        <3>2. app' = app
            BY <1>5, <2>1, <3>1 DEF pumpWrites, closeRelayCircuit
        <3> QED BY <1>2, <3>1, <3>2
    <2>2. CASE sending[Hops]["pump"].cmd # "close"
        BY <1>2, <1>5, <2>2 DEF pumpWrites
    <2> QED BY <2>1, <2>2
<1>6. ASSUME NEW i \in Relays, ReaderIn(i)
      PROVE  G
    <2>1. CASE handleCircuitCreate(i)
        BY <1>2, <2>1 DEF handleCircuitCreate, exitVars
    <2>2. CASE forwardRejected(i)
        <3>1. app' = app /\ received' = received
            BY <2>2, RejectedEffect DEF forwardRejected
        <3> QED BY <1>2, <3>1
    <2>3. CASE forwardOn(i)
        BY <1>2, <2>3 DEF forwardOn, exitVars
    <2>4. CASE extendCircuit(i)
        BY <1>2, <2>4 DEF extendCircuit, exitVars
    <2>5. CASE openCircuitTarget(i)
        <3>1. received' = received /\ app' \in {app, "open"}
            BY <2>5 DEF openCircuitTarget
        <3> QED BY <3>1
    <2>6. CASE relayData(i)
        <3>1. /\ i = Hops /\ relay[i].fwdSeq \in 1..written
              /\ \/ /\ received' = IF app = "open" THEN Append(received, relay[i].fwdSeq) ELSE received
                    /\ app' = app
                 \/ app = "ended" /\ Closes(i, Tail(down[i])) /\ received' = received
            BY <2>6, DataEffect
        <3>2. CASE app = "open"
            <4>1. Len(received) = relay[Hops].fwdSeq - 1
                BY <1>1, <3>2 DEF Service
            <4>2. relay[i].fwdSeq = Len(received) + 1
                BY <1>1, <3>1, <4>1
            <4>3. Len(received) + 1 <= written
                BY <1>1, <3>1, <4>2
            <4> QED BY <3>1, <3>2, <4>2, <4>3
        <3>3. CASE app # "open"
            <4>1. received' = received /\ app' = app
                BY <3>1, <3>3 DEF Closes
            <4> QED BY <1>2, <4>1
        <3> QED BY <3>2, <3>3
    <2>7. CASE relayClose(i)
        <3>1. /\ i = Hops /\ relay[i].fwdSeq = written + 1 /\ Closes(i, Tail(down[i]))
            BY <2>7, CloseCmdEffect
        <3>2. received' = received /\ app' = IF app = "open" THEN "closed" ELSE app
            BY <2>7, <3>1 DEF Closes, relayClose
        <3>3. app = "open" => Len(received) = written
            <4>1. relay[Hops].fwdSeq > written
                BY <1>1, <3>1
            <4> QED BY <4>1, ClosedHasAll
        <3> QED BY <3>2, <3>3
    <2>8. CASE destroyCircuitByKey(i)
        <3>1. /\ down[i] # << >> /\ Head(down[i]).kind = "destroy"
              /\ IF relay[i].state = "open" THEN Closes(i, Tail(down[i]))
                 ELSE relay' = relay /\ app' = app
            BY <2>8, DestroyEffect
        <3>2. received' = received
            BY <2>8 DEF destroyCircuitByKey
        <3>3. app' = IF i = Hops /\ app = "open" THEN app' ELSE app
            BY <3>1 DEF Closes
        <3>4. i = Hops /\ app = "open" => Len(received) = written
            BY <3>1, DestroyHasAll
        <3> QED BY <3>2, <3>3, <3>4
    <2>9. CASE writeReverse(i, "in")
        BY <1>2, <2>9 DEF writeReverse, exitVars
    <2>10. CASE writeOpenOK(i)
        <3>1. /\ received' = received
              /\ \/ app' = app
                 \/ i = Hops /\ app = "open" /\ app' = "closed"
            BY <2>10 DEF writeOpenOK, closeRelayCircuit
        <3>2. i = Hops /\ app = "open" => Len(received) = written
            <4>1. SUFFICES ASSUME i = Hops, app = "open" PROVE written = 0
                BY ClosedHasAll
            <4>2. pump = "none"
                BY <2>10, <4>1, ServiceFacts DEF writeOpenOK
            <4> QED BY <4>2 DEF CircuitInv, Stage
        <3> QED BY <3>1, <3>2
    <2> QED BY <1>6, <2>1, <2>2, <2>3, <2>4, <2>5, <2>6, <2>7, <2>8, <2>9, <2>10 DEF ReaderIn
<1>7. ASSUME NEW i \in Relays, ReaderOut(i) \/ Extension(i) \/ extendTimesOut(i) \/ Cut(i)
      PROVE  G
    <2>1. UNCHANGED exitVars
        BY <1>7 DEF ReaderOut, Extension, extendTimesOut, Cut, handleCircuitCreated,
           handleCircuitReverse,
                    writeReverse, extendAnswered, extendLinked
    <2> QED BY <1>2, <2>1 DEF exitVars
<1> QED BY <1>3, <1>4, <1>5, <1>6, <1>7 DEF RelaySide

(* A sequence that counts goes on counting.                                *)
LEMMA CountingOn ==
  ASSUME NEW s \in Seq(Nat), Counting(s)
  PROVE  Counting(Append(s, Len(s) + 1)) /\ Len(Append(s, Len(s) + 1)) = Len(s) + 1
<1> PICK t : t = Append(s, Len(s) + 1)
    OBVIOUS
<1>1. Len(s) \in Nat /\ Len(s) + 1 \in Nat
    OBVIOUS
<1>2. /\ t \in Seq(Nat) /\ Len(t) = Len(s) + 1 /\ t[Len(s) + 1] = Len(s) + 1
      /\ \A m \in 1..Len(s) : t[m] = s[m]
      /\ \A m \in 1..Len(t) : m \in 1..Len(s) \/ m = Len(s) + 1
    BY <1>1, LinkAppend
<1>3. DOMAIN t = 1..Len(t) /\ DOMAIN s = 1..Len(s)
    BY <1>2
<1>4. Counting(t)
    BY <1>2, <1>3 DEF Counting
<1> QED BY <1>2, <1>4

(* The stream is in order and complete.                                    *)
LEMMA StreamStep ==
  ASSUME CircuitInv, CircuitNext
  PROVE  StreamIntact'
<1>1. /\ Counting(received) /\ Len(received) <= written /\ Counting(got) /\ Len(got) <= answered
      /\ app = "closed" => Len(received) = written
      /\ eof = "close" => Len(got) = answered
    BY DEF CircuitInv, StreamIntact
<1>2. /\ received \in Seq(Nat) /\ Len(received) \in Nat /\ got \in Seq(Nat) /\ Len(got) \in Nat
      /\ written \in Nat /\ answered \in Nat
    BY ServiceFacts, FiledFacts, Ranges
<1>3. CASE RelaySide
    <2>1. written' = written /\ got' = got /\ eof' = eof
        BY <1>3, Elsewhere DEF RelaySide, clientVars
    <2>2. /\ \/ received' = received
             \/ /\ received' = Append(received, Len(received) + 1) /\ Len(received) + 1 <= written
                /\ app = "open" /\ app' = "open"
          /\ app' = "closed" => app = "closed" \/ Len(received) = written
        BY <1>3, StreamRelay
    <2>3. Counting(received') /\ Len(received') <= written'
        <3>1. CASE received' = received
            BY <1>1, <2>1, <3>1
        <3>2. CASE received' # received
            <4>1. received' = Append(received, Len(received) + 1) /\ Len(received) + 1 <= written
                BY <2>2, <3>2
            <4>2. Counting(Append(received, Len(received) + 1))
                  /\ Len(Append(received, Len(received) + 1)) = Len(received) + 1
                BY <1>1, <1>2, CountingOn
            <4> QED BY <2>1, <4>1, <4>2
        <3> QED BY <3>1, <3>2
    <2>4. app' = "closed" => Len(received') = written'
        BY <1>1, <2>1, <2>2
    <2>5. answered' \in Nat /\ answered' >= answered /\ (~pumpReads => answered' = answered)
        BY <1>3, ServiceKept
    <2>6. Len(got') <= answered'
        BY <1>1, <1>2, <2>1, <2>5
    <2>7. eof' = "close" => Len(got') = answered'
        <3>1. eof = "close" => ~pumpReads
            BY ServiceFacts DEF Service, pumpReads
        <3> QED BY <1>1, <2>1, <2>5, <3>1
    <2> QED BY <1>1, <2>1, <2>3, <2>4, <2>6, <2>7 DEF StreamIntact, Counting
<1>4. CASE ClientSide
    <2>1. app' = app /\ received' = received /\ answered' = answered
        BY <1>4, ClientEffects DEF exitVars
    <2>2. CASE Read
        <3>1. /\ written' = written /\ pc \in {"stream", "stopped"} /\ eof = "none"
              /\ \/ /\ responses # << >>
                    /\ got' = IF Head(responses).cmd = "data" THEN Append(got, Head(responses).n) ELSE got
                    /\ eof' = IF Head(responses).cmd \in {"close", "error", "openError"}
                              THEN Head(responses).cmd ELSE eof
                 \/ got' = got /\ eof' = "done"
            BY <2>2 DEF Read
        <3>2. CASE got' = got /\ eof' = "done"
            BY <1>1, <2>1, <3>1, <3>2 DEF StreamIntact
        <3>3. CASE responses # << >> /\ Head(responses).cmd = "data"
            <4>1. Head(responses).n = Len(got) + 1 /\ Len(got) + 1 <= answered
                BY <3>1, <3>3, ReadHead
            <4>2. ASSUME got' = (IF Head(responses).cmd = "data" THEN Append(got, Head(responses).n) ELSE got),
                         eof' = (IF Head(responses).cmd \in {"close", "error", "openError"}
                                 THEN Head(responses).cmd ELSE eof)
                  PROVE  got' = Append(got, Len(got) + 1) /\ eof' = eof
                <5>1. got' = Append(got, Head(responses).n)
                    BY <3>3, <4>2
                <5>2. eof' = eof
                    BY <3>3, <4>2
                <5> QED BY <4>1, <5>1, <5>2
            <4>3. CASE got' = Append(got, Len(got) + 1) /\ eof' = eof
                <5>1. Counting(Append(got, Len(got) + 1)) /\ Len(Append(got, Len(got) + 1)) = Len(got) + 1
                    BY <1>1, <1>2, CountingOn
                <5>2. Counting(got') /\ Len(got') <= answered'
                    BY <2>1, <4>1, <4>3, <5>1
                <5> QED BY <1>1, <2>1, <3>1, <4>3, <5>2 DEF StreamIntact, Counting
            <4> QED BY <3>1, <3>2, <4>2, <4>3
        <3>4. CASE responses # << >> /\ Head(responses).cmd = "close"
            <4>1. Len(got) = answered
                BY <3>1, <3>4, ReadHead
            <4>2. got' = got
                BY <3>1, <3>4
            <4> QED BY <1>1, <2>1, <3>1, <4>1, <4>2 DEF StreamIntact
        <3> QED BY <3>1, <3>2, <3>3, <3>4, ReadHead
    <2>3. CASE Write
        <3>1. written' = written + 1 /\ got' = got /\ eof' = eof /\ pc = "stream"
            BY <2>3 DEF Write
        <3>2. registered /\ pump # "none"
            BY <3>1 DEF CircuitInv, Stage
        <3>3. app # "closed"
            BY <3>2, ServiceFacts DEF Service
        <3>4. Len(received') <= written'
            BY <1>1, <1>2, <2>1, <3>1
        <3> QED BY <1>1, <2>1, <3>1, <3>3, <3>4 DEF StreamIntact, Counting
    <2>4. CASE ~Read /\ ~Write
        <3>1. written' = written /\ got' = got /\ eof' = eof
            BY <1>4, <2>4 DEF ClientSide, buildCircuit, waitAnswered, waitFails, WaitReturns,
               Close,
                              closeCircuits, handleCreated, handleReverse
        <3> QED BY <1>1, <2>1, <3>1 DEF StreamIntact
    <2> QED BY <2>2, <2>3, <2>4
<1> QED BY <1>3, <1>4, Sides

-----------------------------------------------------------------------------
(* Somebody will close every open circuit.                                 *)

(* Relay j will tell the next relay, or is cut off from it.                *)
Tending(j) ==
  \/ relay[j].outgoing /\ relay[j].state = "open"
  \/ relay[j].extension \in {"waiting", "answered", "abandoned"}

(* A step that opens nothing and drops no notice at k keeps Closer there.  *)
LEMMA CloserKept ==
  ASSUME CircuitInv, NEW k \in Relays,
         relay'[k].state = "open" \/ Holds(down'[k], "create") =>
            relay[k].state = "open" \/ Holds(down[k], "create"),
         k \in cut => k \in cut', Holds(down[k], "destroy") => Holds(down'[k], "destroy"),
         registered => registered' \/ k # 1,
         k > 1 /\ Tending(k - 1) => Tending(k - 1)'
  PROVE  Closer(k)'
<1>1. Closer(k)
    BY DEF CircuitInv
<1> QED BY <1>1 DEF Closer, Tending

(* The relay before is as it was.                                          *)
LEMMA TendingSteady ==
  ASSUME NEW j, Steady(j), Tending(j)
  PROVE  Tending(j)'
BY DEF Steady, Tending

(* A link that has been read holds no CREATE, and its DESTROY is not lost. *)
LEMMA CloserRead ==
  ASSUME CircuitInv, NEW i \in Relays, down[i] # << >>, down'[i] = Tail(down[i])
  PROVE  /\ ~Holds(down'[i], "create")
         /\ Head(down[i]).kind # "destroy" /\ Holds(down[i], "destroy") => Holds(down'[i], "destroy")
<1>1. down[i] \in Seq(Cells) /\ Sound(down[i])
    BY LinkFacts
<1>2. \A m \in 1..Len(Tail(down[i])) : Tail(down[i])[m] = down[i][m + 1] /\ m + 1 \in 1..Len(down[i])
    BY <1>1, LinkTail
<1>3. ASSUME NEW m \in 1..Len(Tail(down[i])), Tail(down[i])[m].kind = "create"
      PROVE  FALSE
    <2>1. m + 1 = 1
        BY <1>1, <1>2, <1>3 DEF Sound
    <2>2. m \in Nat /\ m >= 1
        BY <1>1
    <2> QED BY <2>1, <2>2
<1>4. ~Holds(Tail(down[i]), "create")
    BY <1>3 DEF Holds
<1>5. Head(down[i]).kind # "destroy" /\ Holds(down[i], "destroy") => Holds(Tail(down[i]), "destroy")
    BY <1>1, HoldsTail
<1> QED BY <1>4, <1>5

(* A link to which a relay cell has been written.                          *)
LEMMA CloserWrites ==
  ASSUME CircuitInv, NEW i \in Relays, NEW c \in Cells, c.kind = "relay",
         down'[i] = down[i] \/ down'[i] = Append(down[i], c), NEW kind, kind # "relay"
  PROVE  Holds(down'[i], kind) <=> Holds(down[i], kind)
<1>1. down[i] \in Seq(Cells)
    BY LinkFacts
<1>2. Holds(Append(down[i], c), kind) <=> Holds(down[i], kind)
    BY <1>1, HoldsAppend
<1> QED BY <1>2

(* A DESTROY has been written.                                             *)
LEMMA CloserEnds ==
  ASSUME CircuitInv, NEW i \in Relays,
         down'[i] = Append(down[i], Control("destroy"))
  PROVE  Holds(down'[i], "destroy")
<1>1. down[i] \in Seq(Cells) /\ Control("destroy") \in Cells /\ Control("destroy").kind = "destroy"
    BY LinkFacts, ControlCells
<1>2. Holds(Append(down[i], Control("destroy")), "destroy")
    BY <1>1, HoldsAppend
<1> QED BY <1>2

(* The client's steps.                                                     *)
LEMMA CloserClient ==
  ASSUME CircuitInv, ClientSide
  PROVE  \A k \in Relays : Closer(k)'
<1>1. /\ relay' = relay /\ cut' = cut
      /\ \A k \in Relays : k # 1 => down'[k] = down[k]
    BY ClientEffects
<1>2. 1 \in Relays /\ \A k \in Relays : k \in Nat
    BY Ranges
<1>3. ASSUME NEW k \in Relays, k # 1 PROVE Closer(k)'
    <2>1. Tending(k - 1) => Tending(k - 1)'
        BY <1>1 DEF Tending
    <2> QED BY <1>1, <1>3, <2>1, CloserKept
<1> SUFFICES Closer(1)'
    BY <1>3
<1>4. ASSUME down'[1] = down[1] \/ \E c \in Cells : c.kind = "relay" /\ down'[1] = Append(down[1], c),
             registered => registered'
      PROVE  Closer(1)'
    <2>1. ASSUME NEW kind, kind # "relay" PROVE Holds(down'[1], kind) <=> Holds(down[1], kind)
        BY <1>2, <1>4, <2>1, CloserWrites
    <2>2. Holds(down'[1], "create") <=> Holds(down[1], "create")
        BY <2>1
    <2>3. Holds(down'[1], "destroy") <=> Holds(down[1], "destroy")
        BY <2>1
    <2>4. ~(1 > 1)
        OBVIOUS
    <2> QED BY <1>1, <1>2, <1>4, <2>2, <2>3, <2>4, CloserKept
<1>5. ASSUME 1 \in cut PROVE Closer(1)'
    BY <1>1, <1>5 DEF Closer
<1>6. ASSUME Holds(down'[1], "destroy") PROVE Closer(1)'
    BY <1>6 DEF Closer
<1>7. CASE buildCircuit
    <2>1. registered'
        BY <1>7 DEF buildCircuit
    <2> QED BY <2>1 DEF Closer
<1>8. CASE (waitAnswered /\ pc # "openOK") \/ Write
    <2>1. registered' = registered
        BY <1>8 DEF waitAnswered, Write
    <2>2. CASE 1 \in cut
        BY <1>5, <2>2
    <2>3. CASE 1 \notin cut
        <3>1. PICK h \in 0..Hops, cmd \in Commands, n \in Nat : down' = Sent(down, 1, Wrapped(h, cmd, n))
            <4>1. CASE waitAnswered /\ pc # "openOK"
                <5>1. down' = Sent(down, 1, Wrapped(hops + 1, IF hops + 1 < Hops THEN "extend" ELSE "open", 0))
                    BY <4>1, AnswerTaken
                <5>2. hops + 1 \in 0..Hops
                    BY <4>1, Ranges, HopAdded
                <5>3. (IF hops + 1 < Hops THEN "extend" ELSE "open") \in Commands /\ 0 \in Nat
                    BY DEF Commands
                <5> QED BY <5>1, <5>2, <5>3
            <4>2. CASE Write
                <5>1. down' = Sent(down, 1, Wrapped(hops, "data", written + 1))
                    BY <4>2 DEF Write
                <5>2. hops \in 0..Hops /\ "data" \in Commands /\ written + 1 \in Nat
                    BY Ranges DEF Commands
                <5> QED BY <5>1, <5>2
            <4> QED BY <1>8, <4>1, <4>2
        <3> PICK c : c = Wrapped(h, cmd, n)
            OBVIOUS
        <3>2. c \in Cells
            BY ClientTypes DEF CircuitInv
        <3>3. c.kind = "relay"
            BY DEF Wrapped, Relay
        <3>4. down \in Links
            BY ClientTypes DEF CircuitInv
        <3>5. down'[1] = Append(down[1], c)
            BY <1>2, <2>3, <3>1, <3>4, SentAt
        <3> QED BY <1>4, <2>1, <3>2, <3>3, <3>5
    <2> QED BY <2>2, <2>3
<1>9. CASE Leaves
    <2>1. CASE 1 \in cut
        BY <1>5, <2>1
    <2>2. CASE 1 \notin cut
        <3>1. down'[1] = Append(down[1], Control("destroy"))
            BY <1>9, <2>2 DEF Leaves, Tells
        <3>2. Holds(down'[1], "destroy")
            BY <1>2, <3>1, CloserEnds
        <3> QED BY <1>6, <3>2
    <2> QED BY <2>1, <2>2
<1>10. CASE Listens
    BY <1>4, <1>10 DEF Listens
<1>11. CASE Close
    <2>1. CASE 1 \in cut
        BY <1>5, <2>1
    <2>2. CASE 1 \notin cut
        <3> PICK ch : ch = Sent(down, 1, Wrapped(hops, "close", 0))
            OBVIOUS
        <3>1. ch \in Links
            <4>1. hops \in 0..Hops /\ "close" \in Commands /\ 0 \in Nat
                BY Ranges DEF Commands
            <4>2. Wrapped(hops, "close", 0) \in Cells /\ down \in Links
                BY <4>1, ClientTypes DEF CircuitInv
            <4> QED BY <4>2, SentType
        <3>2. registered /\ down' = closeLocal(ch, TRUE)
            BY <1>11 DEF Close, CircuitInv, Stage
        <3>3. down'[1] = Append(ch[1], Control("destroy"))
            <4>1. down' = Sent(ch, 1, Control("destroy"))
                <5>1. closeLocal(ch, TRUE) = Sent(ch, 1, Control("destroy"))
                    <6>1. registered
                        BY <3>2
                    <6> QED BY <6>1 DEF closeLocal
                <5> QED BY <3>2, <5>1
            <4> PICK c : c = Control("destroy")
                OBVIOUS
            <4>2. Sent(ch, 1, c)[1] = Append(ch[1], c)
                BY <1>2, <2>2, <3>1 DEF Sent, Links
            <4> QED BY <4>1, <4>2
        <3>4. ch[1] \in Seq(Cells)
            BY <1>2, <3>1 DEF Links
        <3>5. Control("destroy") \in Cells /\ Control("destroy").kind = "destroy"
            BY ControlCells
        <3>6. Holds(Append(ch[1], Control("destroy")), "destroy")
            BY <3>4, <3>5, HoldsAppend
        <3> QED BY <1>6, <3>3, <3>6
    <2> QED BY <2>1, <2>2
<1> QED BY <1>7, <1>8, <1>9, <1>10, <1>11, ClientKinds

(* The relays' steps.                                                      *)
LEMMA CloserRelay ==
  ASSUME CircuitInv, RelaySide
  PROVE  \A k \in Relays : Closer(k)'
<1> SUFFICES ASSUME NEW k \in Relays PROVE Closer(k)'
    OBVIOUS
<1>1. registered' = registered
    BY Elsewhere DEF RelaySide, clientVars
<1>2. k \in Nat /\ k >= 1 /\ (k > 1 => k - 1 \in Relays /\ k - 1 + 1 = k)
    BY Ranges DEF Relays
<1>3. ASSUME NEW i \in Relays, k # i, \A j \in Relays : j # i => Steady(j), k \in cut => k \in cut',
             Holds(down'[k], "create") => Holds(down[k], "create"),
             Holds(down[k], "destroy") => Holds(down'[k], "destroy"),
             k = i + 1 /\ Tending(i) => Tending(i)'
      PROVE  Closer(k)'
    <2>1. relay'[k].state = relay[k].state
        BY <1>3 DEF Steady
    <2>2. ASSUME k > 1, Tending(k - 1) PROVE Tending(k - 1)'
        <3>1. CASE k - 1 = i
            <4>1. k = i + 1
                BY <1>2, <2>2, <3>1
            <4>2. Tending(i)'
                BY <1>3, <2>2, <3>1, <4>1
            <4> QED BY <3>1, <4>2
        <3>2. CASE k - 1 # i
            <4>1. Steady(k - 1)
                BY <1>2, <1>3, <2>2, <3>2
            <4> QED BY <2>2, <4>1, TendingSteady
        <3> QED BY <3>1, <3>2
    <2> QED BY <1>1, <1>3, <2>1, <2>2, CloserKept
<1>4. CASE Quiet
    <2>1. \A j \in Relays : Steady(j)
        BY <1>4 DEF Quiet
    <2>2. relay'[k].state = relay[k].state /\ down' = down /\ cut' = cut
        BY <1>4, <2>1 DEF Quiet, Steady
    <2>3. k > 1 /\ Tending(k - 1) => Tending(k - 1)'
        BY <1>2, <2>1, TendingSteady
    <2> QED BY <1>1, <2>2, <2>3, CloserKept
<1>5. ASSUME NEW i \in Relays, NEW from \in {"waiting", "answered", "linking", "linked", "abandoned"},
             NEW to \in {"waiting", "answered", "linking", "linked", "abandoned"}, Extends(i, from, to),
             \/ from = "waiting" /\ to = "answered"
             \/ from = "answered" /\ to = "linking"
             \/ from = "answered" /\ to = "abandoned"
             \/ from = "waiting" /\ to = "abandoned"
             \/ from = "linking" /\ to = "linked"
      PROVE  Closer(k)'
    <2>1. /\ down' = down /\ cut' = cut /\ \A j \in Relays : j # i => Steady(j)
          /\ relay'[i].state = relay[i].state
          /\ relay[i].extension = from /\ relay'[i].extension = to
          /\ IF to = "linking" THEN relay'[i].outgoing /\ relay[i].state # "closed"
                               ELSE relay'[i].outgoing = relay[i].outgoing
        BY <1>5 DEF Extends
    <2>2. Tending(i) => Tending(i)'
        <3>1. relay[i].state \in {"open", "closed"}
            <4>1. relay[i].state \in {"none", "open", "closed"} /\ Grown(i)
                BY RelayFields DEF CircuitInv
            <4>2. relay[i].extension # "none"
                BY <2>1
            <4>3. i \in 1..hops
                BY <4>1, <4>2, Ranges DEF Grown
            <4> QED BY <4>1, <4>3, HopsMade
        <3>2. CASE to = "linking"
            BY <2>1, <3>1, <3>2 DEF Tending
        <3>3. CASE to \in {"answered", "abandoned"}
            BY <2>1, <3>3 DEF Tending
        <3>4. CASE from = "linking" /\ to = "linked"
            BY <2>1, <3>4 DEF Tending
        <3> QED BY <1>5, <3>2, <3>3, <3>4
    <2>3. CASE k # i
        BY <1>3, <2>1, <2>2, <2>3
    <2>4. CASE k = i
        <3>1. k > 1 /\ Tending(k - 1) => Tending(k - 1)'
            <4>1. k > 1 => Steady(k - 1)
                BY <1>2, <2>1, <2>4
            <4> QED BY <4>1, TendingSteady
        <3> QED BY <1>1, <2>1, <2>4, <3>1, CloserKept
    <2> QED BY <2>3, <2>4
<1>6. ASSUME NEW i \in Relays, \A j \in Relays : j # i => Steady(j), cut' = cut, k = i,
             down[i] # << >>, down'[i] = Tail(down[i]),
             relay'[i].state = "open" =>
                 /\ relay[i].state = "open" \/ Holds(down[i], "create")
                 /\ Head(down[i]).kind # "destroy"
      PROVE  Closer(k)'
    <2>1. ~Holds(down'[i], "create")
          /\ (Head(down[i]).kind # "destroy" /\ Holds(down[i], "destroy") => Holds(down'[i], "destroy"))
        BY <1>6, CloserRead
    <2>2. CASE relay'[i].state = "open"
        <3>1. k > 1 /\ Tending(k - 1) => Tending(k - 1)'
            <4>1. k > 1 => Steady(k - 1)
                BY <1>2, <1>6
            <4> QED BY <4>1, TendingSteady
        <3> QED BY <1>1, <1>6, <2>1, <2>2, <3>1, CloserKept
    <2>3. CASE relay'[i].state # "open"
        BY <1>6, <2>1, <2>3 DEF Closer
    <2> QED BY <2>2, <2>3
<1>7. ASSUME NEW i \in Relays, Creates(i)
      PROVE  Closer(k)'
    <2>1. /\ cut' = cut /\ \A j \in Relays : j # i => Steady(j)
          /\ relay[i].state = "none" /\ relay'[i].outgoing = relay[i].outgoing
          /\ relay'[i].extension = relay[i].extension
          /\ down[i] # << >> /\ Head(down[i]).kind = "create" /\ down'[i] = Tail(down[i])
          /\ \A j \in Relays : j # i => down'[j] = down[j]
        BY <1>7 DEF Creates
    <2>2. CASE k # i
        BY <1>3, <2>1, <2>2 DEF Tending
    <2>3. CASE k = i
        <3>1. Holds(down[i], "create") /\ Head(down[i]).kind # "destroy"
            BY <2>1, LinkFacts, HoldsTail
        <3> QED BY <1>6, <2>1, <2>3, <3>1
    <2> QED BY <2>2, <2>3
<1>8. ASSUME NEW i \in Relays, Drops(i)
      PROVE  Closer(k)'
    <2>1. /\ cut' = cut /\ \A j \in Relays : Steady(j)
          /\ down[i] # << >> /\ relay[i].state # "open" /\ down'[i] = Tail(down[i])
          /\ \A j \in Relays : j # i => down'[j] = down[j]
        BY <1>8 DEF Drops
    <2>2. relay'[i].state # "open"
        BY <2>1 DEF Steady
    <2>3. CASE k # i
        BY <1>3, <2>1, <2>3, TendingSteady
    <2>4. CASE k = i
        BY <1>6, <2>1, <2>2, <2>4
    <2> QED BY <2>3, <2>4
<1>9. ASSUME NEW i \in Relays, NEW ext, CountsOne(i, ext),
             ext = relay[i].extension \/ ext = "waiting",
             down'[i] = Tail(down[i]),
             \A j \in Relays : j # i => \/ down'[j] = down[j]
                                        \/ \E c \in Cells : c.kind = "relay" /\ down'[j] = Append(down[j], c)
                                        \/ j = i + 1 /\ ext = "waiting"
      PROVE  Closer(k)'
    <2>1. /\ cut' = cut /\ \A j \in Relays : j # i => Steady(j)
          /\ relay'[i].state = relay[i].state /\ relay'[i].outgoing = relay[i].outgoing
          /\ relay'[i].extension = ext
          /\ relay[i].state = "open" /\ down[i] # << >> /\ Head(down[i]).kind = "relay"
        BY <1>9 DEF CountsOne, LayerOpens, Arrives
    <2>2. CASE k = i
        BY <1>6, <1>9, <2>1, <2>2
    <2>3. CASE k = i + 1 /\ ext = "waiting"
        <3>1. relay'[k - 1].extension = "waiting" /\ k > 1
            BY <1>2, <2>1, <2>3, Ranges
        <3> QED BY <3>1 DEF Closer
    <2>4. CASE k # i /\ ~(k = i + 1 /\ ext = "waiting")
        <3>1. ASSUME NEW kind, kind # "relay" PROVE Holds(down'[k], kind) <=> Holds(down[k], kind)
            <4>1. CASE down'[k] = down[k]
                BY <4>1
            <4>2. CASE \E c \in Cells : c.kind = "relay" /\ down'[k] = Append(down[k], c)
                BY <3>1, <4>2, CloserWrites
            <4> QED BY <1>9, <2>4, <4>1, <4>2
        <3>2. Holds(down'[k], "create") <=> Holds(down[k], "create")
            BY <3>1
        <3>3. Holds(down'[k], "destroy") <=> Holds(down[k], "destroy")
            BY <3>1
        <3>4. Tending(i) => Tending(i)'
            BY <1>9, <2>1 DEF Tending
        <3> QED BY <1>3, <2>1, <2>4, <3>2, <3>3, <3>4
    <2> QED BY <2>2, <2>3, <2>4
<1>10. ASSUME NEW i \in Relays, Passes(i)
       PROVE  Closer(k)'
    <2>1. /\ CountsOne(i, relay[i].extension) /\ i < hops /\ i + 1 \in 1..hops
          /\ down'[i] = Tail(down[i])
          /\ \A j \in Relays : j # i => \/ down'[j] = down[j]
                                        \/ down'[j] = Append(down[j], ForeCell(i + 1, Passed(i)))
        BY <1>10 DEF Passes
    <2>2. ForeCell(i + 1, Passed(i)) \in Cells /\ ForeCell(i + 1, Passed(i)).kind = "relay"
        <3>1. Passed(i) \in Nat
            BY <2>1, Ranges, Positions
        <3> QED BY <2>1, <3>1, ForeFields
    <2> QED BY <1>9, <2>1, <2>2
<1>11. ASSUME NEW i \in Relays, Consumes(i)
       PROVE  Closer(k)'
    <2>1. /\ CountsOne(i, relay[i].extension) /\ down'[i] = Tail(down[i])
          /\ \A j \in Relays : j # i => down'[j] = down[j]
        BY <1>11 DEF Consumes
    <2> QED BY <1>9, <2>1
<1>12. ASSUME NEW i \in Relays, Asks(i)
       PROVE  Closer(k)'
    <2>1. /\ CountsOne(i, "waiting") /\ down'[i] = Tail(down[i])
          /\ \A j \in Relays : j # i => down'[j] = down[j] \/ j = i + 1
        BY <1>12 DEF Asks
    <2> QED BY <1>9, <2>1
<1>13. ASSUME NEW i \in Relays, NEW rest, Finishes(i, rest)
       PROVE  Closer(k)'
    <2>1. /\ cut' = cut /\ Closes(i, rest) /\ relay[i].state # "none"
          /\ rest = down[i] \/ (down[i] # << >> /\ rest = Tail(down[i]))
        BY <1>13 DEF Finishes
    <2>2. /\ relay'[i].state = "closed" /\ relay'[i].outgoing = relay[i].outgoing
          /\ relay'[i].extension = relay[i].extension
          /\ \A j \in Relays : j # i => relay'[j] = relay[j]
          /\ \A j \in Relays : down'[j] = IF j = i + 1 /\ j \notin cut /\ relay[i].outgoing
                                          THEN Append(down[j], Control("destroy"))
                                          ELSE IF j = i THEN rest ELSE down[j]
        BY <2>1 DEF Closes, Becomes
    <2>3. CASE k = i
        <3>1. i # i + 1
            BY <1>2, <2>3
        <3>2. down'[i] = rest
            BY <2>2, <3>1
        <3>3. ~Holds(down[i], "create")
            BY <2>1, LinkFacts
        <3>4. ~Holds(rest, "create")
            BY <2>1, <3>3, LinkFacts, HoldsTail
        <3> QED BY <2>2, <2>3, <3>2, <3>4 DEF Closer
    <2>4. CASE k = i + 1 /\ relay[i].outgoing
        <3>1. CASE k \in cut
            BY <2>1, <3>1 DEF Closer
        <3>2. CASE k \notin cut
            <4>1. down'[k] = Append(down[k], Control("destroy"))
                BY <2>2, <2>4, <3>2
            <4>2. Holds(down'[k], "destroy")
                BY <4>1, CloserEnds
            <4> QED BY <4>2 DEF Closer
        <3> QED BY <3>1, <3>2
    <2>5. CASE k # i /\ ~(k = i + 1 /\ relay[i].outgoing)
        <3>1. down'[k] = down[k]
            BY <2>2, <2>5
        <3>2. k = i + 1 /\ Tending(i) => Tending(i)'
            BY <2>2, <2>5 DEF Tending
        <3>3. \A j \in Relays : j # i => Steady(j)
            BY <2>2 DEF Steady
        <3> QED BY <1>3, <2>1, <2>5, <3>1, <3>2, <3>3
    <2> QED BY <2>3, <2>4, <2>5
<1>14. ASSUME NEW i \in Relays, Cuts(i)
       PROVE  Closer(k)'
    <2>1. relay' = relay /\ cut' = cut \union {i} /\ \A j \in Relays : j # i => down'[j] = down[j]
        BY <1>14 DEF Cuts
    <2>2. CASE k = i
        BY <2>1, <2>2 DEF Closer
    <2>3. CASE k # i
        <3>1. \A j \in Relays : Steady(j)
            BY <2>1 DEF Steady
        <3> QED BY <1>3, <2>1, <2>3, <3>1, TendingSteady
    <2> QED BY <2>2, <2>3
<1>15. ASSUME NEW i \in Relays, Kind(i) PROVE Closer(k)'
    BY <1>5, <1>7, <1>8, <1>10, <1>11, <1>12, <1>13, <1>14, <1>15 DEF Kind
<1> QED BY <1>4, <1>15, RelayKinds

(* Somebody closes every circuit.                                          *)
LEMMA CloserStep ==
  ASSUME CircuitInv, CircuitNext
  PROVE  \A k \in Relays : Closer(k)'
BY Sides, CloserClient, CloserRelay

-----------------------------------------------------------------------------
(* The invariant.                                                          *)

(* It holds at first.                                                      *)
LEMMA CircuitInvInit == CircuitInit => CircuitInv
<1> SUFFICES ASSUME CircuitInit PROVE CircuitInv
    OBVIOUS
<1>1. CircuitTypeOK
    BY TypeInit
<1>2. /\ pc = "new" /\ hops = 0 /\ registered = FALSE /\ responses = << >> /\ eof = "none"
      /\ app = "none" /\ pump = "none" /\ cut = {}
      /\ written = 0 /\ answered = 0 /\ received = << >> /\ got = << >>
    BY DEF CircuitInit
<1>3. Hops \in Nat /\ Hops >= 1 /\ Hops \in Relays /\ \A i \in Relays : i \in Nat /\ i >= 1
    BY HopsAssumption DEF Relays
<1>4. /\ \A j \in Relays : sendSeq[j] = 0 /\ recvSeq[j] = 0 /\ down[j] = << >> /\ up[j] = << >>
      /\ \A j \in Relays : /\ relay[j].state = "none" /\ relay[j].fwdSeq = 0 /\ relay[j].revSeq = 0
                           /\ relay[j].outgoing = FALSE /\ relay[j].extension = "none"
      /\ \A j \in Relays : \A g \in Goroutines : sending[j][g] = NoCell
    BY DEF CircuitInit, NewRelay
<1>5. \A i \in Relays : ~(i <= hops) /\ ~(i < hops) /\ i # hops
    BY <1>2, <1>3
<1>6. Stage
    BY <1>2, <1>3 DEF Stage
<1>7. Numbers
    BY <1>4, <1>5 DEF Numbers
<1>8. ASSUME NEW i \in Relays PROVE Grown(i)
    BY <1>4, <1>5 DEF Grown
<1>9. ASSUME NEW i \in Relays PROVE Writers(i)
    BY <1>4 DEF Writers, Goroutines
<1>10. Len(<< >>) = 0 /\ \A m \in 1..0 : FALSE
    OBVIOUS
<1>11. ASSUME NEW i \in Relays
       PROVE  /\ \A kind : ~Holds(down[i], kind) /\ ~Holds(up[i], kind)
              /\ \A m \in 1..Len(down[i]) : FALSE
              /\ \A m \in 1..Len(up[i]) : FALSE
    BY <1>4, <1>10 DEF Holds
<1>12. ASSUME NEW i \in Relays PROVE Making(i)
    <2>1. ~Made(i)
        <3>1. CASE i = 1
            BY <1>2, <3>1 DEF Made
        <3>2. CASE i # 1
            <4>1. i - 1 \in Relays
                BY <1>3, <3>2 DEF Relays
            <4> QED BY <1>4, <3>2, <4>1 DEF Made
        <3> QED BY <3>1, <3>2
    <2> QED BY <1>4, <1>11, <2>1 DEF Making
<1>13. ForwardOrder
    <2>1. \A i \in 0..hops : i = 0
        BY <1>2
    <2>2. Passed(0) = 0
        BY <1>2 DEF Passed, Total
    <2> QED BY <2>1, <2>2 DEF ForwardOrder
<1>14. \A i \in 1..hops : Forward(i)
    BY <1>2, <1>10
<1>15. Returning
    BY <1>2 DEF Returning
<1>16. Queued
    <2>1. Len(responses) = 0 /\ ~(hops >= 1)
        BY <1>2
    <2> QED BY <1>2, <1>10, <2>1 DEF Queued
<1>17. Service
    BY <1>2, <1>3, <1>4 DEF Service, Goroutines
<1>18. StreamIntact
    <2>1. Counting(<< >>)
        BY DEF Counting
    <2> QED BY <1>2, <1>10, <2>1 DEF StreamIntact
<1>19. ASSUME NEW i \in Relays PROVE Closer(i)
    BY <1>4, <1>11 DEF Closer
<1> QED BY <1>1, <1>6, <1>7, <1>8, <1>9, <1>12, <1>13, <1>14, <1>15, <1>16, <1>17, <1>18, <1>19
        DEF CircuitInv

(* Types.                                                                  *)
LEMMA CircuitTypeStep ==
  ASSUME CircuitInv, CircuitNext
  PROVE  CircuitTypeOK'
<1>1. CircuitTypeOK /\ Stage
    BY DEF CircuitInv
<1>2. CASE ClientSide
    BY <1>1, <1>2, TypeClient DEF ClientSide
<1>3. CASE pumpEnds \/ pumpWrites \/ pumpReads \/ serviceEnds
    BY <1>1, <1>3, TypeOther
<1>4. ASSUME NEW i \in Relays, NEW g \in Goroutines, writeReverse(i, g)
      PROVE  CircuitTypeOK'
    BY <1>1, <1>4, TypeOther
<1>5. "in" \in Goroutines /\ "out" \in Goroutines /\ "extend" \in Goroutines
    BY DEF Goroutines
<1>6. ASSUME NEW i \in Relays, ReaderIn(i)
      PROVE  CircuitTypeOK'
    <2>1. forwardOn(i) => Head(down[i]).layers # << >>
        BY ForwardOnEffect
    <2>2. CASE writeReverse(i, "in")
        BY <1>4, <1>5, <2>2
    <2>3. CASE ~writeReverse(i, "in")
        BY <1>1, <1>6, <2>1, <2>3, TypeReader DEF ReaderIn
    <2> QED BY <2>2, <2>3
<1>7. ASSUME NEW i \in Relays, ReaderOut(i)
      PROVE  CircuitTypeOK'
    <2>1. CASE handleCircuitCreated(i)
        <3>1. forwardOn(i) => Head(down[i]).layers # << >>
            BY ForwardOnEffect
        <3> QED BY <1>1, <2>1, <3>1, TypeReader
    <2>2. CASE handleCircuitReverse(i)
        <3>1. forwardOn(i) => Head(down[i]).layers # << >>
            BY ForwardOnEffect
        <3> QED BY <1>1, <2>2, <3>1, TypeReader
    <2> QED BY <1>4, <1>5, <1>7, <2>1, <2>2 DEF ReaderOut
<1>8. ASSUME NEW i \in Relays, Extension(i)
      PROVE  CircuitTypeOK'
    <2>1. CASE extendAnswered(i)
        BY <1>1, <2>1, TypeOther
    <2>2. CASE extendLinked(i)
        BY <1>1, <2>2, TypeOther
    <2> QED BY <1>4, <1>5, <1>8, <2>1, <2>2 DEF Extension
<1>9. ASSUME NEW i \in Relays, extendTimesOut(i) \/ Cut(i)
      PROVE  CircuitTypeOK'
    BY <1>1, <1>9, TypeOther
<1> QED BY <1>2, <1>3, <1>6, <1>7, <1>8, <1>9, Sides DEF RelaySide

(* Nothing happens.                                                        *)
LEMMA CircuitStutter ==
  ASSUME CircuitInv, UNCHANGED circuitVars
  PROVE  CircuitInv'
<1>1. /\ pc' = pc /\ hops' = hops /\ sendSeq' = sendSeq /\ recvSeq' = recvSeq
      /\ registered' = registered /\ responses' = responses /\ eof' = eof /\ relay' = relay
      /\ sending' = sending /\ app' = app /\ pump' = pump /\ down' = down /\ up' = up /\ cut' = cut
      /\ written' = written /\ received' = received /\ answered' = answered /\ got' = got
      /\ budget' = budget
    BY DEF circuitVars
<1>2. CircuitTypeOK' /\ Stage' /\ StreamIntact'
    BY <1>1 DEF CircuitInv, CircuitTypeOK, Stage, StreamIntact
<1>3. Total' = Total
    BY <1>1 DEF Total
<1>4. Numbers'
    BY <1>1, <1>3 DEF CircuitInv, Numbers
<1>5. \A i \in Relays : Grown(i)'
    BY <1>1 DEF CircuitInv, Grown
<1>6. \A i \in Relays : Writers(i)'
    BY <1>1 DEF CircuitInv, Writers
<1>7. \A i \in Relays : Making(i)'
    BY <1>1 DEF CircuitInv, Making, Begun, Made
<1>8. ASSUME NEW k PROVE Passed(k)' = Passed(k) /\ Returned(k)' = Returned(k)
    BY <1>1, <1>3 DEF Passed, Returned
<1>9. ForwardOrder'
    BY <1>1, <1>8 DEF CircuitInv, ForwardOrder
<1>10. ASSUME NEW k \in 1..hops PROVE Forward(k)'
    BY <1>1, <1>8, <1>10, ForwardSame DEF Upstream
<1>11. Remembers
    <2>1. answered \in Nat /\ answered <= answered
        BY Ranges
    <2> QED BY <1>1, <2>1 DEF Remembers
<1>12. Returning'
    <2>1. SUFFICES ASSUME registered', hops' >= 1 PROVE Coming'
        BY DEF Returning, Coming
    <2> QED BY <1>1, <1>11, <2>1, ComingSame
<1>13. Queued'
    BY <1>1 DEF CircuitInv, Queued, Waiting, Answer
<1>14. Service'
    BY <1>1, ServiceSame DEF exitVars
<1>15. \A i \in Relays : Closer(i)'
    BY <1>1 DEF CircuitInv, Closer
<1> QED BY <1>1, <1>2, <1>4, <1>5, <1>6, <1>7, <1>9, <1>10, <1>12, <1>13, <1>14, <1>15
           DEF CircuitInv

(* It holds after every step.                                              *)
LEMMA CircuitInvStep ==
  ASSUME CircuitInv, [CircuitNext]_circuitVars
  PROVE  CircuitInv'
<1>1. CASE CircuitNext
    <2>1. CircuitTypeOK' /\ Stage' /\ Numbers'
        BY <1>1, CircuitTypeStep, StageStep, NumbersStep
    <2>2. (\A k \in Relays : Grown(k)') /\ (\A k \in Relays : Writers(k)')
        BY <1>1, GrownStep, WritersStep
    <2>3. (\A k \in Relays : Making(k)') /\ (\A k \in Relays : Closer(k)')
        BY <1>1, MakingStep, CloserStep
    <2>4. (\A k \in 1..hops' : Forward(k)') /\ ForwardOrder'
        BY <1>1, ForwardStep
    <2>5. Returning' /\ Queued' /\ Service' /\ StreamIntact'
        BY <1>1, ReturningStep, QueuedStep, ServiceStep, StreamStep
    <2> QED BY <2>1, <2>2, <2>3, <2>4, <2>5 DEF CircuitInv
<1>2. CASE UNCHANGED circuitVars
    BY <1>2, CircuitStutter
<1> QED BY <1>1, <1>2

(* No cell is out of sequence.                                             *)
LEMMA CircuitInvInSequence == CircuitInv => InSequence
<1> SUFFICES ASSUME CircuitInv PROVE InSequence
    OBVIOUS
<1>1. CircuitTypeOK
    BY DEF CircuitInv
<1>2. ASSUME NEW i \in Relays, down[i] # << >>, Head(down[i]).kind = "relay", relay[i].state = "open"
      PROVE  /\ Head(Head(down[i]).layers) = relay[i].fwdSeq
             /\ Len(Head(down[i]).layers) > 1 <=> relay[i].outgoing
    <2>1. /\ i \in 1..hops /\ Passed(i) \in Nat /\ Head(down[i]) = ForeCell(i, Passed(i))
          /\ Head(Head(down[i]).layers) = relay[i].fwdSeq /\ (relay[i].outgoing <=> i < hops)
        BY <1>2, ForwardHead
    <2>2. Head(down[i]).layers = Onion(Passed(i), hops - i + 1)
          /\ Len(Onion(Passed(i), hops - i + 1)) = hops - i + 1
        BY <2>1, ForeFields
    <2>3. i \in Nat /\ hops \in Nat
        BY Ranges
    <2>4. hops - i + 1 > 1 <=> i < hops
        BY <2>3
    <2> QED BY <2>1, <2>2, <2>4
<1>3. up[1] # << >> /\ Head(up[1]).kind = "relay" /\ registered => Opens(Head(up[1]))
    BY ReverseHead
<1>4. Waiting /\ responses # << >> => Head(responses).cmd \in {pc, "openError"}
    BY ResponseHead
<1> QED BY <1>1, <1>2, <1>3, <1>4 DEF InSequence

(* Every open circuit has somebody who will close it.                      *)
LEMMA CircuitInvOwned == CircuitInv => Owned
<1> SUFFICES ASSUME CircuitInv, NEW i \in Relays, relay[i].state = "open"
             PROVE  \/ CutOff(i) \/ Destroyed(i)
                    \/ i = 1 /\ registered
                    \/ i > 1 /\ relay[i - 1].outgoing /\ relay[i - 1].state = "open"
                    \/ i > 1 /\ relay[i - 1].extension \in {"waiting", "answered"}
    BY DEF Owned
<1>1. Closer(i) /\ i \in Nat /\ i >= 1 /\ down[i] \in Seq(Cells)
    BY Ranges, LinkFacts DEF CircuitInv
<1>2. i \in cut => CutOff(i)
    BY <1>1 DEF CutOff
<1>3. Holds(down[i], "destroy") => Destroyed(i)
    BY <1>1 DEF Holds, Destroyed
<1>4. i > 1 /\ relay[i - 1].extension = "abandoned" => CutOff(i)
    <2>1. i > 1 => i - 1 \in 1..(i - 1)
        BY <1>1
    <2> QED BY <2>1 DEF CutOff
<1> QED BY <1>1, <1>2, <1>3, <1>4 DEF Closer

(* The invariant of the circuit's specification.                           *)
LEMMA CircuitInvAlways == CircuitSpec => []CircuitInv
<1>1. CircuitInit => CircuitInv
    BY CircuitInvInit
<1>2. CircuitInv /\ [CircuitNext]_circuitVars => CircuitInv'
    BY CircuitInvStep
<1> QED BY <1>1, <1>2, PTL DEF CircuitSpec

(* Between nodes that keep to the protocol every cell of a circuit is in   *)
(* sequence: each relay's layer opens, with as many layers left as hops    *)
(* follow, the client opens every reverse cell, and the next response is   *)
(* the one that cc.wait is for, or an error (handleCircuitForward,         *)
(* handleReverse, cc.wait).                                                *)
THEOREM CellsInSequence == CircuitSpec => []InSequence
<1>1. CircuitInv => InSequence
    BY CircuitInvInSequence
<1> QED BY <1>1, CircuitInvAlways, PTL

(* No relay's open circuit is forgotten: the client, the relay before it,  *)
(* or a DESTROY on its way will close it, unless it is cut off             *)
(* (closeRelayCircuit, extendCircuit).                                     *)
THEOREM CircuitsAreOwned == CircuitSpec => []Owned
<1>1. CircuitInv => Owned
    BY CircuitInvOwned
<1> QED BY <1>1, CircuitInvAlways, PTL

(* Data of the stream arrives in order and without gaps, and whoever sees  *)
(* the stream end has all that was written before (circuitConn.Read,       *)
(* circuitConn.Close, openCircuitTarget).                                  *)
THEOREM StreamsArriveIntact == CircuitSpec => []StreamIntact
<1>1. CircuitInv => StreamIntact
    BY DEF CircuitInv
<1> QED BY <1>1, CircuitInvAlways, PTL
==============================================================================
