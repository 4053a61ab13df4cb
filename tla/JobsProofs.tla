----------------------------- MODULE JobsProofs ------------------------------
(***************************************************************************)
(* Proofs about Jobs: for every set of jobs and any number of faults, the  *)
(* control plane is safe (ControlPlane).                                   *)
(***************************************************************************)
EXTENDS Jobs, FiniteSetTheorems, WellFoundedInduction, TLAPS

-----------------------------------------------------------------------------
(* The inductive invariant, part by part.                                  *)

Requests ==
  [op : Calls, key : Keys, late : Nat, there : BOOLEAN, job : Jobs \cup {None}, out : Ended \cup {None}]

Answers == {"error", "enrolled", "ok", "nothing"}

Shapes ==
  /\ file \in States /\ mem \in States /\ up \in BOOLEAN /\ (backup = None \/ backup \in States)
  /\ created \subseteq Jobs /\ restored \in Nat /\ nFaults \in 0 .. MaxFaults
  /\ (disk = None \/ disk \in [key : Keys, id : BOOLEAN]) /\ key \in Keys \cup {None} /\ drawn \in Nat
  /\ pc \in Calls \cup {"down", "start", "tick", "poll", "execute", "command", "report"}
  /\ cur \in Jobs \cup {None} /\ out \in Ended \cup {None}
  /\ stack \in [yaml : BOOLEAN, there : BOOLEAN]
  /\ runs \in [Jobs -> Nat] /\ outcomes \in [Jobs -> SUBSET Ended]
  /\ reqs \subseteq Requests /\ resp \in Jobs \cup Answers \cup {None}

(* A key is drawn again only after a failed save, so nobody has used the   *)
(* others: all that is signed or listed is the key on the agent's disk.    *)
Known == IF disk = None THEN {} ELSE {disk.key}

Identity ==
  /\ drawn <= nFaults + (IF disk = None THEN 0 ELSE 1)
  /\ file.agents \subseteq Known /\ mem.agents \subseteq Known
  /\ backup # None => backup.agents \subseteq Known
  /\ \A r \in reqs : r.key \in Known
  /\ pc # "down" => key \in Known

(* The agent waits for at most one request, and a job is handed over only  *)
(* in the answer to a poll.                                                *)
OneCall ==
  /\ \A r \in reqs : r.late = 0 => r.op = pc /\ resp = None
  /\ \A r, q \in reqs : r.late = 0 /\ q.late = 0 => r = q
  /\ resp \in Jobs => pc = "next"
  /\ resp # None => pc \in Calls

(* Whoever holds a job holds one that was created; what is reported of it  *)
(* is an outcome of a run.                                                 *)
Evidence(j, o) == j \in created /\ o \in outcomes[j] /\ runs[j] >= 1

InHands ==
  /\ resp \in Jobs => resp \in created
  /\ pc \in {"execute", "command", "report"} => cur \in created
  /\ pc \in {"command", "report"} => runs[cur] >= 1
  /\ pc = "report" => out \in outcomes[cur]
  /\ \A r \in reqs : r.op = "result" => Evidence(r.job, r.out)

(* The executions a job has had and those it may still have.               *)
Chances(j) ==
  runs[j] + (IF resp = j THEN 1 ELSE 0) + (IF pc = "execute" /\ cur = j THEN 1 ELSE 0)
  + (IF file.jobs[j].st \in {"absent", "pending"} THEN 1 ELSE 0)

Bounded == \A j \in Jobs : Chances(j) <= 1 + restored

(* What a state of Control says of its jobs is true.                       *)
Truthful(state) ==
  \A j \in Jobs :
    /\ j \notin created => state.jobs[j].st = "absent"
    /\ state.jobs[j].st \in Ended => state.jobs[j].st \in outcomes[j]

Records == Truthful(file) /\ (backup # None => Truthful(backup))

(* Jobs are numbered as they are created and leave the queue in order.     *)
Ordered ==
  restored = 0 =>
    /\ \A j \in created : file.jobs[j].at < Cardinality(created)
    /\ \A i, j \in created :
         /\ file.jobs[i].at < file.jobs[j].at /\ file.jobs[i].st = "pending"
         /\ file.jobs[i].agent = file.jobs[j].agent
         => file.jobs[j].st = "pending"

JobsInv ==
  /\ Shapes /\ MemoryIsDurable /\ Identity /\ OneCall /\ InHands
  /\ Bounded /\ Records /\ Ordered /\ RunningIsHeld

-----------------------------------------------------------------------------
(* States of Control, field by field.                                      *)
JobRecords == [st : Statuses, agent : Keys \cup {None}, at : 0 .. Cardinality(Jobs)]

(* The types of the fields of a state of the control server's store. *)
LEMMA StateFields ==
  ASSUME NEW m \in States
  PROVE  /\ m.agents \subseteq Keys /\ m.inventory \in BOOLEAN /\ m.jobs \in [Jobs -> JobRecords]
         /\ \A j \in Jobs : m.jobs[j].st \in Statuses /\ m.jobs[j].agent \in Keys \cup {None} /\ m.jobs[j].at \in Nat
<1>1. m.agents \subseteq Keys /\ m.inventory \in BOOLEAN /\ m.jobs \in [Jobs -> JobRecords]
    BY DEF States, JobRecords
<1> QED BY <1>1 DEF JobRecords

(* Only the status of job j changes, to x.                                 *)
SetTo(m, n, j, x) ==
  /\ n.agents = m.agents /\ n.inventory = m.inventory
  /\ n.jobs[j].st = x /\ n.jobs[j].agent = m.jobs[j].agent /\ n.jobs[j].at = m.jobs[j].at
  /\ \A i \in Jobs \ {j} : n.jobs[i] = m.jobs[i]

(* Setting the status of one job leaves a state, and leaves the others alone. *)
LEMMA SetStatus ==
  ASSUME NEW m \in States, NEW j \in Jobs, NEW x \in Statuses, NEW n, n = [m EXCEPT !.jobs[j].st = x]
  PROVE  n \in States /\ SetTo(m, n, j, x)
<1>1. m = [agents |-> m.agents, inventory |-> m.inventory, jobs |-> m.jobs]
    BY DEF States
<1>2. m.jobs \in [Jobs -> JobRecords]
    BY StateFields
<1>3. PICK js : js = [m.jobs EXCEPT ![j].st = x]
    OBVIOUS
<1>4. /\ js \in [Jobs -> JobRecords]
      /\ js[j].st = x /\ js[j].agent = m.jobs[j].agent /\ js[j].at = m.jobs[j].at
      /\ \A i \in Jobs \ {j} : js[i] = m.jobs[i]
    BY <1>2, <1>3 DEF JobRecords
<1>5. n = [m EXCEPT !.jobs = js]
    BY <1>1, <1>3
<1>6. n = [agents |-> m.agents, inventory |-> m.inventory, jobs |-> js]
    BY <1>1, <1>5
<1>7. n \in States
    BY <1>4, <1>6, StateFields DEF States, JobRecords
<1>8. n.agents = m.agents /\ n.inventory = m.inventory /\ n.jobs = js
    BY <1>6
<1> QED BY <1>4, <1>7, <1>8 DEF SetTo

(* A set of jobs has one of the lowest number.                             *)
LEMMA Lowest ==
  ASSUME NEW m \in States, NEW S \in SUBSET Jobs, S # {}
  PROVE  \E j \in S : \A i \in S : m.jobs[j].at <= m.jobs[i].at
<1> DEFINE T == {m.jobs[j].at : j \in S}
           R == OpToRel(<, Nat)
<1>1. T \subseteq Nat /\ T # {}
    BY StateFields
<1>2. IsWellFoundedOn(R, Nat)
    BY NatLessThanWellFounded
<1>3. \A x, y \in Nat : x < y => <<x, y>> \in R
    BY DEF OpToRel
<1> HIDE DEF R
<1>4. PICK x \in T : \A y \in T : ~(<<y, x>> \in R)
    BY <1>1, <1>2, WFMin
<1>5. PICK j \in S : m.jobs[j].at = x
    BY <1>4
<1>6. ASSUME NEW i \in S PROVE m.jobs[j].at <= m.jobs[i].at
    <2>1. m.jobs[i].at \in Nat /\ m.jobs[j].at \in Nat /\ m.jobs[i].at \in T
        BY StateFields
    <2>2. ~(m.jobs[i].at < m.jobs[j].at)
        BY <2>1, <1>3, <1>4, <1>5
    <2> QED BY <2>1, <2>2
<1> QED BY <1>6

-----------------------------------------------------------------------------
(* What a handler does: the new state n of Control and the answer a.       *)
Change(r, n, a) ==
  /\ n \in States /\ n.agents \subseteq mem.agents \cup {r.key}
  /\ \/ r.op # "result" /\ a \in Answers /\ n.jobs = mem.jobs
     \/ /\ r.op = "next" /\ a \in Jobs /\ mem.jobs[a].st = "pending" /\ SetTo(mem, n, a, "running")
        /\ \A i \in Jobs : mem.jobs[i].st = "pending" /\ mem.jobs[i].agent = mem.jobs[a].agent
                           => mem.jobs[a].at <= mem.jobs[i].at
     \/ r.op = "result" /\ a \in Answers /\ r.job \in Jobs /\ SetTo(mem, n, r.job, r.out)

Rejected(r) ==
  /\ up /\ Refuse(r) /\ (nFaults' = nFaults \/ Fault)
  /\ UNCHANGED <<file, mem, up, backup, created, restored, agent>>

(* A handler refuses its request or changes the store and then updates the file. *)
LEMMA HandleFacts ==
  ASSUME JobsInv, NEW r \in reqs, Handle(r)
  PROVE  Rejected(r) \/ \E n, a : Change(r, n, a) /\ Update(r, n, a)
<1>0. /\ mem \in States /\ r \in Requests /\ Keys \subseteq Nat
    BY DEF JobsInv, Shapes, Keys
<1>1. CASE enroll(r)
    <2>1. PICK n : n = [mem EXCEPT !.agents = @ \cup {r.key}]
        OBVIOUS
    <2>2. n = [agents |-> mem.agents \cup {r.key}, inventory |-> mem.inventory, jobs |-> mem.jobs]
        BY <2>1, <1>0 DEF States
    <2>3. n \in States
        BY <2>2, <1>0, StateFields DEF States, JobRecords, Requests
    <2>4. Change(r, n, "enrolled")
        BY <2>2, <2>3, <1>1 DEF Change, enroll, Answers
    <2>5. Update(r, n, "enrolled")
        BY <2>1, <1>1 DEF enroll
    <2> QED BY <2>4, <2>5
<1>2. CASE unknownAgent(r)
    BY <1>2 DEF unknownAgent, Rejected, control
<1>3. CASE heartbeat(r)
    <2>1. PICK n : n = [mem EXCEPT !.inventory = r.there]
        OBVIOUS
    <2>2. n = [agents |-> mem.agents, inventory |-> r.there, jobs |-> mem.jobs]
        BY <2>1, <1>0 DEF States
    <2>3. n \in States
        BY <2>2, <1>0, StateFields DEF States, JobRecords, Requests
    <2>4. Change(r, n, "ok")
        BY <2>2, <2>3, <1>3 DEF Change, heartbeat, Answers
    <2>5. Update(r, n, "ok")
        BY <2>1, <1>3 DEF heartbeat
    <2> QED BY <2>4, <2>5
<1>4. CASE nextJob(r)
    <2> DEFINE js == pendingJobs(r.key)
    <2>1. CASE js = {}
        <3>1. Update(r, mem, "nothing") /\ r.op = "next"
            BY <2>1, <1>4 DEF nextJob
        <3>2. Change(r, mem, "nothing")
            BY <3>1, <1>0 DEF Change, Answers
        <3> QED BY <3>1, <3>2
    <2>2. CASE js # {}
        <3>1. PICK a : a = oldest(js)
            OBVIOUS
        <3>2. a \in js /\ \A i \in js : mem.jobs[a].at <= mem.jobs[i].at
            <4>1. js \in SUBSET Jobs
                BY DEF pendingJobs
            <4>2. \E j \in js : \A i \in js : mem.jobs[j].at <= mem.jobs[i].at
                BY <2>2, <4>1, <1>0, Lowest
            <4> HIDE DEF js
            <4> QED BY <3>1, <4>2 DEF oldest
        <3>3. PICK n : n = [mem EXCEPT !.jobs[a].st = "running"]
            OBVIOUS
        <3>4. Update(r, n, a) /\ r.op = "next"
            BY <2>2, <3>1, <3>3, <1>4 DEF nextJob
        <3>5. /\ a \in Jobs /\ mem.jobs[a].st = "pending" /\ mem.jobs[a].agent = r.key
              /\ \A i \in Jobs : mem.jobs[i].st = "pending" /\ mem.jobs[i].agent = mem.jobs[a].agent
                                 => mem.jobs[a].at <= mem.jobs[i].at
            BY <3>2 DEF pendingJobs
        <3>6. n \in States /\ SetTo(mem, n, a, "running")
            BY <3>3, <3>5, <1>0, SetStatus DEF Statuses
        <3>7. Change(r, n, a)
            BY <3>4, <3>5, <3>6 DEF Change, SetTo
        <3> QED BY <3>4, <3>7
    <2> QED BY <2>1, <2>2
<1>5. CASE jobResult(r)
    <2>1. r.op = "result"
        BY <1>5 DEF jobResult
    <2>2. r.job \in Jobs /\ r.out \in Statuses
        BY <2>1 DEF JobsInv, InHands, Evidence, Shapes, Ended, Statuses
    <2>3. CASE mem.jobs[r.job].agent = r.key
        <3>1. PICK n : n = [mem EXCEPT !.jobs[r.job].st = r.out]
            OBVIOUS
        <3>2. Update(r, n, "ok")
            BY <2>3, <3>1, <1>5 DEF jobResult
        <3>3. n \in States /\ SetTo(mem, n, r.job, r.out)
            BY <3>1, <2>2, <1>0, SetStatus
        <3>4. Change(r, n, "ok")
            BY <3>3, <2>1, <2>2 DEF Change, SetTo, Answers
        <3> QED BY <3>2, <3>4
    <2>4. CASE mem.jobs[r.job].agent # r.key
        BY <2>4, <1>5 DEF jobResult, agentSigned, Rejected, control
    <2> QED BY <2>3, <2>4
<1> QED BY <1>1, <1>2, <1>3, <1>4, <1>5 DEF Handle

-----------------------------------------------------------------------------
(* Who holds a job.                                                        *)
LEMMA Holders ==
  /\ \A R, j : j \in Reported(R) <=> \E q \in R : q.op = "result" /\ q.job = j
  /\ \A a, j : j \in HandedOver(a) <=> a = j /\ j \in Jobs
    BY DEF Reported, HandedOver

(* The answers of a call are told apart from the jobs it may hand out. *)
LEMMA AnswersAreNoJobs == Answers \cap Jobs = {} /\ None \notin Jobs /\ None \notin Answers
    BY JobsAssumption DEF Answers

(* An identity file that exists is not a missing one. *)
LEMMA NoneIsNoIdentity == \A k \in Nat, b \in BOOLEAN : [key |-> k, id |-> b] # None
<1> SUFFICES ASSUME NEW k \in Nat, NEW b \in BOOLEAN PROVE [key |-> k, id |-> b] # None
    OBVIOUS
<1>1. [key |-> k, id |-> b] \in [key : Nat, id : BOOLEAN]
    OBVIOUS
<1> QED BY <1>1, JobsAssumption

(* Chances, as numbers.                                                    *)
LEMMA ChancesType ==
  ASSUME JobsInv, NEW j \in Jobs
  PROVE  runs[j] \in Nat /\ Chances(j) \in Nat /\ restored \in Nat /\ Chances(j) <= 1 + restored
<1>1. runs[j] \in Nat /\ restored \in Nat /\ Chances(j) <= 1 + restored
    BY DEF JobsInv, Shapes, Bounded
<1> QED BY <1>1 DEF Chances

(* What a handler does to the store keeps records truthful and jobs in order: it
   hands out only a job that was pending, and only a result ends one that runs. *)
LEMMA ChangeKeeps ==
  ASSUME JobsInv, up, NEW r \in reqs, NEW n, NEW a, Change(r, n, a), file' = n,
         UNCHANGED <<backup, created, restored, runs, outcomes>>
  PROVE  /\ n \in States /\ n.agents \subseteq Known /\ Records' /\ Ordered' /\ a \in Jobs \cup Answers
         /\ a \in Jobs => a \in created /\ r.op = "next"
         /\ \A j \in Jobs :
              /\ n.jobs[j].st \in {"absent", "pending"} => a # j /\ file.jobs[j].st \in {"absent", "pending"}
              /\ a = j => file.jobs[j].st \in {"absent", "pending"}
              /\ n.jobs[j].st = "running" =>
                   a = j \/ (file.jobs[j].st = "running" /\ ~(r.op = "result" /\ r.job = j))
<1>1. /\ mem = file /\ mem \in States /\ n \in States /\ r.key \in Known /\ mem.agents \subseteq Known
      /\ created \subseteq Jobs
    BY DEF JobsInv, MemoryIsDurable, Shapes, Identity, Change
<1>2. n.agents \subseteq Known
    BY <1>1 DEF Change
<1>3. ASSUME NEW j \in Jobs
      PROVE  /\ file.jobs[j].st \in Statuses /\ file.jobs[j].at \in Nat
             /\ n.jobs[j].at = file.jobs[j].at /\ n.jobs[j].agent = file.jobs[j].agent
    BY <1>1, StateFields DEF Change, SetTo
<1>4. CASE r.op # "result" /\ a \in Answers /\ n.jobs = mem.jobs
    <2>1. a \notin Jobs
        BY <1>4, AnswersAreNoJobs
    <2>2. Records'
        BY <1>1, <1>4 DEF JobsInv, Records, Truthful
    <2>3. Ordered'
        BY <1>1, <1>4 DEF JobsInv, Ordered
    <2> QED BY <1>1, <1>2, <1>4, <2>1, <2>2, <2>3
<1>5. CASE /\ r.op = "next" /\ a \in Jobs /\ mem.jobs[a].st = "pending" /\ SetTo(mem, n, a, "running")
           /\ \A i \in Jobs : mem.jobs[i].st = "pending" /\ mem.jobs[i].agent = mem.jobs[a].agent
                              => mem.jobs[a].at <= mem.jobs[i].at
    <2>1. a \in created
        BY <1>1, <1>5 DEF JobsInv, Records, Truthful
    <2>2. n.jobs[a].st = "running" /\ \A i \in Jobs \ {a} : n.jobs[i] = file.jobs[i]
        BY <1>1, <1>5 DEF SetTo
    <2>3. Records'
        <3>1. Truthful(n)'
            BY <1>1, <2>1, <2>2 DEF JobsInv, Records, Truthful, Ended
        <3>2. backup' # None => Truthful(backup)'
            BY DEF JobsInv, Records, Truthful
        <3> QED BY <3>1, <3>2 DEF Records, Truthful
    <2>4. Ordered'
        <3> SUFFICES ASSUME restored = 0
                     PROVE  /\ \A j \in created : n.jobs[j].at < Cardinality(created)
                            /\ \A i, j \in created :
                                 /\ n.jobs[i].at < n.jobs[j].at /\ n.jobs[i].st = "pending"
                                 /\ n.jobs[i].agent = n.jobs[j].agent
                                 => n.jobs[j].st = "pending"
            BY DEF Ordered
        <3>1. \A j \in created : n.jobs[j].at < Cardinality(created)
            BY <1>1, <1>3 DEF JobsInv, Ordered
        <3>2. ASSUME NEW i \in created, NEW j \in created, n.jobs[i].at < n.jobs[j].at,
                     n.jobs[i].st = "pending", n.jobs[i].agent = n.jobs[j].agent
              PROVE  n.jobs[j].st = "pending"
            <4>1. i # a /\ i \in Jobs /\ j \in Jobs
                BY <3>2, <2>2, <1>1
            <4>2. file.jobs[i].st = "pending" /\ file.jobs[i].at < file.jobs[j].at
                  /\ file.jobs[i].agent = file.jobs[j].agent
                BY <3>2, <4>1, <2>2, <1>3
            <4>3. j # a
                <5>1. j = a => file.jobs[a].at <= file.jobs[i].at
                    BY <4>1, <4>2, <1>1, <1>5
                <5> QED BY <5>1, <4>1, <4>2, <1>3
            <4>4. file.jobs[j].st = "pending"
                BY <3>2, <4>2 DEF JobsInv, Ordered
            <4> QED BY <4>1, <4>3, <4>4, <2>2
        <3> QED BY <3>1, <3>2
    <2> QED BY <1>1, <1>2, <1>5, <2>1, <2>2, <2>3, <2>4
<1>6. CASE r.op = "result" /\ a \in Answers /\ r.job \in Jobs /\ SetTo(mem, n, r.job, r.out)
    <2>0. a \notin Jobs
        BY <1>6, AnswersAreNoJobs
    <2>1. r.job \in created /\ r.out \in outcomes[r.job] /\ runs[r.job] >= 1 /\ r.out \in Ended
        BY <1>6 DEF JobsInv, InHands, Evidence, Shapes
    <2>2. n.jobs[r.job].st = r.out /\ \A i \in Jobs \ {r.job} : n.jobs[i] = file.jobs[i]
        BY <1>1, <1>6 DEF SetTo
    <2>3. Records'
        <3>1. Truthful(n)'
            BY <1>1, <2>1, <2>2 DEF JobsInv, Records, Truthful
        <3>2. backup' # None => Truthful(backup)'
            BY DEF JobsInv, Records, Truthful
        <3> QED BY <3>1, <3>2 DEF Records, Truthful
    <2>4. Ordered'
        <3> SUFFICES ASSUME restored = 0
                     PROVE  /\ \A j \in created : n.jobs[j].at < Cardinality(created)
                            /\ \A i, j \in created :
                                 /\ n.jobs[i].at < n.jobs[j].at /\ n.jobs[i].st = "pending"
                                 /\ n.jobs[i].agent = n.jobs[j].agent
                                 => n.jobs[j].st = "pending"
            BY DEF Ordered
        <3>1. \A j \in created : n.jobs[j].at < Cardinality(created)
            BY <1>1, <1>3 DEF JobsInv, Ordered
        <3>2. ASSUME NEW i \in created, NEW j \in created, n.jobs[i].at < n.jobs[j].at,
                     n.jobs[i].st = "pending", n.jobs[i].agent = n.jobs[j].agent
              PROVE  n.jobs[j].st = "pending"
            <4>1. i # r.job /\ i \in Jobs /\ j \in Jobs
                BY <3>2, <2>1, <2>2, <1>1 DEF Ended
            <4>2. file.jobs[i].st = "pending" /\ file.jobs[i].at < file.jobs[j].at
                  /\ file.jobs[i].agent = file.jobs[j].agent
                BY <3>2, <4>1, <2>2, <1>3
            <4>3. file.jobs[j].st = "pending"
                BY <3>2, <4>2 DEF JobsInv, Ordered
            <4>4. j # r.job
                <5>1. Chances(r.job) <= 1 /\ runs[r.job] \in Nat
                    BY <1>6, ChancesType
                <5>2. file.jobs[r.job].st # "pending"
                    BY <5>1, <2>1 DEF Chances
                <5> QED BY <5>2, <4>3
            <4> QED BY <4>1, <4>3, <4>4, <2>2
        <3> QED BY <3>1, <3>2
    <2> QED BY <1>1, <1>2, <1>6, <2>0, <2>1, <2>2, <2>3, <2>4 DEF Ended
<1> QED BY <1>4, <1>5, <1>6 DEF Change

(* The actions, one lemma each.                                            *)
LEMMA RejectedStep ==
  ASSUME JobsInv, NEW r \in reqs, Rejected(r)
  PROVE  JobsInv'
<1>1. /\ reqs' = reqs \ {r} /\ resp' = (IF r.late = 0 THEN "error" ELSE resp)
      /\ dropped' = dropped \cup Reported({r})
      /\ UNCHANGED <<file, mem, up, backup, created, restored>>
      /\ UNCHANGED <<disk, key, pc, cur, out, stack, drawn, runs, outcomes>>
    BY DEF Rejected, Refuse, agent
<1>2. nFaults \in 0 .. MaxFaults /\ nFaults' \in 0 .. MaxFaults /\ nFaults <= nFaults'
    BY BoundAssumption DEF JobsInv, Shapes, Rejected, Fault
<1>3. "error" \in Answers /\ "error" \notin Jobs
    BY JobsAssumption DEF Answers
<1>4. Shapes'
    BY <1>1, <1>2, <1>3 DEF JobsInv, Shapes
<1>5. MemoryIsDurable' /\ Records' /\ Ordered'
    BY <1>1 DEF JobsInv, MemoryIsDurable, Records, Truthful, Ordered
<1>6. Identity'
    <2>1. Known' = Known
        BY <1>1 DEF Known
    <2>2. drawn' <= nFaults' + (IF disk' = None THEN 0 ELSE 1)
        BY <1>1, <1>2 DEF JobsInv, Identity, Shapes
    <2> QED BY <1>1, <2>1, <2>2 DEF JobsInv, Identity
<1>7. OneCall'
    <2>1. r.op \in Calls
        BY DEF JobsInv, Shapes, Requests
    <2> QED BY <1>1, <1>3, <2>1 DEF JobsInv, OneCall
<1>8. InHands'
    BY <1>1, <1>3 DEF JobsInv, InHands, Evidence
<1>9. Bounded'
    <2>1. ASSUME NEW j \in Jobs PROVE Chances(j)' <= Chances(j)
        <3>1. resp' = j => resp = j
            BY <1>1, <1>3
        <3>2. runs[j] \in Nat
            BY ChancesType
        <3> QED BY <3>1, <3>2, <1>1 DEF Chances
    <2>2. ASSUME NEW j \in Jobs PROVE Chances(j)' \in Nat
        <3>1. runs[j] \in Nat
            BY ChancesType
        <3> QED BY <3>1, <1>1 DEF Chances
    <2> QED BY <2>1, <2>2, <1>1, ChancesType DEF Bounded
<1>10. RunningIsHeld'
    <2> SUFFICES ASSUME NEW j \in Jobs, file.jobs[j].st = "running" PROVE j \in Held' \cup dropped'
        BY <1>1 DEF RunningIsHeld
    <2>1. j \in Held \cup dropped
        BY DEF JobsInv, RunningIsHeld
    <2>2. j \in HandedOver(resp) => j \in HandedOver(resp')
        <3>1. resp = j => r.late # 0
            BY AnswersAreNoJobs DEF JobsInv, OneCall
        <3> QED BY <3>1, <1>1, Holders
    <2>3. InHand' = InHand
        BY <1>1 DEF InHand
    <2>4. j \in Reported(reqs) => j \in Reported(reqs') \/ j \in dropped'
        BY <1>1, Holders
    <2> QED BY <1>1, <2>1, <2>2, <2>3, <2>4 DEF Held
<1> QED BY <1>4, <1>5, <1>6, <1>7, <1>8, <1>9, <1>10 DEF JobsInv

(* A handler whose save succeeds and whose answer goes out keeps the invariant. *)
LEMMA SavedStep ==
  ASSUME JobsInv, NEW r \in reqs, NEW n, NEW a, Change(r, n, a),
         up, file' = n, mem' = n, Reply(r, a), UNCHANGED <<up, nFaults>>,
         UNCHANGED <<backup, created, restored, agent>>
  PROVE  JobsInv'
<1>1. /\ reqs' = reqs \ {r} /\ resp' = (IF r.late = 0 THEN a ELSE resp)
      /\ dropped' = dropped \cup (IF r.late = 0 THEN {} ELSE HandedOver(a))
      /\ UNCHANGED <<disk, key, pc, cur, out, stack, drawn, runs, outcomes>>
    BY DEF Reply, agent
<1>2. /\ n \in States /\ n.agents \subseteq Known /\ Records' /\ Ordered' /\ a \in Jobs \cup Answers
      /\ a \in Jobs => a \in created /\ r.op = "next"
      /\ \A j \in Jobs :
           /\ n.jobs[j].st \in {"absent", "pending"} => a # j /\ file.jobs[j].st \in {"absent", "pending"}
           /\ a = j => file.jobs[j].st \in {"absent", "pending"}
           /\ n.jobs[j].st = "running" =>
                a = j \/ (file.jobs[j].st = "running" /\ ~(r.op = "result" /\ r.job = j))
    BY <1>1, ChangeKeeps
<1>3. /\ \A q \in reqs : q.late = 0 => q.op = pc /\ resp = None
      /\ \A p, q \in reqs : p.late = 0 /\ q.late = 0 => p = q
      /\ resp \in Jobs => pc = "next"
      /\ resp # None => pc \in Calls
      /\ r.op \in Calls
    BY DEF JobsInv, OneCall, Shapes, Requests
<1>4. Shapes'
    BY <1>1, <1>2 DEF JobsInv, Shapes
<1>5. MemoryIsDurable'
    BY DEF MemoryIsDurable
<1>6. Identity'
    <2>1. Known' = Known
        BY <1>1 DEF Known
    <2> QED BY <1>1, <1>2, <2>1 DEF JobsInv, Identity
<1>7. OneCall'
    BY <1>1, <1>2, <1>3 DEF OneCall
<1>8. InHands'
    BY <1>1, <1>2 DEF JobsInv, InHands, Evidence
<1>9. Bounded'
    <2> SUFFICES ASSUME NEW j \in Jobs PROVE Chances(j)' <= 1 + restored
        BY DEF Bounded
    <2>1. runs[j] \in Nat /\ restored \in Nat /\ Chances(j) <= 1 + restored
        BY ChancesType
    <2>2. resp' = j => (r.late = 0 /\ a = j /\ resp # j) \/ resp = j
        BY <1>1, <1>3, AnswersAreNoJobs
    <2>3. /\ n.jobs[j].st \in {"absent", "pending"} => a # j /\ file.jobs[j].st \in {"absent", "pending"}
          /\ a = j => file.jobs[j].st \in {"absent", "pending"}
        BY <1>2
    <2> QED BY <2>1, <2>2, <2>3, <1>1 DEF Chances
<1>10. RunningIsHeld'
    <2> SUFFICES ASSUME NEW j \in Jobs, n.jobs[j].st = "running" PROVE j \in Held' \cup dropped'
        BY DEF RunningIsHeld
    <2>1. CASE a = j
        BY <2>1, <1>1, Holders DEF Held
    <2>2. CASE file.jobs[j].st = "running" /\ ~(r.op = "result" /\ r.job = j)
        <3>1. j \in Held \cup dropped
            BY <2>2 DEF JobsInv, RunningIsHeld
        <3>2. j \in HandedOver(resp) => j \in HandedOver(resp')
            <4>1. resp = j => r.late # 0
                BY <1>3, AnswersAreNoJobs
            <4> QED BY <4>1, <1>1, Holders
        <3>3. InHand' = InHand
            BY <1>1 DEF InHand
        <3>4. j \in Reported(reqs) => j \in Reported(reqs')
            BY <1>1, <2>2, Holders
        <3> QED BY <1>1, <3>1, <3>2, <3>3, <3>4 DEF Held
    <2> QED BY <1>2, <2>1, <2>2
<1> QED BY <1>2, <1>4, <1>5, <1>6, <1>7, <1>8, <1>9, <1>10 DEF JobsInv

(* Control dies: what it was told and had not saved is lost.               *)
LEMMA DiedFacts ==
  ASSUME JobsInv, Died
  PROVE  /\ up' = FALSE /\ reqs' = {} /\ resp' \in {resp, "error"}
         /\ "error" \in Answers /\ "error" \notin Jobs
         /\ resp \in Jobs => resp' = resp
         /\ resp' # None => pc \in Calls
<1>1. "error" \in Answers /\ "error" \notin Jobs
    BY JobsAssumption DEF Answers
<1>2. resp \in Jobs => ~waiting
    BY AnswersAreNoJobs DEF waiting
<1>3. resp # None => pc \in Calls
    BY DEF JobsInv, OneCall
<1> QED BY <1>1, <1>2, <1>3 DEF Died, waiting

(* So does one after whose save Control dies, the answer being lost. *)
LEMMA SavedAndDiedStep ==
  ASSUME JobsInv, NEW r \in reqs, NEW n, NEW a, Change(r, n, a),
         up, Fault, file' = n, Died, UNCHANGED mem,
         dropped' = dropped \cup HandedOver(a) \cup Reported(reqs \ {r}),
         UNCHANGED <<backup, created, restored, agent>>
  PROVE  JobsInv'
<1>1. UNCHANGED <<disk, key, pc, cur, out, stack, drawn, runs, outcomes>>
    BY DEF agent
<1>2. /\ n \in States /\ n.agents \subseteq Known /\ Records' /\ Ordered' /\ a \in Jobs \cup Answers
      /\ \A j \in Jobs :
           /\ n.jobs[j].st \in {"absent", "pending"} => file.jobs[j].st \in {"absent", "pending"}
           /\ n.jobs[j].st = "running" =>
                a = j \/ (file.jobs[j].st = "running" /\ ~(r.op = "result" /\ r.job = j))
    BY <1>1, ChangeKeeps
<1>3. /\ up' = FALSE /\ reqs' = {} /\ resp' \in {resp, "error"}
      /\ "error" \in Answers /\ "error" \notin Jobs
      /\ resp \in Jobs => resp' = resp
      /\ resp' # None => pc \in Calls
    BY DiedFacts
<1>4. nFaults \in 0 .. MaxFaults /\ nFaults' \in 0 .. MaxFaults /\ nFaults <= nFaults'
    BY BoundAssumption DEF JobsInv, Shapes, Fault
<1>5. Shapes'
    BY <1>1, <1>2, <1>3, <1>4, ZenonT(30) DEF JobsInv, Shapes
<1>6. MemoryIsDurable'
    BY <1>3 DEF MemoryIsDurable
<1>7. Identity'
    <2>1. Known' = Known
        BY <1>1 DEF Known
    <2>2. drawn' <= nFaults' + (IF disk' = None THEN 0 ELSE 1)
        BY <1>1, <1>4 DEF JobsInv, Identity, Shapes
    <2> QED BY <1>1, <1>2, <1>3, <2>1, <2>2 DEF JobsInv, Identity
<1>8. OneCall'
    BY <1>1, <1>3 DEF JobsInv, OneCall
<1>9. InHands'
    BY <1>1, <1>3 DEF JobsInv, InHands
<1>10. Bounded'
    <2> SUFFICES ASSUME NEW j \in Jobs PROVE Chances(j)' <= 1 + restored
        BY DEF Bounded
    <2>1. runs[j] \in Nat /\ restored \in Nat /\ Chances(j) <= 1 + restored
        BY ChancesType
    <2>2. resp' = j => resp = j
        BY <1>3
    <2> QED BY <2>1, <2>2, <1>1, <1>2 DEF Chances
<1>11. RunningIsHeld'
    <2> SUFFICES ASSUME NEW j \in Jobs, n.jobs[j].st = "running" PROVE j \in Held' \cup dropped'
        BY DEF RunningIsHeld
    <2>1. CASE a = j
        BY <2>1, Holders
    <2>2. CASE file.jobs[j].st = "running" /\ ~(r.op = "result" /\ r.job = j)
        <3>1. j \in Held \cup dropped
            BY <2>2 DEF JobsInv, RunningIsHeld
        <3>2. j \in HandedOver(resp) => j \in HandedOver(resp')
            BY <1>3, Holders
        <3>3. InHand' = InHand
            BY <1>1 DEF InHand
        <3>4. j \in Reported(reqs) => j \in Reported(reqs \ {r})
            BY <2>2, Holders
        <3> QED BY <3>1, <3>2, <3>3, <3>4 DEF Held
    <2> QED BY <1>2, <2>1, <2>2
<1> QED BY <1>2, <1>5, <1>6, <1>7, <1>8, <1>9, <1>10, <1>11 DEF JobsInv

(* Every handler keeps the invariant, whatever becomes of its save. *)
LEMMA HandleStep ==
  ASSUME JobsInv, NEW r \in reqs, Handle(r)
  PROVE  JobsInv'
<1>1. ASSUME NEW n, NEW a, Change(r, n, a), Update(r, n, a) PROVE JobsInv'
    <2>1. CASE /\ up /\ file' = n /\ mem' = n /\ Reply(r, a) /\ UNCHANGED <<up, nFaults>>
               /\ UNCHANGED <<backup, created, restored, agent>>
        BY <1>1, <2>1, SavedStep
    <2>2. CASE Rejected(r)
        BY <2>2, RejectedStep
    <2>3. CASE /\ up /\ Fault /\ file' = n /\ Died /\ UNCHANGED mem
               /\ dropped' = dropped \cup HandedOver(a) \cup Reported(reqs \ {r})
               /\ UNCHANGED <<backup, created, restored, agent>>
        BY <1>1, <2>3, SavedAndDiedStep
    <2> QED BY <1>1, <2>1, <2>2, <2>3 DEF Update, Rejected
<1> QED BY <1>1, HandleFacts, RejectedStep

-----------------------------------------------------------------------------
(* What the remaining actions have in common.                              *)
LEMMA NoNewChance ==
  ASSUME JobsInv, UNCHANGED <<restored, runs>>,
         \A j \in Jobs :
            /\ resp' = j => resp = j
            /\ pc' = "execute" /\ cur' = j => pc = "execute" /\ cur = j
            /\ file'.jobs[j].st \in {"absent", "pending"} => file.jobs[j].st \in {"absent", "pending"}
  PROVE  Bounded'
<1> SUFFICES ASSUME NEW j \in Jobs PROVE Chances(j)' <= 1 + restored
    BY DEF Bounded
<1>1. runs[j] \in Nat /\ restored \in Nat /\ Chances(j) <= 1 + restored
    BY ChancesType
<1>2. /\ resp' = j => resp = j
      /\ pc' = "execute" /\ cur' = j => pc = "execute" /\ cur = j
      /\ file'.jobs[j].st \in {"absent", "pending"} => file.jobs[j].st \in {"absent", "pending"}
    OBVIOUS
<1> QED BY <1>1, <1>2 DEF Chances

(* A step that leaves the server and the outcomes alone keeps its three parts. *)
LEMMA ControlUntouched ==
  ASSUME JobsInv, UNCHANGED <<file, mem, up, backup, created, restored, outcomes>>
  PROVE  MemoryIsDurable' /\ Records' /\ Ordered'
    BY DEF JobsInv, MemoryIsDurable, Records, Truthful, Ordered

(* The count of faults stays within its bound and does not go back. *)
LEMMA FaultFacts ==
  ASSUME JobsInv, nFaults' = nFaults \/ Fault
  PROVE  nFaults \in 0 .. MaxFaults /\ nFaults' \in 0 .. MaxFaults /\ nFaults <= nFaults'
    BY BoundAssumption DEF JobsInv, Shapes, Fault

(* No job is orphaned by a step that starts none and lets go of a job only by
   counting it as dropped. *)
LEMMA StillHeld ==
  ASSUME JobsInv, dropped \subseteq dropped',
         \A j \in Jobs : file'.jobs[j].st = "running" => file.jobs[j].st = "running",
         \A j \in Jobs : j \in Held => j \in Held' \cup dropped'
  PROVE  RunningIsHeld'
    BY DEF JobsInv, RunningIsHeld

(* The disk and the drawn keys stay as they are.                           *)
LEMMA SameIdentity ==
  ASSUME JobsInv, nFaults' = nFaults \/ Fault, UNCHANGED <<disk, drawn>>,
         file'.agents \subseteq Known, mem'.agents \subseteq Known,
         backup' # None => backup'.agents \subseteq Known,
         \A q \in reqs' : q.key \in Known, pc' # "down" => key' \in Known
  PROVE  Identity'
<1>1. Known' = Known
    BY DEF Known
<1>2. drawn' <= nFaults' + (IF disk' = None THEN 0 ELSE 1)
    BY FaultFacts DEF JobsInv, Identity, Shapes
<1> QED BY <1>1, <1>2 DEF Identity

(* Every key in use, stored, restored or on its way belongs to the host. *)
LEMMA IdentityFacts ==
  ASSUME JobsInv
  PROVE  /\ file.agents \subseteq Known /\ mem.agents \subseteq Known
         /\ backup # None => backup.agents \subseteq Known
         /\ \A q \in reqs : q.key \in Known
         /\ pc # "down" => key \in Known
    BY DEF JobsInv, Identity

(* The loss of a request nobody waits for keeps the invariant. *)
LEMMA LateLostStep ==
  ASSUME JobsInv, NEW r \in reqs, LateLost(r)
  PROVE  JobsInv'
<1>1. /\ reqs' = reqs \ {r} /\ dropped' = dropped \cup Reported({r})
      /\ UNCHANGED <<file, mem, up, backup, created, restored>>
      /\ UNCHANGED <<disk, key, pc, cur, out, stack, drawn, runs, outcomes>>
      /\ UNCHANGED <<resp, nFaults>>
    BY DEF LateLost, control, agent
<1>2. Shapes'
    BY <1>1 DEF JobsInv, Shapes
<1>3. MemoryIsDurable' /\ Records' /\ Ordered'
    BY <1>1, ControlUntouched
<1>4. Identity'
    BY <1>1, IdentityFacts, SameIdentity
<1>5. OneCall' /\ InHands'
    BY <1>1 DEF JobsInv, OneCall, InHands, Evidence
<1>6. Bounded'
    BY <1>1, NoNewChance
<1>7. RunningIsHeld'
    <2>1. InHand' = InHand
        BY <1>1 DEF InHand
    <2>2. \A j \in Jobs : j \in Reported(reqs) => j \in Reported(reqs') \/ j \in dropped'
        BY <1>1, Holders
    <2>3. \A j \in Jobs : j \in Held => j \in Held' \cup dropped'
        BY <1>1, <2>1, <2>2 DEF Held
    <2> QED BY <1>1, <2>3, StillHeld
<1> QED BY <1>2, <1>3, <1>4, <1>5, <1>6, <1>7 DEF JobsInv

(* A crash of Control between two requests keeps the invariant. *)
LEMMA ControlCrashStep ==
  ASSUME JobsInv, ControlCrash
  PROVE  JobsInv'
<1>1. /\ dropped' = dropped \cup Reported(reqs)
      /\ UNCHANGED <<file, mem, backup, created, restored>>
      /\ UNCHANGED <<disk, key, pc, cur, out, stack, drawn, runs, outcomes>>
    BY DEF ControlCrash, agent
<1>2. /\ up' = FALSE /\ reqs' = {} /\ resp' \in {resp, "error"}
      /\ "error" \in Answers /\ "error" \notin Jobs
      /\ resp \in Jobs => resp' = resp
      /\ resp' # None => pc \in Calls
    BY DiedFacts DEF ControlCrash
<1>3. nFaults' = nFaults \/ Fault
    BY DEF ControlCrash
<1>4. Shapes'
    <2>1. nFaults' \in 0 .. MaxFaults
        BY <1>3, FaultFacts
    <2> QED BY <1>1, <1>2, <2>1, ZenonT(30) DEF JobsInv, Shapes
<1>5. MemoryIsDurable' /\ Records' /\ Ordered'
    BY <1>1, <1>2 DEF JobsInv, MemoryIsDurable, Records, Truthful, Ordered
<1>6. Identity'
    BY <1>1, <1>2, <1>3, IdentityFacts, SameIdentity
<1>7. OneCall' /\ InHands'
    BY <1>1, <1>2 DEF JobsInv, OneCall, InHands
<1>8. Bounded'
    BY <1>1, <1>2, NoNewChance
<1>9. RunningIsHeld'
    <2>1. InHand' = InHand
        BY <1>1 DEF InHand
    <2>2. \A j \in Jobs : j \in HandedOver(resp) => j \in HandedOver(resp')
        BY <1>2, Holders
    <2>3. \A j \in Jobs : j \in Held => j \in Held' \cup dropped'
        BY <1>1, <2>1, <2>2 DEF Held
    <2> QED BY <1>1, <2>3, StillHeld
<1> QED BY <1>4, <1>5, <1>6, <1>7, <1>8, <1>9 DEF JobsInv

(* Control that starts again from its file keeps the invariant. *)
LEMMA OpenStoreStep ==
  ASSUME JobsInv, OpenStore
  PROVE  JobsInv'
<1>1. /\ up' = TRUE /\ mem' = file
      /\ UNCHANGED <<file, backup, created, restored, reqs, resp, dropped, nFaults>>
      /\ UNCHANGED <<disk, key, pc, cur, out, stack, drawn, runs, outcomes>>
    BY DEF OpenStore, agent
<1>2. Shapes'
    BY <1>1 DEF JobsInv, Shapes
<1>3. MemoryIsDurable' /\ Records' /\ Ordered'
    BY <1>1 DEF JobsInv, MemoryIsDurable, Records, Truthful, Ordered
<1>4. Identity'
    BY <1>1, IdentityFacts, SameIdentity
<1>5. OneCall' /\ InHands'
    BY <1>1 DEF JobsInv, OneCall, InHands, Evidence
<1>6. Bounded'
    BY <1>1, NoNewChance
<1>7. RunningIsHeld'
    BY <1>1, StillHeld DEF Held, InHand
<1> QED BY <1>2, <1>3, <1>4, <1>5, <1>6, <1>7 DEF JobsInv

(* Taking a backup keeps the invariant. *)
LEMMA BackupStep ==
  ASSUME JobsInv, Backup
  PROVE  JobsInv'
<1>1. /\ backup' = file
      /\ UNCHANGED <<file, mem, up, created, restored, reqs, resp, dropped, nFaults>>
      /\ UNCHANGED <<disk, key, pc, cur, out, stack, drawn, runs, outcomes>>
    BY DEF Backup, agent
<1>2. Shapes'
    BY <1>1 DEF JobsInv, Shapes
<1>3. MemoryIsDurable' /\ Records' /\ Ordered'
    BY <1>1 DEF JobsInv, MemoryIsDurable, Records, Truthful, Ordered
<1>4. Identity'
    BY <1>1, IdentityFacts, SameIdentity
<1>5. OneCall' /\ InHands'
    BY <1>1 DEF JobsInv, OneCall, InHands, Evidence
<1>6. Bounded'
    BY <1>1, NoNewChance
<1>7. RunningIsHeld'
    BY <1>1, StillHeld DEF Held, InHand
<1> QED BY <1>2, <1>3, <1>4, <1>5, <1>6, <1>7 DEF JobsInv

(* A restore is one more chance for every job.                             *)
LEMMA RestoreStep ==
  ASSUME JobsInv, Restore
  PROVE  JobsInv'
<1>1. /\ ~up /\ backup # None /\ file' = backup /\ restored' = restored + 1
      /\ dropped' = dropped \cup {j \in Jobs \ Held : backup.jobs[j].st = "running"}
      /\ UNCHANGED <<mem, up, backup, created, reqs, resp>>
      /\ UNCHANGED <<disk, key, pc, cur, out, stack, drawn, runs, outcomes>>
    BY DEF Restore, agent
<1>2. nFaults' = nFaults \/ Fault
    BY DEF Restore
<1>3. Shapes'
    BY <1>1, <1>2, FaultFacts DEF JobsInv, Shapes
<1>4. MemoryIsDurable' /\ Records'
    BY <1>1 DEF JobsInv, MemoryIsDurable, Records, Truthful
<1>5. Ordered'
    BY <1>1 DEF JobsInv, Shapes, Ordered
<1>6. Identity'
    BY <1>1, <1>2, IdentityFacts, SameIdentity
<1>7. OneCall' /\ InHands'
    BY <1>1 DEF JobsInv, OneCall, InHands, Evidence
<1>8. Bounded'
    <2> SUFFICES ASSUME NEW j \in Jobs PROVE Chances(j)' <= 1 + restored'
        BY DEF Bounded
    <2>1. runs[j] \in Nat /\ restored \in Nat /\ Chances(j) <= 1 + restored
        BY ChancesType
    <2> QED BY <2>1, <1>1 DEF Chances
<1>9. RunningIsHeld'
    <2>1. Held' = Held
        BY <1>1 DEF Held, InHand
    <2> QED BY <1>1, <2>1 DEF RunningIsHeld
<1> QED BY <1>3, <1>4, <1>5, <1>6, <1>7, <1>8, <1>9 DEF JobsInv

(* The admin's new job is the last in the queue.                           *)
LEMMA CreateJobStep ==
  ASSUME JobsInv, NEW j \in Jobs, NEW k \in Keys, createJob(j, k)
  PROVE  JobsInv'
<1> DEFINE rec == [st |-> "pending", agent |-> k, at |-> Cardinality(created)]
<1>1. /\ up /\ j \notin created /\ created' = created \cup {j}
      /\ file' = [mem EXCEPT !.jobs[j] = rec] /\ mem' = file'
      /\ UNCHANGED <<up, backup, restored, reqs, resp, dropped, nFaults>>
      /\ UNCHANGED <<disk, key, pc, cur, out, stack, drawn, runs, outcomes>>
    BY DEF createJob, agent
<1>2. mem = file /\ file \in States /\ created \subseteq Jobs
    BY <1>1 DEF JobsInv, MemoryIsDurable, Shapes
<1>3. /\ IsFiniteSet(created) /\ Cardinality(created) \in Nat
      /\ Cardinality(created) <= Cardinality(Jobs) /\ Cardinality(Jobs) \in Nat
      /\ Cardinality(created') = Cardinality(created) + 1
    BY <1>1, <1>2, JobsAssumption, FS_Subset, FS_CardinalityType, FS_AddElement
<1>4. rec \in JobRecords
    BY <1>3 DEF JobRecords, Statuses
<1>5. /\ file'.agents = file.agents /\ file'.inventory = file.inventory
      /\ file'.jobs = [file.jobs EXCEPT ![j] = rec] /\ file' \in States
    <2>1. file = [agents |-> file.agents, inventory |-> file.inventory, jobs |-> file.jobs]
        BY <1>2 DEF States
    <2>2. PICK js : js = [file.jobs EXCEPT ![j] = rec]
        OBVIOUS
    <2>3. js \in [Jobs -> JobRecords]
        BY <2>2, <1>2, <1>4, StateFields
    <2>4. file' = [agents |-> file.agents, inventory |-> file.inventory, jobs |-> js]
        BY <1>1, <1>2, <2>1, <2>2
    <2>5. file' \in States
        BY <2>3, <2>4, <1>2, StateFields DEF States, JobRecords
    <2> QED BY <2>2, <2>4, <2>5
<1>6. file'.jobs[j] = rec /\ \A i \in Jobs \ {j} : file'.jobs[i] = file.jobs[i]
    BY <1>2, <1>5, StateFields
<1>7. file'.jobs[j].st = "pending" /\ file'.jobs[j].at = Cardinality(created)
    BY <1>6
<1> HIDE DEF rec
<1>8. file.jobs[j].st = "absent"
    BY <1>1 DEF JobsInv, Records, Truthful
<1>9. Shapes'
    BY <1>1, <1>2, <1>5 DEF JobsInv, Shapes
<1>10. MemoryIsDurable'
    BY <1>1 DEF MemoryIsDurable
<1>11. Identity'
    BY <1>1, <1>5, IdentityFacts, SameIdentity
<1>12. OneCall' /\ InHands'
    BY <1>1 DEF JobsInv, OneCall, InHands, Evidence
<1>13. Bounded'
    BY <1>1, <1>6, <1>8, NoNewChance
<1>14. Records'
    BY <1>1, <1>6, <1>7 DEF JobsInv, Records, Truthful, Ended
<1>15. Ordered'
    <2> SUFFICES ASSUME restored = 0
                 PROVE  /\ \A i \in created' : file'.jobs[i].at < Cardinality(created')
                        /\ \A i, l \in created' :
                             /\ file'.jobs[i].at < file'.jobs[l].at /\ file'.jobs[i].st = "pending"
                             /\ file'.jobs[i].agent = file'.jobs[l].agent
                             => file'.jobs[l].st = "pending"
        BY <1>1 DEF Ordered
    <2>1. \A i \in created : file'.jobs[i] = file.jobs[i] /\ file.jobs[i].at \in Nat
                             /\ file.jobs[i].at < Cardinality(created)
        BY <1>1, <1>2, <1>6, StateFields DEF JobsInv, Ordered
    <2>2. \A i \in created' : file'.jobs[i].at < Cardinality(created')
        BY <2>1, <1>1, <1>3, <1>7
    <2>3. ASSUME NEW i \in created', NEW l \in created', file'.jobs[i].at < file'.jobs[l].at,
                 file'.jobs[i].st = "pending", file'.jobs[i].agent = file'.jobs[l].agent
          PROVE  file'.jobs[l].st = "pending"
        <3>1. CASE l = j
            BY <3>1, <1>7
        <3>2. CASE l # j
            <4>1. l \in created
                BY <3>2, <1>1
            <4>2. i # j
                BY <4>1, <2>1, <2>3, <1>3, <1>7
            <4>3. i \in created
                BY <4>2, <1>1
            <4> QED BY <4>1, <4>3, <2>1, <2>3 DEF JobsInv, Ordered
        <3> QED BY <3>1, <3>2
    <2> QED BY <2>2, <2>3
<1>16. RunningIsHeld'
    <2>1. \A i \in Jobs : file'.jobs[i].st = "running" => file.jobs[i].st = "running"
        BY <1>6, <1>7
    <2> QED BY <1>1, <2>1, StillHeld DEF Held, InHand
<1> QED BY <1>9, <1>10, <1>11, <1>12, <1>13, <1>14, <1>15, <1>16 DEF JobsInv

-----------------------------------------------------------------------------
(* Requests the agent gave up.                                             *)
LEMMA LateFacts ==
  ASSUME JobsInv, reqs' = {late[r] : r \in reqs}
  PROVE  /\ reqs' \subseteq Requests
         /\ \A q \in reqs' : /\ q.late # 0
                             /\ \E r \in reqs : q.op = r.op /\ q.key = r.key /\ q.job = r.job /\ q.out = r.out
         /\ Reported(reqs') = Reported(reqs)
<1>1. reqs \subseteq Requests /\ nFaults + 1 \in Nat /\ nFaults + 1 # 0
    BY BoundAssumption DEF JobsInv, Shapes
<1>2. ASSUME NEW r \in reqs
      PROVE  /\ late[r] \in Requests /\ late[r].late # 0
             /\ late[r].op = r.op /\ late[r].key = r.key /\ late[r].job = r.job /\ late[r].out = r.out
    <2>1. late[r] = IF r.late = 0 THEN [r EXCEPT !.late = nFaults + 1] ELSE r
        BY DEF late
    <2> QED BY <2>1, <1>1 DEF Requests
<1>3. \A j : j \in Reported(reqs') <=> j \in Reported(reqs)
    BY <1>2, Holders
<1> QED BY <1>2, <1>3

(* A call of the agent that fails or times out keeps the invariant. *)
LEMMA CallFailsStep ==
  ASSUME JobsInv, CallFails
  PROVE  JobsInv'
<1>1. /\ pc \in Calls /\ resp' = "error" /\ dropped' = dropped \cup HandedOver(resp)
      /\ reqs' = {late[r] : r \in reqs}
      /\ UNCHANGED <<file, mem, up, backup, created, restored>>
      /\ UNCHANGED <<disk, key, pc, cur, out, stack, drawn, runs, outcomes>>
    BY DEF CallFails, control, agent
<1>2. nFaults' = nFaults \/ Fault
    BY DEF CallFails
<1>3. /\ reqs' \subseteq Requests
      /\ \A q \in reqs' : /\ q.late # 0
                          /\ \E r \in reqs : q.op = r.op /\ q.key = r.key /\ q.job = r.job /\ q.out = r.out
      /\ Reported(reqs') = Reported(reqs)
    BY <1>1, LateFacts
<1>4. "error" \in Answers /\ "error" \notin Jobs
    BY JobsAssumption DEF Answers
<1>5. nFaults' \in 0 .. MaxFaults
    BY <1>2, FaultFacts
<1>6. Shapes'
    BY <1>1, <1>3, <1>4, <1>5 DEF JobsInv, Shapes
<1>7. MemoryIsDurable' /\ Records' /\ Ordered'
    BY <1>1, ControlUntouched
<1>8. Identity'
    BY <1>1, <1>2, <1>3, IdentityFacts, SameIdentity
<1>9. OneCall'
    BY <1>1, <1>3, <1>4 DEF OneCall
<1>10. InHands'
    BY <1>1, <1>3, <1>4 DEF JobsInv, InHands, Evidence
<1>11. Bounded'
    BY <1>1, <1>4, NoNewChance
<1>12. RunningIsHeld'
    <2>1. InHand' = InHand
        BY <1>1 DEF InHand
    <2> QED BY <1>1, <1>3, <2>1, StillHeld DEF Held
<1> QED BY <1>6, <1>7, <1>8, <1>9, <1>10, <1>11, <1>12 DEF JobsInv

(* What a job leaves of the stack is a stack.                              *)
LEMMA StackShapes ==
  ASSUME JobsInv, cur \in Jobs
  PROVE  writeCompose \in [yaml : BOOLEAN, there : BOOLEAN] /\ compose \in [yaml : BOOLEAN, there : BOOLEAN]
<1>1. stack \in [yaml : BOOLEAN, there : BOOLEAN]
    BY DEF JobsInv, Shapes
<1>2. KindOf[cur] \in {"deploy", "restart", "remove"}
    BY KindAssumption
<1>3. /\ [stack EXCEPT !.there = TRUE] \in [yaml : BOOLEAN, there : BOOLEAN]
      /\ [stack EXCEPT !.there = FALSE] \in [yaml : BOOLEAN, there : BOOLEAN]
      /\ [stack EXCEPT !.yaml = TRUE] \in [yaml : BOOLEAN, there : BOOLEAN]
    BY <1>1
<1>4. CASE KindOf[cur] = "deploy"
    BY <1>3, <1>4 DEF compose, writeCompose
<1>5. CASE KindOf[cur] = "restart"
    BY <1>1, <1>3, <1>5 DEF compose, writeCompose
<1>6. CASE KindOf[cur] = "remove"
    BY <1>3, <1>6 DEF compose, writeCompose
<1> QED BY <1>2, <1>4, <1>5, <1>6

(* A crash of the agent at any point keeps the invariant. *)
LEMMA AgentCrashStep ==
  ASSUME JobsInv, AgentCrash
  PROVE  JobsInv'
<1>1. /\ pc' = "down" /\ cur' = None /\ out' = None /\ key' = None /\ resp' = None
      /\ dropped' = dropped \cup HandedOver(resp) \cup InHand
      /\ reqs' = {late[r] : r \in reqs}
      /\ UNCHANGED <<file, mem, up, backup, created, restored>>
      /\ UNCHANGED <<disk, drawn, runs, outcomes>>
    BY DEF AgentCrash, control
<1>2. nFaults' = nFaults \/ Fault
    BY DEF AgentCrash
<1>3. /\ reqs' \subseteq Requests
      /\ \A q \in reqs' : /\ q.late # 0
                          /\ \E r \in reqs : q.op = r.op /\ q.key = r.key /\ q.job = r.job /\ q.out = r.out
      /\ Reported(reqs') = Reported(reqs)
    BY <1>1, LateFacts
<1>4. None \notin Jobs
    BY AnswersAreNoJobs
<1>5. nFaults' \in 0 .. MaxFaults
    BY <1>2, FaultFacts
<1>6. stack' \in [yaml : BOOLEAN, there : BOOLEAN]
    <2>1. CASE pc = "command"
        <3>1. cur \in Jobs /\ stack \in [yaml : BOOLEAN, there : BOOLEAN]
            BY <2>1 DEF JobsInv, Shapes, InHands
        <3>2. stack' \in {stack, compose}
            BY <2>1 DEF AgentCrash
        <3> QED BY <3>1, <3>2, StackShapes
    <2>2. CASE pc # "command"
        <3>1. stack' = stack
            BY <2>2 DEF AgentCrash
        <3> QED BY <3>1 DEF JobsInv, Shapes
    <2> QED BY <2>1, <2>2
<1>7. Shapes'
    BY <1>1, <1>3, <1>5, <1>6 DEF JobsInv, Shapes
<1>8. MemoryIsDurable' /\ Records' /\ Ordered'
    BY <1>1, ControlUntouched
<1>9. Identity'
    BY <1>1, <1>2, <1>3, IdentityFacts, SameIdentity
<1>10. OneCall'
    BY <1>1, <1>3, <1>4 DEF OneCall
<1>11. InHands'
    BY <1>1, <1>3, <1>4 DEF JobsInv, InHands, Evidence
<1>12. Bounded'
    BY <1>1, <1>4, NoNewChance
<1>13. RunningIsHeld'
    BY <1>1, <1>3, StillHeld DEF Held
<1> QED BY <1>7, <1>8, <1>9, <1>10, <1>11, <1>12, <1>13 DEF JobsInv

-----------------------------------------------------------------------------
(* The agent.                                                              *)

(* Between calls the agent waits for no request and has no answer.         *)
LEMMA NotCalling ==
  ASSUME JobsInv, pc \notin Calls
  PROVE  resp = None /\ \A q \in reqs : q.late # 0
<1>1. \A q \in reqs : q.op \in Calls
    BY DEF JobsInv, Shapes, Requests
<1> QED BY <1>1 DEF JobsInv, OneCall

(* An answer has come: the request it answers is gone.                     *)
LEMMA Answered ==
  ASSUME JobsInv, resp # None
  PROVE  \A q \in reqs : q.late # 0
    BY DEF JobsInv, OneCall

(* The start of the agent, with or without its identity file, keeps the invariant. *)
LEMMA LoadIdentityStep ==
  ASSUME JobsInv, loadIdentity
  PROVE  JobsInv'
<1>1. /\ pc = "down" /\ pc' \in {"down", "start", "tick"}
      /\ UNCHANGED <<file, mem, up, backup, created, restored>>
      /\ UNCHANGED <<cur, out, stack, runs, outcomes, reqs, resp, dropped>>
    BY DEF loadIdentity, saveIdentity, control
<1>2. nFaults' = nFaults \/ Fault
    BY DEF loadIdentity, saveIdentity
<1>3. nFaults \in 0 .. MaxFaults /\ nFaults' \in 0 .. MaxFaults /\ nFaults <= nFaults'
    BY <1>2, FaultFacts
<1>4. resp = None /\ \A q \in reqs : q.late # 0
    BY <1>1, NotCalling DEF Calls
<1>5. /\ (disk' = None \/ disk' \in [key : Keys, id : BOOLEAN]) /\ key' \in Keys \cup {None}
      /\ drawn' \in Nat /\ Identity'
    <2>1. CASE disk = None
        <3>1. key' = drawn + 1 /\ drawn' = drawn + 1
            BY <2>1 DEF loadIdentity
        <3>2. /\ Known = {} /\ drawn \in Nat /\ drawn <= nFaults /\ MaxFaults \in Nat
            BY <2>1, BoundAssumption DEF Known, JobsInv, Shapes, Identity
        <3>3. drawn + 1 \in Keys /\ drawn + 1 \in Nat
            BY <3>2, <1>3 DEF Keys
        <3>4. file.agents = {} /\ mem.agents = {} /\ reqs = {} /\ (backup # None => backup.agents = {})
            BY <3>2, IdentityFacts
        <3>5. CASE disk' = [key |-> drawn + 1, id |-> FALSE] /\ pc' = "start" /\ UNCHANGED nFaults
            <4>1. disk' \in [key : Keys, id : BOOLEAN] /\ disk'.key = drawn + 1
                BY <3>3, <3>5
            <4>2. disk' # None
                BY <3>3, <3>5, NoneIsNoIdentity
            <4>3. Known' = {drawn + 1}
                BY <4>1, <4>2 DEF Known
            <4>4. drawn' <= nFaults' + (IF disk' = None THEN 0 ELSE 1)
                BY <3>1, <3>2, <3>5, <4>2, <1>3
            <4>5. Identity'
                BY <1>1, <3>1, <3>4, <4>3, <4>4 DEF Identity
            <4> QED BY <3>1, <3>3, <4>1, <4>5
        <3>6. CASE Fault /\ pc' = "down" /\ UNCHANGED disk
            <4>1. Known' = Known
                BY <3>6 DEF Known
            <4>2. drawn' <= nFaults' + (IF disk' = None THEN 0 ELSE 1)
                BY <3>1, <3>2, <3>6, <2>1, <1>3 DEF Fault
            <4>3. Identity'
                BY <1>1, <3>4, <3>6, <4>1, <4>2 DEF Identity
            <4> QED BY <2>1, <3>1, <3>3, <3>6, <4>3
        <3> QED BY <2>1, <3>5, <3>6 DEF loadIdentity, saveIdentity
    <2>2. CASE disk # None
        <3>1. key' = disk.key /\ UNCHANGED <<disk, drawn, nFaults>>
            BY <2>2 DEF loadIdentity
        <3>2. disk \in [key : Keys, id : BOOLEAN] /\ drawn \in Nat
            BY <2>2 DEF JobsInv, Shapes
        <3>3. key' \in Known
            BY <2>2, <3>1 DEF Known
        <3>4. Identity'
            BY <1>1, <1>2, <3>1, <3>3, IdentityFacts, SameIdentity
        <3> QED BY <3>1, <3>2, <3>4
    <2> QED BY <2>1, <2>2
<1>6. Shapes'
    BY <1>1, <1>3, <1>5 DEF JobsInv, Shapes
<1>7. MemoryIsDurable' /\ Records' /\ Ordered'
    BY <1>1, ControlUntouched
<1>8. OneCall'
    BY <1>1, <1>4, AnswersAreNoJobs DEF OneCall
<1>9. InHands'
    BY <1>1, <1>4, AnswersAreNoJobs DEF JobsInv, InHands, Evidence
<1>10. Bounded'
    BY <1>1, NoNewChance
<1>11. RunningIsHeld'
    BY <1>1, StillHeld DEF Held, InHand
<1> QED BY <1>5, <1>6, <1>7, <1>8, <1>9, <1>10, <1>11 DEF JobsInv

(* A call: the request is on its way, or Control does not run.             *)
LEMMA CallStep ==
  ASSUME JobsInv, NEW from \in {"start", "tick", "poll", "report"}, NEW op \in Calls,
         NEW there \in BOOLEAN, Call(from, op, there), nFaults' = nFaults \/ Fault,
         op = "result" <=> from = "report"
  PROVE  JobsInv'
<1>1. PICK r : r = [op |-> op, key |-> key, late |-> 0, there |-> there, job |-> cur, out |-> out]
    OBVIOUS
<1>2. /\ pc = from /\ pc' = op
      /\ UNCHANGED <<file, mem, up, backup, created, restored>>
      /\ UNCHANGED <<disk, key, cur, out, stack, drawn, runs, outcomes>>
    BY DEF Call, control
<1>3. \/ reqs' = reqs \cup {r} /\ resp' = resp /\ dropped' = dropped
      \/ reqs' = reqs /\ resp' = "error" /\ dropped' = dropped \cup Reported({r})
    BY <1>1 DEF Call
<1>4. r.op = op /\ r.key = key /\ r.late = 0 /\ r.job = cur /\ r.out = out
    BY <1>1
<1>5. pc \notin Calls /\ pc \notin {"down", "execute", "command"}
    BY <1>2 DEF Calls
<1>6. resp = None /\ \A q \in reqs : q.late # 0
    BY <1>5, NotCalling
<1>7. key \in Known /\ key \in Keys
    <2>1. key \in Known
        BY <1>5, IdentityFacts
    <2>2. disk # None => disk.key \in Keys
        BY DEF JobsInv, Shapes
    <2> QED BY <2>1, <2>2 DEF Known
<1>8. r \in Requests
    BY <1>1, <1>7 DEF JobsInv, Shapes, Requests
<1>9. "error" \in Answers /\ "error" \notin Jobs /\ None \notin Jobs
    BY JobsAssumption DEF Answers
<1>10. Shapes'
    <2>1. nFaults' \in 0 .. MaxFaults
        BY FaultFacts
    <2>2. reqs' \subseteq Requests /\ resp' \in Jobs \cup Answers \cup {None}
        BY <1>3, <1>6, <1>8, <1>9 DEF JobsInv, Shapes
    <2> QED BY <1>2, <2>1, <2>2 DEF JobsInv, Shapes
<1>11. MemoryIsDurable' /\ Records' /\ Ordered'
    BY <1>2, ControlUntouched
<1>12. Identity'
    <2>1. \A q \in reqs' : q.key \in Known
        BY <1>3, <1>4, <1>7, IdentityFacts
    <2> QED BY <1>2, <1>7, <2>1, IdentityFacts, SameIdentity
<1>13. OneCall'
    <2>1. \A q \in reqs' : q.late = 0 => q = r /\ resp' = None
        BY <1>3, <1>6
    <2>2. resp' \notin Jobs
        BY <1>3, <1>6, <1>9
    <2> QED BY <1>2, <1>4, <2>1, <2>2 DEF OneCall
<1>14. InHands'
    <2>1. op = "result" => Evidence(r.job, r.out)
        BY <1>2, <1>4 DEF JobsInv, InHands, Evidence
    <2>2. \A q \in reqs' : q.op = "result" => Evidence(q.job, q.out)
        BY <1>3, <1>4, <2>1 DEF JobsInv, InHands
    <2>3. resp' \notin Jobs
        BY <1>3, <1>6, <1>9
    <2>4. pc' \notin {"execute", "command", "report"}
        BY <1>2 DEF Calls
    <2> QED BY <1>2, <2>2, <2>3, <2>4 DEF InHands, Evidence
<1>15. Bounded'
    <2>1. pc' # "execute"
        BY <1>2 DEF Calls
    <2>2. resp' \notin Jobs
        BY <1>3, <1>6, <1>9
    <2> QED BY <1>2, <2>1, <2>2, NoNewChance
<1>16. RunningIsHeld'
    <2>1. \A j \in Jobs : j \notin HandedOver(resp)
        BY <1>6, <1>9, Holders
    <2>2. \A j \in Jobs : j \in Reported(reqs) => j \in Reported(reqs')
        BY <1>3, Holders
    <2>3. ASSUME NEW j \in InHand PROVE j \in Reported(reqs') \cup dropped'
        <3>1. op = "result" /\ j = cur
            BY <1>2, <1>5, <2>3, Holders DEF InHand
        <3>2. j \in Reported({r})
            BY <3>1, <1>4, Holders
        <3> QED BY <3>1, <3>2, <1>3, <1>4, Holders
    <2>4. \A j \in Jobs : j \in Held => j \in Held' \cup dropped'
        BY <2>1, <2>2, <2>3 DEF Held
    <2>5. dropped \subseteq dropped'
        BY <1>3
    <2> QED BY <1>2, <2>4, <2>5, StillHeld
<1> QED BY <1>10, <1>11, <1>12, <1>13, <1>14, <1>15, <1>16 DEF JobsInv

(* A call that the agent sends keeps the invariant. *)
LEMMA CallingStep ==
  ASSUME JobsInv, Calling
  PROVE  JobsInv'
<1>1. inspectComponents \in BOOLEAN
    BY DEF inspectComponents, JobsInv, Shapes
<1>2. CASE callEnroll
    BY <1>2, CallStep DEF callEnroll, Calls
<1>3. CASE callHeartbeat
    BY <1>1, <1>3, CallStep DEF callHeartbeat, Calls
<1>4. CASE callNext
    BY <1>4, CallStep DEF callNext, Calls
<1>5. CASE callResult
    BY <1>5, CallStep DEF callResult, Calls
<1> QED BY <1>2, <1>3, <1>4, <1>5 DEF Calling

(* An answer to the enrollment keeps the invariant. *)
LEMMA EnrolledStep ==
  ASSUME JobsInv, enrolled
  PROVE  JobsInv'
<1>1. /\ pc = "enroll" /\ resp # None /\ resp' = None /\ pc' \in {"tick", "down"}
      /\ UNCHANGED <<file, mem, up, backup, created, restored>>
      /\ UNCHANGED <<key, cur, out, stack, drawn, runs, outcomes, reqs, dropped>>
    BY DEF enrolled, Answer, saveIdentity, control
<1>2. nFaults' = nFaults \/ Fault
    BY DEF enrolled, saveIdentity
<1>3. nFaults \in 0 .. MaxFaults /\ nFaults' \in 0 .. MaxFaults /\ nFaults <= nFaults'
    BY <1>2, FaultFacts
<1>4. (\A q \in reqs : q.late # 0) /\ None \notin Jobs
    BY <1>1, Answered, AnswersAreNoJobs
<1>5. key \in Known /\ disk # None /\ key = disk.key /\ disk \in [key : Keys, id : BOOLEAN]
    BY <1>1, IdentityFacts DEF Known, JobsInv, Shapes
<1>6. disk' = disk \/ disk' = [key |-> key, id |-> TRUE]
    BY DEF enrolled, saveIdentity
<1>7. disk' \in [key : Keys, id : BOOLEAN] /\ disk' # None /\ disk'.key = key
    <2>1. Keys \subseteq Nat /\ key \in Keys
        BY <1>5 DEF Keys
    <2>2. CASE disk' = disk
        BY <1>5, <2>2
    <2>3. CASE disk' = [key |-> key, id |-> TRUE]
        <3>1. [key |-> key, id |-> TRUE] \in [key : Keys, id : BOOLEAN]
            BY <2>1
        <3>2. [key |-> key, id |-> TRUE].key = key /\ [key |-> key, id |-> TRUE] # None
            BY <2>1, NoneIsNoIdentity
        <3> QED BY <2>3, <3>1, <3>2
    <2> QED BY <1>6, <2>2, <2>3
<1>8. Identity'
    <2>1. Known' = Known
        BY <1>5, <1>7 DEF Known
    <2>2. drawn' <= nFaults' + (IF disk' = None THEN 0 ELSE 1)
        BY <1>1, <1>3, <1>5, <1>7 DEF JobsInv, Identity, Shapes
    <2> QED BY <1>1, <1>5, <2>1, <2>2, IdentityFacts DEF Identity
<1>9. Shapes'
    BY <1>1, <1>3, <1>7 DEF JobsInv, Shapes
<1>10. MemoryIsDurable' /\ Records' /\ Ordered'
    BY <1>1, ControlUntouched
<1>11. OneCall'
    BY <1>1, <1>4 DEF OneCall
<1>12. InHands'
    BY <1>1, <1>4 DEF JobsInv, InHands, Evidence
<1>13. Bounded'
    BY <1>1, <1>4, NoNewChance
<1>14. RunningIsHeld'
    <2>1. \A j \in Jobs : j \notin HandedOver(resp)
        BY <1>1, Holders DEF JobsInv, OneCall
    <2>2. InHand = {}
        BY <1>1 DEF InHand
    <2>3. \A j \in Jobs : j \in Held => j \in Held'
        BY <1>1, <2>1, <2>2 DEF Held
    <2> QED BY <1>1, <2>3, StillHeld
<1> QED BY <1>8, <1>9, <1>10, <1>11, <1>12, <1>13, <1>14 DEF JobsInv

(* An answer that hands nothing over.                                      *)
LEMMA QuietAnswer ==
  ASSUME JobsInv, resp # None, resp \notin Jobs, resp' = None, pc \in Calls, pc' \in {"tick", "poll"},
         cur' \in {cur, None}, out' \in {out, None},
         UNCHANGED <<file, mem, up, backup, created, restored>>,
         UNCHANGED <<disk, key, stack, drawn, runs, outcomes, reqs, dropped, nFaults>>
  PROVE  JobsInv'
<1>1. (\A q \in reqs : q.late # 0) /\ None \notin Jobs /\ pc # "down"
    BY Answered, AnswersAreNoJobs DEF Calls
<1>2. Shapes'
    BY DEF JobsInv, Shapes
<1>3. MemoryIsDurable' /\ Records' /\ Ordered'
    BY ControlUntouched
<1>4. Identity'
    BY <1>1, IdentityFacts, SameIdentity
<1>5. OneCall'
    BY <1>1 DEF OneCall
<1>6. InHands'
    BY <1>1 DEF JobsInv, InHands, Evidence
<1>7. Bounded'
    BY <1>1, NoNewChance
<1>8. RunningIsHeld'
    <2>1. \A j \in Jobs : j \notin HandedOver(resp)
        BY Holders
    <2>2. InHand = {}
        BY DEF InHand, Calls
    <2>3. \A j \in Jobs : j \in Held => j \in Held'
        BY <2>1, <2>2 DEF Held
    <2> QED BY <2>3, StillHeld
<1> QED BY <1>2, <1>3, <1>4, <1>5, <1>6, <1>7, <1>8 DEF JobsInv

(* An answer to a heartbeat keeps the invariant. *)
LEMMA HeartbeatDoneStep ==
  ASSUME JobsInv, heartbeatDone
  PROVE  JobsInv'
<1>1. /\ pc = "heartbeat" /\ resp # None /\ resp' = None /\ pc' = "poll"
      /\ UNCHANGED <<file, mem, up, backup, created, restored>>
      /\ UNCHANGED <<disk, key, cur, out, stack, drawn, runs, outcomes, reqs, dropped, nFaults>>
    BY DEF heartbeatDone, Answer, control
<1>2. resp \notin Jobs /\ pc \in Calls
    BY <1>1 DEF JobsInv, OneCall, Calls
<1> QED BY <1>1, <1>2, QuietAnswer

(* An answer to a result keeps the invariant. *)
LEMMA ResultDoneStep ==
  ASSUME JobsInv, resultDone
  PROVE  JobsInv'
<1>1. /\ pc = "result" /\ resp # None /\ resp' = None /\ pc' = "tick" /\ cur' = None /\ out' = None
      /\ UNCHANGED <<file, mem, up, backup, created, restored>>
      /\ UNCHANGED <<disk, key, stack, drawn, runs, outcomes, reqs, dropped, nFaults>>
    BY DEF resultDone, Answer, control
<1>2. resp \notin Jobs /\ pc \in Calls
    BY <1>1 DEF JobsInv, OneCall, Calls
<1> QED BY <1>1, <1>2, QuietAnswer

(* An answer to a poll, with a job or without, keeps the invariant. *)
LEMMA PollJobStep ==
  ASSUME JobsInv, pollJob
  PROVE  JobsInv'
<1>1. /\ pc = "next" /\ resp # None /\ resp' = None
      /\ UNCHANGED <<file, mem, up, backup, created, restored>>
      /\ UNCHANGED <<disk, key, out, stack, drawn, runs, outcomes, reqs, dropped, nFaults>>
    BY DEF pollJob, Answer, control
<1>2. CASE resp \notin Jobs
    <2>1. pc' = "tick" /\ cur' = cur /\ pc \in Calls
        BY <1>1, <1>2 DEF pollJob, Calls
    <2> QED BY <1>1, <1>2, <2>1, QuietAnswer
<1>3. CASE resp \in Jobs
    <2>1. pc' = "execute" /\ cur' = resp
        BY <1>3 DEF pollJob
    <2>2. (\A q \in reqs : q.late # 0) /\ None \notin Jobs /\ resp \in created
        BY <1>1, <1>3, Answered, AnswersAreNoJobs DEF JobsInv, InHands
    <2>3. Shapes'
        BY <1>1, <1>3, <2>1 DEF JobsInv, Shapes
    <2>4. MemoryIsDurable' /\ Records' /\ Ordered'
        BY <1>1, ControlUntouched
    <2>5. Identity'
        BY <1>1, <2>1, IdentityFacts, SameIdentity
    <2>6. OneCall'
        BY <1>1, <2>1, <2>2 DEF OneCall
    <2>7. InHands'
        BY <1>1, <2>1, <2>2 DEF JobsInv, InHands, Evidence
    <2>8. Bounded'
        <3> SUFFICES ASSUME NEW j \in Jobs PROVE Chances(j)' <= 1 + restored
            BY <1>1 DEF Bounded
        <3>1. runs[j] \in Nat /\ restored \in Nat /\ Chances(j) <= 1 + restored
            BY ChancesType
        <3>2. resp' # j /\ pc # "execute" /\ (cur' = j => resp = j)
            BY <1>1, <2>1, <2>2
        <3> QED BY <3>1, <3>2, <1>1, <2>1 DEF Chances
    <2>9. RunningIsHeld'
        <3>1. \A j \in Jobs : j \in HandedOver(resp) => j \in InHand'
            BY <2>1, Holders DEF InHand
        <3>2. InHand = {}
            BY <1>1 DEF InHand
        <3>3. \A j \in Jobs : j \in Held => j \in Held'
            BY <1>1, <3>1, <3>2 DEF Held
        <3> QED BY <1>1, <3>3, StillHeld
    <2> QED BY <2>3, <2>4, <2>5, <2>6, <2>7, <2>8, <2>9 DEF JobsInv
<1> QED BY <1>2, <1>3

-----------------------------------------------------------------------------
(* Running a job.                                                          *)
(* A step of the job in hand: runs and outcomes grow, nothing else moves.  *)
LEMMA WorkStep ==
  ASSUME JobsInv, pc \in {"execute", "command"}, pc' \in {"command", "report"},
         stack' \in [yaml : BOOLEAN, there : BOOLEAN],
         out' \in Ended \cup {None}, runs' \in [Jobs -> Nat], outcomes' \in [Jobs -> SUBSET Ended],
         \A j \in Jobs : outcomes[j] \subseteq outcomes'[j],
         pc' = "report" => out' \in outcomes'[cur],
         runs'[cur] = runs[cur] + (IF pc = "execute" THEN 1 ELSE 0),
         \A j \in Jobs \ {cur} : runs'[j] = runs[j],
         UNCHANGED <<file, mem, up, backup, created, restored>>,
         UNCHANGED <<disk, key, cur, drawn, reqs, resp, dropped, nFaults>>
  PROVE  JobsInv'
<1>1. cur \in created /\ created \subseteq Jobs /\ runs \in [Jobs -> Nat]
    BY DEF JobsInv, Shapes, InHands
<1>2. (\A q \in reqs : q.late # 0) /\ resp = None /\ None \notin Jobs
    BY NotCalling, AnswersAreNoJobs DEF Calls
<1>3. \A j \in Jobs : runs[j] \in Nat /\ runs'[j] >= runs[j]
    BY <1>1
<1>4. runs'[cur] >= 1
    <2>1. pc = "command" => runs[cur] >= 1
        BY DEF JobsInv, InHands
    <2>2. runs[cur] \in Nat
        BY <1>1
    <2> QED BY <2>1, <2>2
<1>5. Shapes'
    BY DEF JobsInv, Shapes
<1>6. MemoryIsDurable' /\ Ordered'
    BY DEF JobsInv, MemoryIsDurable, Ordered
<1>7. Records'
    <2>1. Truthful(file)'
        BY DEF JobsInv, Records, Truthful
    <2>2. backup' # None => Truthful(backup)'
        BY DEF JobsInv, Records, Truthful
    <2> QED BY <2>1, <2>2 DEF Records
<1>8. Identity'
    <2>1. pc # "down" /\ nFaults' = nFaults
        OBVIOUS
    <2> QED BY <2>1, IdentityFacts, SameIdentity
<1>9. OneCall'
    BY <1>2 DEF OneCall
<1>10. InHands'
    <2>1. \A q \in reqs : q.op = "result" => Evidence(q.job, q.out)'
        <3> SUFFICES ASSUME NEW q \in reqs, q.op = "result" PROVE Evidence(q.job, q.out)'
            OBVIOUS
        <3>1. q.job \in created /\ q.out \in outcomes[q.job] /\ runs[q.job] >= 1
            BY DEF JobsInv, InHands, Evidence
        <3>2. q.job \in Jobs
            BY <3>1, <1>1
        <3>3. runs'[q.job] >= 1
            BY <3>1, <3>2, <1>1, <1>3
        <3> QED BY <3>1, <3>2, <3>3 DEF Evidence
    <2> QED BY <1>1, <1>2, <1>4, <2>1 DEF InHands, Evidence
<1>11. Bounded'
    <2> SUFFICES ASSUME NEW j \in Jobs PROVE Chances(j)' <= 1 + restored
        BY DEF Bounded
    <2>1. runs[j] \in Nat /\ restored \in Nat /\ Chances(j) <= 1 + restored
        BY ChancesType
    <2>2. pc' # "execute" /\ runs'[j] = runs[j] + (IF pc = "execute" /\ cur = j THEN 1 ELSE 0)
        BY <2>1
    <2> QED BY <2>1, <2>2 DEF Chances
<1>12. RunningIsHeld'
    <2>1. InHand' = InHand
        BY DEF InHand
    <2> QED BY <2>1, StillHeld DEF Held
<1> QED BY <1>5, <1>6, <1>7, <1>8, <1>9, <1>10, <1>11, <1>12 DEF JobsInv

(* The start of a job, up to its command or its refusal, keeps the invariant. *)
LEMMA ExecuteStep ==
  ASSUME JobsInv, execute
  PROVE  JobsInv'
<1>1. /\ pc = "execute" /\ runs' = [runs EXCEPT ![cur] = @ + 1]
      /\ UNCHANGED <<file, mem, up, backup, created, restored>>
      /\ UNCHANGED <<disk, key, cur, drawn, reqs, resp, dropped, nFaults>>
    BY DEF execute, control
<1>2. /\ cur \in Jobs /\ runs \in [Jobs -> Nat] /\ outcomes \in [Jobs -> SUBSET Ended]
      /\ out \in Ended \cup {None} /\ stack \in [yaml : BOOLEAN, there : BOOLEAN]
    BY <1>1 DEF JobsInv, Shapes, InHands
<1>3. /\ runs' \in [Jobs -> Nat] /\ runs'[cur] = runs[cur] + 1
      /\ \A j \in Jobs \ {cur} : runs'[j] = runs[j]
    BY <1>1, <1>2
<1>4. CASE /\ stack' = (IF KindOf[cur] = "deploy" THEN writeCompose ELSE stack)
           /\ pc' = "command" /\ UNCHANGED <<out, outcomes>>
    <2>1. stack' \in [yaml : BOOLEAN, there : BOOLEAN]
        BY <1>2, <1>4, StackShapes
    <2> QED BY <1>1, <1>2, <1>3, <1>4, <2>1, WorkStep
<1>5. CASE Ends("failed") /\ UNCHANGED stack
    <2>1. /\ pc' = "report" /\ out' = "failed" /\ "failed" \in Ended
          /\ outcomes' = [outcomes EXCEPT ![cur] = @ \cup {"failed"}]
        BY <1>5 DEF Ends, Ended
    <2>2. /\ outcomes' \in [Jobs -> SUBSET Ended] /\ "failed" \in outcomes'[cur]
          /\ \A j \in Jobs : outcomes[j] \subseteq outcomes'[j]
        BY <1>2, <2>1
    <2> QED BY <1>1, <1>2, <1>3, <1>5, <2>1, <2>2, WorkStep
<1> QED BY <1>4, <1>5 DEF execute

(* The end of a command, successful or not, keeps the invariant. *)
LEMMA CommandStep ==
  ASSUME JobsInv, command
  PROVE  JobsInv'
<1>1. /\ pc = "command"
      /\ UNCHANGED <<file, mem, up, backup, created, restored>>
      /\ UNCHANGED <<disk, key, cur, drawn, runs, reqs, resp, dropped, nFaults>>
    BY DEF command, control
<1>2. /\ cur \in Jobs /\ runs \in [Jobs -> Nat] /\ outcomes \in [Jobs -> SUBSET Ended]
      /\ stack \in [yaml : BOOLEAN, there : BOOLEAN]
    BY <1>1 DEF JobsInv, Shapes, InHands
<1>3. /\ runs' \in [Jobs -> Nat] /\ runs'[cur] = runs[cur] + 0
      /\ \A j \in Jobs \ {cur} : runs'[j] = runs[j]
    BY <1>1, <1>2
<1>4. PICK o \in Ended : Ends(o) /\ stack' \in {stack, compose}
    BY DEF command, Ended
<1>5. stack' \in [yaml : BOOLEAN, there : BOOLEAN]
    BY <1>2, <1>4, StackShapes
<1>6. pc' = "report" /\ out' = o /\ outcomes' = [outcomes EXCEPT ![cur] = @ \cup {o}]
    BY <1>4 DEF Ends
<1>7. /\ outcomes' \in [Jobs -> SUBSET Ended] /\ o \in outcomes'[cur]
      /\ \A j \in Jobs : outcomes[j] \subseteq outcomes'[j]
    BY <1>2, <1>6
<1> QED BY <1>1, <1>3, <1>5, <1>6, <1>7, WorkStep

-----------------------------------------------------------------------------
(* The invariant holds when the server is first started. *)
LEMMA InitJobsInv == Init => JobsInv
<1> SUFFICES ASSUME Init PROVE JobsInv
    OBVIOUS
<1>1. /\ file = [agents |-> {}, inventory |-> FALSE, jobs |-> [j \in Jobs |-> Absent]]
      /\ mem = file /\ up = TRUE /\ backup = None /\ created = {} /\ restored = 0
      /\ disk = None /\ key = None /\ pc = "down" /\ cur = None /\ out = None
      /\ stack = [yaml |-> FALSE, there |-> FALSE]
      /\ drawn = 0 /\ runs = [j \in Jobs |-> 0] /\ outcomes = [j \in Jobs |-> {}]
      /\ reqs = {} /\ resp = None /\ dropped = {} /\ nFaults = 0
    BY DEF Init
<1>2. file.agents = {} /\ \A j \in Jobs : file.jobs[j].st = "absent"
    BY <1>1 DEF Absent
<1>3. file \in States
    <2>1. Absent \in JobRecords
        BY JobsAssumption, FS_CardinalityType DEF Absent, JobRecords, Statuses
    <2> QED BY <1>1, <2>1 DEF States, JobRecords
<1>4. Shapes
    BY <1>1, <1>3, BoundAssumption DEF Shapes
<1>5. MemoryIsDurable /\ Records /\ Ordered
    BY <1>1, <1>2 DEF MemoryIsDurable, Records, Truthful, Ordered, Ended
<1>6. Identity
    BY <1>1, <1>2 DEF Identity
<1>7. OneCall /\ InHands
    BY <1>1, AnswersAreNoJobs DEF OneCall, InHands
<1>8. Bounded
    <2> SUFFICES ASSUME NEW j \in Jobs PROVE Chances(j) <= 1 + restored
        BY DEF Bounded
    <2>1. resp # j /\ runs[j] = 0 /\ pc # "execute"
        BY <1>1, AnswersAreNoJobs
    <2> QED BY <1>1, <2>1 DEF Chances
<1>9. RunningIsHeld
    BY <1>2 DEF RunningIsHeld
<1> QED BY <1>4, <1>5, <1>6, <1>7, <1>8, <1>9 DEF JobsInv

(* The invariant survives a step that changes nothing. *)
LEMMA StutterJobsInv ==
  ASSUME JobsInv, UNCHANGED vars
  PROVE  JobsInv'
<1>1. /\ UNCHANGED <<file, mem, up, backup, created, restored>>
      /\ UNCHANGED <<disk, key, pc, cur, out, stack, drawn, runs, outcomes>>
      /\ UNCHANGED <<reqs, resp, dropped, nFaults>>
    BY DEF vars, control, agent
<1>2. Shapes'
    BY <1>1 DEF JobsInv, Shapes
<1>3. MemoryIsDurable' /\ Records' /\ Ordered'
    BY <1>1, ControlUntouched
<1>4. Identity'
    BY <1>1, IdentityFacts, SameIdentity
<1>5. OneCall' /\ InHands'
    BY <1>1 DEF JobsInv, OneCall, InHands, Evidence
<1>6. Bounded'
    BY <1>1, NoNewChance
<1>7. RunningIsHeld'
    BY <1>1, StillHeld DEF Held, InHand
<1> QED BY <1>2, <1>3, <1>4, <1>5, <1>6, <1>7 DEF JobsInv

(* Every step keeps the invariant. *)
LEMMA NextJobsInv ==
  ASSUME JobsInv, [Next]_vars
  PROVE  JobsInv'
<1>1. CASE AgentStep
    BY <1>1, LoadIdentityStep, CallingStep, EnrolledStep, HeartbeatDoneStep, PollJobStep, ResultDoneStep,
       ExecuteStep, CommandStep DEF AgentStep
<1>2. CASE \E r \in reqs : Handle(r) \/ LateLost(r)
    BY <1>2, HandleStep, LateLostStep
<1>3. CASE \E j \in Jobs, k \in Keys : createJob(j, k)
    BY <1>3, CreateJobStep
<1>4. CASE OpenStore \/ Backup \/ Restore \/ ControlCrash \/ CallFails \/ AgentCrash
    BY <1>4, OpenStoreStep, BackupStep, RestoreStep, ControlCrashStep, CallFailsStep, AgentCrashStep
<1> QED BY <1>1, <1>2, <1>3, <1>4, StutterJobsInv DEF Next

(* The invariant implies the property of the control plane. *)
LEMMA JobsInvIsSafe == JobsInv => ControlPlane
<1> SUFFICES ASSUME JobsInv PROVE ControlPlane
    OBVIOUS
<1>1. TypeOK
    <2>1. Cardinality({r \in reqs : r.late = 0}) <= 1
        <3> DEFINE W == {r \in reqs : r.late = 0}
        <3>1. CASE W = {}
            BY <3>1, FS_EmptySet
        <3>2. CASE W # {}
            <4>1. PICK r \in W : TRUE
                BY <3>2
            <4>2. W = {r}
                BY <4>1 DEF JobsInv, OneCall
            <4>3. Cardinality({r}) = 1
                BY FS_Singleton
            <4> QED BY <4>2, <4>3
        <3> QED BY <3>1, <3>2
    <2> QED BY <2>1 DEF TypeOK, JobsInv, Shapes
<1>2. OneIdentity
    <2>1. file.agents = {} \/ \E k : file.agents = {k}
        BY IdentityFacts DEF Known
    <2>2. Cardinality({}) = 0 /\ \A k : Cardinality({k}) = 1
        BY FS_EmptySet, FS_Singleton
    <2>3. Cardinality(file.agents) = 0 \/ Cardinality(file.agents) = 1
        BY <2>1, <2>2
    <2> QED BY <2>3 DEF OneIdentity
<1>3. AtMostOnce
    <2> SUFFICES ASSUME NEW j \in Jobs
                 PROVE  /\ runs[j] <= 1 + restored
                        /\ file.jobs[j].st \in Ended => file.jobs[j].st \in outcomes[j]
        BY DEF AtMostOnce
    <2>1. runs[j] \in Nat /\ restored \in Nat /\ Chances(j) <= 1 + restored
        BY ChancesType
    <2>2. runs[j] <= 1 + restored
        BY <2>1 DEF Chances
    <2> QED BY <2>2 DEF JobsInv, Records, Truthful
<1>4. InOrder
    <2> SUFFICES ASSUME NEW i \in created, NEW j \in created, restored = 0,
                        file.jobs[i].at < file.jobs[j].at, file.jobs[i].st = "pending",
                        file.jobs[i].agent = file.jobs[j].agent
                 PROVE  runs[j] = 0
        BY DEF InOrder
    <2>1. j \in Jobs /\ file.jobs[j].st = "pending"
        BY DEF JobsInv, Shapes, Ordered
    <2>2. runs[j] \in Nat /\ Chances(j) <= 1 + restored
        BY <2>1, ChancesType
    <2> QED BY <2>1, <2>2 DEF Chances
<1> QED BY <1>1, <1>2, <1>3, <1>4 DEF JobsInv, ControlPlane

(* The control plane is safe: Control acts on what it has saved, lists a   *)
(* host once however often it enrolls, hands a job to an execution at most *)
(* once (once more for each restore), in order of creation, shows only     *)
(* outcomes that an execution had, and leaves a job running only when a    *)
(* call that carried it was lost or a restore put it back (nextJob,        *)
(* jobResult, enroll, loadIdentity, run and the faults).                   *)
THEOREM ControlPlaneIsSafe == Spec => []ControlPlane
<1>1. Spec => []JobsInv
    <2>1. JobsInv /\ [Next]_vars => JobsInv'
        BY NextJobsInv
    <2> QED BY <2>1, InitJobsInv, PTL DEF Spec
<1> QED BY <1>1, JobsInvIsSafe, PTL
=============================================================================
