-------------------------------- MODULE Jobs --------------------------------
(***************************************************************************)
(* The operations control plane: the Control server with its persisted     *)
(* state (cmd/knotroute-control/main.go, internal/ops) and an Agent that   *)
(* enrolls, reports its components by heartbeat, polls for jobs, runs them *)
(* with docker compose and reports the outcome (cmd/knotroute-agent).      *)
(*                                                                         *)
(* A call of the agent is a request, its handling by Control and the       *)
(* answer.  The call fails when the connection breaks or after the 30 s of *)
(* the HTTP client; a request the agent no longer waits for (late # 0) may *)
(* still be handled.  One agent host with one managed component; requests  *)
(* are signed and in time, the admin is logged in.                         *)
(***************************************************************************)
EXTENDS Naturals, FiniteSets

CONSTANTS Jobs,      \* job identifiers (random, never reused)
          KindOf,    \* KindOf[j]: "deploy", "restart" or "remove"
          None,
          MaxFaults  \* bound: failed saves, crashes, lost calls and restores

ASSUME KindAssumption == KindOf \in [Jobs -> {"deploy", "restart", "remove"}]
ASSUME BoundAssumption == MaxFaults \in Nat
ASSUME JobsAssumption ==
  /\ IsFiniteSet(Jobs)
  /\ None \notin Jobs \cup {"error", "enrolled", "ok", "nothing"}
  /\ None \notin [key : Nat, id : BOOLEAN]
  /\ Jobs \cap {"error", "enrolled", "ok", "nothing"} = {}

VARIABLES
  file,      \* state.json: agents, jobs and the reported inventory
  mem,       \* Store.data, the copy the handlers read
  up,        \* Control runs
  backup,    \* a saved copy of /data, or None
  disk,      \* agent-identity.json: key and whether the agent ID is recorded, or None
  key,       \* the key the agent process holds
  pc,        \* where the agent process is
  cur,       \* the job the agent runs, or None
  out,       \* the outcome it will report
  stack,     \* the component on the host: compose.yaml written, container there
  reqs,      \* requests on their way to Control
  resp,      \* the answer to the agent's current call, or None
  drawn,     \* how many keys were drawn
  created,   \* history: jobs created
  runs,      \* history: runs[j], how often j was executed
  outcomes,  \* history: outcomes[j], what its executions ended with
  dropped,   \* history: jobs whose hand-over or outcome a call or a restore lost
  restored,  \* history: how often Control's state was restored
  nFaults    \* bound: faults so far

control == <<file, mem, up, backup, created, restored>>
agent == <<disk, key, pc, cur, out, stack, drawn, runs, outcomes>>
vars == <<control, agent, reqs, resp, dropped, nFaults>>

(* Agent key pairs, and so agent IDs, numbered as they are drawn.           *)
Keys == 1 .. MaxFaults + 1

Absent == [st |-> "absent", agent |-> None, at |-> 0]
Statuses == {"absent", "pending", "running", "succeeded", "failed"}
Calls == {"enroll", "heartbeat", "next", "result"}

States == [agents : SUBSET Keys, inventory : BOOLEAN,
           jobs : [Jobs -> [st : Statuses, agent : Keys \cup {None}, at : 0 .. Cardinality(Jobs)]]]

Init ==
  /\ file = [agents |-> {}, inventory |-> FALSE, jobs |-> [j \in Jobs |-> Absent]]
  /\ mem = file /\ up = TRUE /\ backup = None /\ created = {} /\ restored = 0
  /\ disk = None /\ key = None /\ pc = "down" /\ cur = None /\ out = None
  /\ stack = [yaml |-> FALSE, there |-> FALSE]
  /\ drawn = 0 /\ runs = [j \in Jobs |-> 0] /\ outcomes = [j \in Jobs |-> {}]
  /\ reqs = {} /\ resp = None /\ dropped = {} /\ nFaults = 0

Fault == nFaults < MaxFaults /\ nFaults' = nFaults + 1

(* The agent waits for an answer that has not come.                         *)
waiting == pc \in Calls /\ resp = None

(* Jobs whose outcome the requests R carry, and the job an answer carries.  *)
Reported(R) == {r.job : r \in {q \in R : q.op = "result"}}
HandedOver(a) == {a} \cap Jobs

(* Jobs some party still holds after Control marked them as running.        *)
InHand == IF pc \in {"execute", "command", "report"} THEN HandedOver(cur) ELSE {}
Held == HandedOver(resp) \cup InHand \cup Reported(reqs)

-----------------------------------------------------------------------------
(* Control.  Store.Update applies a change to a copy, saves the copy by     *)
(* renaming a temporary file, and only then makes it visible.  The save may *)
(* fail, or the process dies once the file is renamed.                      *)

Reply(r, a) ==
  /\ reqs' = reqs \ {r}
  /\ resp' = IF r.late = 0 THEN a ELSE resp
  /\ dropped' = dropped \cup (IF r.late = 0 THEN {} ELSE HandedOver(a))

Refuse(r) ==
  /\ reqs' = reqs \ {r}
  /\ resp' = IF r.late = 0 THEN "error" ELSE resp
  /\ dropped' = dropped \cup Reported({r})

(* With the process every connection is gone.                               *)
Died ==
  /\ up' = FALSE /\ reqs' = {}
  /\ resp' = IF waiting THEN "error" ELSE resp

Update(r, next, a) ==
  /\ up
  /\ \/ file' = next /\ mem' = next /\ Reply(r, a) /\ UNCHANGED <<up, nFaults>>
     \/ Fault /\ Refuse(r) /\ UNCHANGED <<file, mem, up>>
     \/ /\ Fault /\ file' = next /\ Died /\ UNCHANGED mem
        /\ dropped' = dropped \cup HandedOver(a) \cup Reported(reqs \ {r})
  /\ UNCHANGED <<backup, created, restored, agent>>

(* Mutant of enroll: a known key is refused.                                *)
enrollOnce(r) ==
  /\ up /\ r.op = "enroll"
  /\ IF r.key \in mem.agents
       THEN Refuse(r) /\ UNCHANGED <<control, agent, nFaults>>
       ELSE Update(r, [mem EXCEPT !.agents = @ \cup {r.key}], "enrolled")

(* An enrollment with a known key is a new enrollment of the same agent.    *)
enroll(r) ==
  /\ r.op = "enroll"
  /\ Update(r, [mem EXCEPT !.agents = @ \cup {r.key}], "enrolled")

(* A signed request of an agent Control does not know is refused.           *)
agentSigned(r) == up /\ r.op # "enroll" /\ r.key \in mem.agents

unknownAgent(r) ==
  /\ up /\ r.op # "enroll" /\ r.key \notin mem.agents
  /\ Refuse(r)
  /\ UNCHANGED <<control, agent, nFaults>>

heartbeat(r) ==
  /\ agentSigned(r) /\ r.op = "heartbeat"
  /\ Update(r, [mem EXCEPT !.inventory = r.there], "ok")

pendingJobs(k) == {j \in Jobs : mem.jobs[j].st = "pending" /\ mem.jobs[j].agent = k}

oldest(js) == CHOOSE j \in js : \A i \in js : mem.jobs[j].at <= mem.jobs[i].at

nextJob(r) ==
  /\ agentSigned(r) /\ r.op = "next"
  /\ LET js == pendingJobs(r.key) IN
     IF js = {} THEN Update(r, mem, "nothing")
                ELSE Update(r, [mem EXCEPT !.jobs[oldest(js)].st = "running"], oldest(js))

(* The result is taken whatever the job's status is, if it is the agent's.  *)
jobResult(r) ==
  /\ agentSigned(r) /\ r.op = "result"
  /\ IF mem.jobs[r.job].agent = r.key
       THEN Update(r, [mem EXCEPT !.jobs[r.job].st = r.out], "ok")
       ELSE Refuse(r) /\ UNCHANGED <<control, agent, nFaults>>

(* The admin orders a job from an agent Control knows.                      *)
createJob(j, k) ==
  /\ up /\ k \in mem.agents /\ j \notin created
  /\ created' = created \cup {j}
  /\ file' = [mem EXCEPT !.jobs[j] = [st |-> "pending", agent |-> k, at |-> Cardinality(created)]]
  /\ mem' = file'
  /\ UNCHANGED <<up, backup, restored, agent, reqs, resp, dropped, nFaults>>

(* The operator saves Control's /data at any time, also before an agent has *)
(* enrolled, and puts the last copy back.  A job the backup has as running, *)
(* and that nobody holds any more, has lost its outcome.                    *)
Backup ==
  /\ backup' = file
  /\ UNCHANGED <<file, mem, up, created, restored, agent, reqs, resp, dropped, nFaults>>

Restore ==
  /\ Fault /\ ~up /\ backup # None
  /\ file' = backup /\ restored' = restored + 1
  /\ dropped' = dropped \cup {j \in Jobs \ Held : backup.jobs[j].st = "running"}
  /\ UNCHANGED <<mem, up, backup, created, agent, reqs, resp>>

ControlCrash ==
  /\ Fault /\ up /\ Died
  /\ dropped' = dropped \cup Reported(reqs)
  /\ UNCHANGED <<file, mem, backup, created, restored, agent>>

(* main opens the store: it reads what the last rename left.                *)
OpenStore ==
  /\ ~up /\ up' = TRUE /\ mem' = file
  /\ UNCHANGED <<file, backup, created, restored, agent, reqs, resp, dropped, nFaults>>

Handle(r) == enroll(r) \/ unknownAgent(r) \/ heartbeat(r) \/ nextJob(r) \/ jobResult(r)
-----------------------------------------------------------------------------
(* The agent.                                                               *)

(* saveIdentity renames a synced temporary file; the process exits when it  *)
(* fails.                                                                   *)
saveIdentity(d, next) ==
  \/ disk' = d /\ pc' = next /\ UNCHANGED nFaults
  \/ Fault /\ pc' = "down" /\ UNCHANGED disk

(* Mutant of loadIdentity: the key is saved only once Control knows it.     *)
loadIdentityUnsaved ==
  /\ pc = "down"
  /\ IF disk = None
       THEN key' = drawn + 1 /\ drawn' = drawn + 1 /\ pc' = "start"
       ELSE /\ key' = disk.key /\ pc' = (IF disk.id THEN "tick" ELSE "start")
            /\ UNCHANGED drawn
  /\ UNCHANGED <<control, disk, cur, out, stack, runs, outcomes, reqs, resp, dropped, nFaults>>

loadIdentity ==
  /\ pc = "down"
  /\ IF disk = None
       THEN /\ key' = drawn + 1 /\ drawn' = drawn + 1
            /\ saveIdentity([key |-> drawn + 1, id |-> FALSE], "start")
       ELSE /\ key' = disk.key /\ pc' = (IF disk.id THEN "tick" ELSE "start")
            /\ UNCHANGED <<disk, drawn, nFaults>>
  /\ UNCHANGED <<control, cur, out, stack, runs, outcomes, reqs, resp, dropped>>

(* Mutant of inspectComponents: the list of the running containers only     *)
(* reaches the heartbeat of an agent that has just started.                 *)
inspectOnce == cur = None /\ stack.there /\ \A j \in Jobs : runs[j] = 0

(* docker ps: the managed containers; the list is empty if it fails.        *)
inspectComponents == stack.there

(* A call is a request if Control accepts the connection.                   *)
Call(from, op, there) ==
  LET r == [op |-> op, key |-> key, late |-> 0, there |-> there, job |-> cur, out |-> out] IN
  /\ pc = from /\ pc' = op
  /\ IF up THEN reqs' = reqs \cup {r} /\ UNCHANGED <<resp, dropped>>
           ELSE resp' = "error" /\ dropped' = dropped \cup Reported({r}) /\ UNCHANGED reqs
  /\ UNCHANGED <<control, disk, key, cur, out, stack, drawn, runs, outcomes>>

callEnroll == Call("start", "enroll", FALSE) /\ UNCHANGED nFaults
callHeartbeat ==
  \/ Call("tick", "heartbeat", inspectComponents) /\ UNCHANGED nFaults
  \/ Call("tick", "heartbeat", FALSE) /\ Fault
callNext == Call("poll", "next", FALSE) /\ UNCHANGED nFaults
callResult == Call("report", "result", FALSE) /\ UNCHANGED nFaults

Calling == callEnroll \/ callHeartbeat \/ callNext \/ callResult

(* The answer.  A failed enrollment ends the process; the other calls only  *)
(* log an error, and a result is reported once.                             *)
Answer(op) == pc = op /\ resp # None /\ resp' = None

enrolled ==
  /\ Answer("enroll")
  /\ IF resp = "enrolled"
       THEN saveIdentity([key |-> key, id |-> TRUE], "tick")
       ELSE pc' = "down" /\ UNCHANGED <<disk, nFaults>>
  /\ UNCHANGED <<control, key, cur, out, stack, drawn, runs, outcomes, reqs, dropped>>

heartbeatDone ==
  /\ Answer("heartbeat") /\ pc' = "poll"
  /\ UNCHANGED <<control, disk, key, cur, out, stack, drawn, runs, outcomes, reqs, dropped, nFaults>>

pollJob ==
  /\ Answer("next")
  /\ IF resp \in Jobs THEN pc' = "execute" /\ cur' = resp ELSE pc' = "tick" /\ UNCHANGED cur
  /\ UNCHANGED <<control, disk, key, out, stack, drawn, runs, outcomes, reqs, dropped, nFaults>>

resultDone ==
  /\ Answer("result") /\ pc' = "tick" /\ cur' = None /\ out' = None
  /\ UNCHANGED <<control, disk, key, stack, drawn, runs, outcomes, reqs, dropped, nFaults>>

-----------------------------------------------------------------------------
(* Running a job: one or two steps, each of which may fail.                 *)

Ends(o) ==
  /\ pc' = "report" /\ out' = o
  /\ outcomes' = [outcomes EXCEPT ![cur] = @ \cup {o}]

(* What a job needs: restart a container, remove a compose.yaml.            *)
managedStack ==
  CASE KindOf[cur] = "deploy" -> TRUE
    [] KindOf[cur] = "restart" -> stack.there
    [] KindOf[cur] = "remove" -> stack.yaml

writeCompose == [stack EXCEPT !.yaml = TRUE]

(* The payload is refused, the stack is not found or compose.yaml cannot be *)
(* written; else the job comes to its docker command.                       *)
execute ==
  /\ pc = "execute"
  /\ runs' = [runs EXCEPT ![cur] = @ + 1]
  /\ \/ /\ managedStack
        /\ stack' = (IF KindOf[cur] = "deploy" THEN writeCompose ELSE stack)
        /\ pc' = "command" /\ UNCHANGED <<out, outcomes>>
     \/ Ends("failed") /\ UNCHANGED stack
  /\ UNCHANGED <<control, disk, key, cur, drawn, reqs, resp, dropped, nFaults>>

(* What docker compose up, docker restart and docker compose down leave.    *)
compose ==
  CASE KindOf[cur] = "deploy" -> [stack EXCEPT !.there = TRUE]
    [] KindOf[cur] = "restart" -> stack
    [] KindOf[cur] = "remove" -> [stack EXCEPT !.there = FALSE]

(* A command that fails or times out may have done its work.                *)
command ==
  /\ pc = "command"
  /\ \/ Ends("succeeded") /\ stack' = compose
     \/ Ends("failed") /\ stack' \in {stack, compose}
  /\ UNCHANGED <<control, disk, key, cur, drawn, runs, reqs, resp, dropped, nFaults>>

-----------------------------------------------------------------------------
(* Faults.  The connection breaks or the client's timeout passes: what was  *)
(* answered is lost, what was not may still arrive, or never does.          *)

late == [r \in reqs |-> IF r.late = 0 THEN [r EXCEPT !.late = nFaults + 1] ELSE r]

CallFails ==
  /\ Fault /\ pc \in Calls /\ resp # "error"
  /\ resp' = "error"
  /\ dropped' = dropped \cup HandedOver(resp)
  /\ reqs' = {late[r] : r \in reqs}
  /\ UNCHANGED <<control, agent>>

LateLost(r) ==
  /\ r.late # 0 /\ reqs' = reqs \ {r}
  /\ dropped' = dropped \cup Reported({r})
  /\ UNCHANGED <<control, agent, resp, nFaults>>

(* The docker command of a job outlives the agent, and may have done its    *)
(* work.                                                                    *)
AgentCrash ==
  /\ Fault /\ pc # "down"
  /\ stack' \in (IF pc = "command" THEN {stack, compose} ELSE {stack})
  /\ pc' = "down" /\ cur' = None /\ out' = None /\ key' = None /\ resp' = None
  /\ reqs' = {late[r] : r \in reqs}
  /\ dropped' = dropped \cup HandedOver(resp) \cup InHand
  /\ UNCHANGED <<control, disk, drawn, runs, outcomes>>

-----------------------------------------------------------------------------
AgentStep ==
  \/ loadIdentity \/ Calling
  \/ enrolled \/ heartbeatDone \/ pollJob \/ resultDone
  \/ execute \/ command

Next ==
  \/ AgentStep \/ OpenStore
  \/ \E r \in reqs : Handle(r) \/ LateLost(r)
  \/ \E j \in Jobs, k \in Keys : createJob(j, k)
  \/ Backup \/ Restore \/ ControlCrash \/ CallFails \/ AgentCrash

(* Both processes are restarted by their supervisor and keep running; the   *)
(* request the agent waits for is served, and one it gave up is served late *)
(* or lost with its connection.                                             *)
Fairness ==
  /\ WF_vars(AgentStep)
  /\ WF_vars(OpenStore)
  /\ WF_vars(\E r \in reqs : r.late = 0 /\ Handle(r))
  /\ WF_vars(\E r \in reqs : r.late # 0 /\ (Handle(r) \/ LateLost(r)))

Spec == Init /\ [][Next]_vars /\ Fairness

-----------------------------------------------------------------------------
Ended == {"succeeded", "failed"}

TypeOK ==
  /\ file \in States /\ mem \in States /\ up \in BOOLEAN
  /\ disk = None \/ disk \in [key : Keys, id : BOOLEAN]
  /\ key \in Keys \cup {None}
  /\ pc \in Calls \cup {"down", "start", "tick", "poll", "execute", "command", "report"}
  /\ cur \in Jobs \cup {None} /\ out \in Ended \cup {None}
  /\ stack \in [yaml : BOOLEAN, there : BOOLEAN]
  /\ Cardinality({r \in reqs : r.late = 0}) <= 1

(* What Control acts on is what it would read back after a crash: no        *)
(* handler leaves the memory ahead of, or behind, state.json.               *)
MemoryIsDurable == up => mem = file

(* However often an agent crashes while it enrolls, or loses the answer, it *)
(* enrolls as one agent: Control never lists its host twice.                *)
OneIdentity == Cardinality(file.agents) <= 1

(* A job runs at most once, and once more for each restore of Control's     *)
(* state, whatever calls are lost or late; the status it ends with is one   *)
(* that an execution of it really had.                                      *)
AtMostOnce ==
  \A j \in Jobs :
     /\ runs[j] <= 1 + restored
     /\ file.jobs[j].st \in Ended => file.jobs[j].st \in outcomes[j]

(* An agent runs its jobs in the order they were created: nothing created   *)
(* after a job that still waits has been run (a restore aside).             *)
InOrder ==
  \A i, j \in created :
     /\ restored = 0 /\ file.jobs[i].at < file.jobs[j].at
     /\ file.jobs[i].st = "pending" /\ file.jobs[i].agent = file.jobs[j].agent
     => runs[j] = 0

(* A job Control shows as running is in somebody's hands, or a call that    *)
(* carried it was lost, or a restore put it back after its execution:       *)
(* nothing else leaves it running for ever.                                 *)
RunningIsHeld ==
  \A j \in Jobs : file.jobs[j].st = "running" => j \in Held \cup dropped

(* The control plane's safety: types, durable memory, one identity per host,*)
(* at most one execution per hand-over, in order of creation, and no job    *)
(* left running but by a lost call or a restore.                            *)
ControlPlane ==
  TypeOK /\ MemoryIsDurable /\ OneIdentity /\ AtMostOnce /\ InOrder /\ RunningIsHeld

(* A waiting job ends, unless a lost call or a restore dropped it, or a     *)
(* restore undid its creation.                                              *)
JobsEnd ==
  \A j \in Jobs : file.jobs[j].st = "pending" ~>
     file.jobs[j].st \in Ended \cup {"absent"} \/ j \in dropped

(* A restored backup does not know an agent that has recorded its enrollment. *)
Forgotten == disk # None /\ disk.id /\ disk.key \notin file.agents

(* Control's inventory agrees with the host again and again, unless a       *)
(* restore made Control forget the agent: that agent never enrolls anew and *)
(* is refused for ever (main.go:401-405; cmd/knotroute-agent, enroll only   *)
(* without an agent ID).                                                    *)
InventoryConverges == []<>(file.inventory = stack.there) \/ <>[]Forgotten
=============================================================================
