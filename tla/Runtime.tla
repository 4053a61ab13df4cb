------------------------------ MODULE Runtime -------------------------------
(***************************************************************************)
(* The lifecycle of an interactive client (internal/clientruntime): the    *)
(* node that runs in the process and the messenger's loopback listener.    *)
(* Start, Stop and Restart are called from several goroutines: the         *)
(* desktop's startup runs Start in the background while the user toggles   *)
(* the network or saves its settings.  The runtime's mutex is held for the *)
(* check at the beginning of Start and for its commit at the end, not for  *)
(* what happens in between.                                                *)
(***************************************************************************)
EXTENDS Naturals

CONSTANTS Threads,   \* goroutines that call Start, Stop or Restart
          MaxCalls,  \* bound: calls of Start, Stop and Restart
          None

ASSUME CallsAssumption == MaxCalls \in Nat
ASSUME NoneAssumption == None \notin 1 .. MaxCalls

VARIABLES
  node,       \* Runtime.node, or None; nodes and listeners are numbered by start
  listener,   \* Runtime.socialListener, or None
  open,       \* listeners that are open
  running,    \* overlay nodes that run
  serve,      \* serve[n]: "no", "spawned", "serving", "draining"
  at,         \* at[t]: where thread t is, and its local variables
  nStarts,    \* starts so far
  nCalls,     \* bound: calls so far
  hit,        \* history: starts whose listener a Stop closed before the commit
  clobbered   \* history: a start replaced the listener of a running node

rtVars == <<node, listener, open, running, serve, at, nStarts, nCalls, hit, clobbered>>

Starts == 1 .. MaxCalls

(* start: the start a Start works on; node and listener: what a Stop took;  *)
(* again: the Stop is a Restart's.                                          *)
Idle == [pc |-> "idle", start |-> None, node |-> None, listener |-> None, again |-> FALSE]

RuntimeInit ==
  /\ node = None /\ listener = None /\ open = {} /\ running = {}
  /\ serve = [n \in Starts |-> "no"] /\ at = [t \in Threads |-> Idle]
  /\ nStarts = 0 /\ nCalls = 0 /\ hit = {} /\ clobbered = FALSE

Goto(t, l) == at' = [at EXCEPT ![t].pc = l]
Return(t) == at' = [at EXCEPT ![t] = Idle]

Called(t, l, again) ==
  /\ at[t].pc = "idle" /\ nCalls < MaxCalls /\ nCalls' = nCalls + 1
  /\ at' = [at EXCEPT ![t].pc = l, ![t].again = again]
  /\ UNCHANGED <<node, listener, open, running, serve, nStarts, hit, clobbered>>

CallStart(t) == Called(t, "start", FALSE)
CallStop(t) == Called(t, "stop", FALSE)
Restart(t) == Called(t, "stop", TRUE)

-----------------------------------------------------------------------------
(* Start: nothing to do if a node runs.                                     *)
StartCheck(t) ==
  /\ at[t].pc = "start"
  /\ IF node # None THEN Return(t) ELSE Goto(t, "listen")
  /\ UNCHANGED <<node, listener, open, running, serve, nStarts, nCalls, hit, clobbered>>

(* The listener is stored in the runtime before there is a node for it.     *)
startSocialListener(t) ==
  /\ at[t].pc = "listen" /\ nStarts < MaxCalls
  /\ nStarts' = nStarts + 1
  /\ listener' = nStarts + 1 /\ open' = open \cup {nStarts + 1}
  /\ clobbered' = (clobbered \/ node # None)
  /\ at' = [at EXCEPT ![t].pc = "node", ![t].start = nStarts + 1]
  /\ UNCHANGED <<node, running, serve, nCalls, hit>>

(* net.Listen fails: nothing was changed.                                   *)
ListenFails(t) ==
  /\ at[t].pc = "listen" /\ Return(t)
  /\ UNCHANGED <<node, listener, open, running, serve, nStarts, nCalls, hit, clobbered>>

(* overlay.New and node.Start: a reserved name, a bad configuration or an   *)
(* address in use ends the attempt and closes its listener.                 *)
NodeStarts(t) ==
  /\ at[t].pc = "node" /\ running' = running \cup {at[t].start}
  /\ Goto(t, "commit")
  /\ UNCHANGED <<node, listener, open, serve, nStarts, nCalls, hit, clobbered>>

NodeFails(t) ==
  /\ at[t].pc = "node" /\ open' = open \ {at[t].start}
  /\ Return(t)
  /\ UNCHANGED <<node, listener, running, serve, nStarts, nCalls, hit, clobbered>>

(* Mutant of Commit: without the second look at Runtime.node.               *)
CommitBlind(t) ==
  /\ at[t].pc = "commit"
  /\ node' = at[t].start /\ listener' = at[t].start
  /\ serve' = [serve EXCEPT ![at[t].start] = "spawned"]
  /\ Return(t)
  /\ UNCHANGED <<open, running, nStarts, nCalls, hit, clobbered>>

(* The first to commit wins; the other stops its node, its listener stays.  *)
Commit(t) ==
  /\ at[t].pc = "commit"
  /\ IF node # None
       THEN running' = running \ {at[t].start} /\ UNCHANGED <<node, listener, serve>>
       ELSE /\ node' = at[t].start /\ listener' = at[t].start
            /\ serve' = [serve EXCEPT ![at[t].start] = "spawned"]
            /\ UNCHANGED running
  /\ Return(t)
  /\ UNCHANGED <<open, nStarts, nCalls, hit, clobbered>>

(* The goroutine of serveSocial registers itself, and ends with its listener. *)
serveSocial(n) ==
  /\ \/ serve[n] = "spawned" /\ serve' = [serve EXCEPT ![n] = "serving"]
     \/ serve[n] = "serving" /\ n \notin open /\ serve' = [serve EXCEPT ![n] = "draining"]
  /\ UNCHANGED <<node, listener, open, running, at, nStarts, nCalls, hit, clobbered>>

(* The connections it accepted, if any, outlast it: handleSocial ends with  *)
(* its connection, at the latest at the deadline of 20 s.                   *)
handlersEnd(n) ==
  /\ serve[n] = "draining" /\ serve' = [serve EXCEPT ![n] = "no"]
  /\ UNCHANGED <<node, listener, open, running, at, nStarts, nCalls, hit, clobbered>>

-----------------------------------------------------------------------------
(* Stop takes node and listener away under the lock, closes one and then    *)
(* the other outside, and waits until no goroutine of the messenger is left.*)
StopTake(t) ==
  /\ at[t].pc = "stop"
  /\ node' = None /\ listener' = None
  /\ at' = [at EXCEPT ![t].pc = "close", ![t].node = node, ![t].listener = listener]
  /\ UNCHANGED <<open, running, serve, nStarts, nCalls, hit, clobbered>>

(* Mutant of StopClose: the listener is left to the canceled context.       *)
StopCloseNode(t) ==
  /\ at[t].pc = "close" /\ at' = [at EXCEPT ![t].pc = "halt", ![t].listener = None]
  /\ UNCHANGED <<node, listener, open, running, serve, nStarts, nCalls, hit, clobbered>>

StopClose(t) ==
  /\ at[t].pc = "close" /\ at' = [at EXCEPT ![t].pc = "halt", ![t].listener = None]
  /\ open' = open \ {at[t].listener}
  /\ hit' = (IF at[t].listener \in {None, at[t].node} THEN hit
                                                        ELSE hit \cup {at[t].listener})
  /\ UNCHANGED <<node, listener, running, serve, nStarts, nCalls, clobbered>>

StopNode(t) ==
  /\ at[t].pc = "halt" /\ at' = [at EXCEPT ![t].pc = "wait", ![t].node = None]
  /\ running' = running \ {at[t].node}
  /\ UNCHANGED <<node, listener, open, serve, nStarts, nCalls, hit, clobbered>>

(* socialWG.Wait; a Restart then reads its files, which may fail, and calls *)
(* Start.                                                                   *)
StopDone(t) ==
  /\ at[t].pc = "wait" /\ \A n \in Starts : serve[n] \notin {"serving", "draining"}
  /\ \/ at[t].again /\ at' = [at EXCEPT ![t] = [Idle EXCEPT !.pc = "start"]]
     \/ Return(t)
  /\ UNCHANGED <<node, listener, open, running, serve, nStarts, nCalls, hit, clobbered>>

Proceed(t) ==
  \/ StartCheck(t) \/ startSocialListener(t) \/ ListenFails(t)
  \/ NodeStarts(t) \/ NodeFails(t) \/ Commit(t)
  \/ StopTake(t) \/ StopClose(t) \/ StopNode(t) \/ StopDone(t)

RuntimeStep ==
  \/ \E t \in Threads : CallStart(t) \/ CallStop(t) \/ Restart(t) \/ Proceed(t)
  \/ \E n \in Starts : serveSocial(n) \/ handlersEnd(n)

(* Goroutines that can go on do so; handlers end by their deadline.         *)
RuntimeFairness ==
  /\ \A t \in Threads : WF_rtVars(Proceed(t))
  /\ \A n \in Starts : WF_rtVars(serveSocial(n)) /\ WF_rtVars(handlersEnd(n))
=============================================================================
