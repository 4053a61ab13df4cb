------------------------------- MODULE Client -------------------------------
(***************************************************************************)
(* A client whose runtime is started and stopped while its user and a      *)
(* remote one exchange messages: Runtime composed with Messenger.  The     *)
(* client sends while a node runs, and is reached while the listener that  *)
(* its node's kr-chat service names is served; the remote user is online.  *)
(***************************************************************************)
EXTENDS Runtime, Messenger

CONSTANT Local   \* the user of the client

ASSUME LocalAssumption == Local \in Users

vars == <<rtVars, msgVars>>

Init == RuntimeInit /\ MessengerInit

Online(u) == u # Local \/ node # None
Reached(u) == u # Local \/ (node # None /\ node \in open /\ serve[node] = "serving")

(* The profile is fetched from the other messenger; it verifies.            *)
fetchRemoteProfile(u) == Online(u) /\ Reached(peer(u))

Talk ==
  \/ \E u \in Users : fetchRemoteProfile(u) /\ AddContact(u)
  \/ \E m \in Messages :
       \/ Online(From[m]) /\ SendMessage(m)
       \/ Online(From[m]) /\ Reached(peer(From[m])) /\ handleSocial(m)
       \/ Sent(m)
       \/ Fault /\ Broken(m)
       \/ node = None /\ Broken(m) /\ UNCHANGED nFaults

Crash(u) ==
  /\ OpenStore(u)
  /\ IF u # Local THEN UNCHANGED rtVars ELSE
     /\ node' = None /\ listener' = None /\ open' = {} /\ running' = {}
     /\ serve' = [n \in Starts |-> "no"] /\ at' = [t \in Threads |-> Idle]
     /\ nStarts' = 0 /\ hit' = {} /\ clobbered' = FALSE
     /\ UNCHANGED nCalls

Next ==
  \/ RuntimeStep /\ UNCHANGED msgVars
  \/ Talk /\ UNCHANGED rtVars
  \/ \E u \in Users : Crash(u)

Spec == Init /\ [][Next]_vars /\ RuntimeFairness

-----------------------------------------------------------------------------
TypeOK ==
  /\ node \in Starts \cup {None} /\ listener \in Starts \cup {None}
  /\ open \subseteq Starts /\ running \subseteq Starts /\ hit \subseteq Starts
  /\ serve \in [Starts -> {"no", "spawned", "serving", "draining"}]
  /\ \A t \in Threads :
       at[t].pc \in {"idle", "start", "listen", "node", "commit", "stop", "close", "halt",
                   "wait"}
  /\ MessengerTypeOK

Quiet == \A t \in Threads : at[t].pc = "idle"

(* However Start, Stop and Restart overlap, once they have returned the     *)
(* runtime's node is the only one that runs, none is left behind, and its   *)
(* messenger is reached, unless a Stop closed its listener while it was     *)
(* still starting.                                                          *)
OneNode ==
  /\ TypeOK
  /\ Quiet =>
       /\ running = {node} \ {None}
       /\ node # None /\ serve[node] # "spawned" => Reached(Local) \/ node \in hit

(* Stop returns: the goroutines it waits for, of the listener and of its    *)
(* connections, end, unless a Start that overlaps it has committed a node,  *)
(* whose messenger it then waits for, or a second Start replaced the        *)
(* listener of the node it stopped.                                         *)
StopReturns ==
  \A t \in Threads : at[t].pc = "wait" ~> at[t].pc # "wait" \/ node # None \/ clobbered
=============================================================================
