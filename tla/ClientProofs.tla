---------------------------- MODULE ClientProofs -----------------------------
(***************************************************************************)
(* Proofs about Client, for any number of goroutines that call Start, Stop *)
(* and Restart, any number of calls, messages and faults, and any length   *)
(* of the history.                                                         *)
(***************************************************************************)
EXTENDS Client, FiniteSetTheorems, WellFoundedInduction, TLAPS

-----------------------------------------------------------------------------
(* The runtime.  Types of what OneNode reads.                              *)
Labels == {"idle", "start", "listen", "node", "commit", "stop", "close", "halt", "wait"}

Starting(t) == at[t].pc \in {"node", "commit"}
Stopping(t) == at[t].pc \in {"close", "halt"}

RuntimeType ==
  /\ node \in Starts \cup {None} /\ listener \in Starts \cup {None}
  /\ open \subseteq Starts /\ running \subseteq Starts /\ hit \subseteq Starts
  /\ serve \in [Starts -> {"no", "spawned", "serving", "draining"}]
  /\ at \in [Threads -> [pc : Labels, start : Starts \cup {None}, node : Starts \cup {None},
                         listener : Starts \cup {None}, again : BOOLEAN]]
  /\ nStarts \in 0 .. MaxCalls

(* A start has one owner: the runtime, the Start that works on it, or the  *)
(* Stop that took it.                                                      *)
OneOwner ==
  /\ node # None => node <= nStarts
  /\ \A n \in open : n <= nStarts
  /\ \A t \in Threads : Starting(t) =>
       at[t].start # None /\ at[t].start <= nStarts /\ at[t].start # node
  /\ \A t \in Threads : Stopping(t) /\ at[t].node # None =>
       at[t].node <= nStarts /\ at[t].node # node
  /\ \A t, u \in Threads : t # u =>
       /\ Starting(t) /\ Starting(u) => at[t].start # at[u].start
       /\ Stopping(t) /\ Stopping(u) /\ at[t].node # None => at[t].node # at[u].node
       /\ Starting(t) /\ Stopping(u) => at[t].start # at[u].node

(* What runs is the runtime's node, one that is about to be committed, or  *)
(* one that a Stop is about to stop.                                       *)
RunningOwned ==
  \A n \in Starts : n \in running <=>
     \/ n = node
     \/ \E t \in Threads : at[t].pc = "commit" /\ at[t].start = n
     \/ \E t \in Threads : Stopping(t) /\ at[t].node = n

(* The listener of a node that runs or starts is open unless a Stop closed *)
(* it too early; the goroutine that serves it ends only once it is closed. *)
ListenersOpen ==
  /\ node # None => node \in open \cup hit
  /\ \A t \in Threads : Starting(t) => at[t].start \in open \cup hit
  /\ node # None => serve[node] \in {"spawned", "serving"} \/ node \notin open

RuntimeInv == RuntimeType /\ OneOwner /\ RunningOwned /\ ListenersOpen

-----------------------------------------------------------------------------
(* Before the first call, and after a crash, nothing is owned.             *)
Unowned ==
  /\ node = None /\ listener = None /\ open = {} /\ running = {} /\ nStarts = 0 /\ hit = {}
  /\ serve = [n \in Starts |-> "no"] /\ at = [t \in Threads |-> Idle]

(* Before any call of Start, nothing runs, listens or is being started. *)
LEMMA NothingOwned == Unowned => RuntimeInv
<1> SUFFICES ASSUME Unowned PROVE RuntimeInv
    OBVIOUS
<1> USE DEF Unowned
<1>1. /\ Idle \in [pc : Labels, start : Starts \cup {None}, node : Starts \cup {None},
                   listener : Starts \cup {None}, again : BOOLEAN]
      /\ Idle.pc = "idle"
    BY DEF Idle, Labels
<1>2. RuntimeType
    BY <1>1, CallsAssumption DEF RuntimeType
<1>3. \A t \in Threads : at[t].pc = "idle"
    BY <1>1
<1> QED BY <1>2, <1>3, NoneAssumption
        DEF RuntimeInv, OneOwner, RunningOwned, ListenersOpen, Starting, Stopping, Starts

(* Each step of the runtime keeps its types.                               *)
LEMMA RuntimeTypeStep == RuntimeType /\ OneOwner /\ RuntimeStep => RuntimeType'
<1> SUFFICES ASSUME RuntimeType, OneOwner, RuntimeStep PROVE RuntimeType'
    OBVIOUS
<1> USE CallsAssumption, NoneAssumption
<1> DEFINE Local_ == [pc : Labels, start : Starts \cup {None}, node : Starts \cup {None},
                      listener : Starts \cup {None}, again : BOOLEAN]
<1>a. at \in [Threads -> Local_] /\ Idle \in Local_ /\ [Idle EXCEPT !.pc = "start"] \in Local_
    BY DEF RuntimeType, Idle, Labels
<1>b. nStarts < MaxCalls => nStarts + 1 \in Starts /\ nStarts + 1 \in 0 .. MaxCalls
    BY DEF RuntimeType, Starts
<1>0. /\ at \in [Threads -> Local_] /\ Idle \in Local_ /\ [Idle EXCEPT !.pc = "start"] \in Local_
      /\ nStarts < MaxCalls => nStarts + 1 \in Starts /\ nStarts + 1 \in 0 .. MaxCalls
    BY <1>a, <1>b
<1>1. ASSUME NEW n \in Starts, serveSocial(n) \/ handlersEnd(n) PROVE RuntimeType'
    BY <1>1 DEF serveSocial, handlersEnd, RuntimeType
<1>2. ASSUME NEW t \in Threads, NEW l \in Local_, at' = [at EXCEPT ![t] = l]
      PROVE at' \in [Threads -> Local_]
    BY <1>2, <1>0
<1>3. ASSUME NEW t \in Threads, NEW l \in Labels, Goto(t, l)
      PROVE  at' \in [Threads -> Local_]
    BY <1>3, <1>0 DEF Goto
<1>4. ASSUME NEW t \in Threads, CallStart(t) \/ CallStop(t) \/ Restart(t) PROVE RuntimeType'
    <2>1. at' \in [Threads -> Local_]
        BY <1>4, <1>0 DEF CallStart, CallStop, Restart, Called, Labels
    <2> QED BY <1>4, <2>1 DEF CallStart, CallStop, Restart, Called, RuntimeType
<1>5. ASSUME NEW t \in Threads, Proceed(t) PROVE RuntimeType'
    <2>1. CASE StartCheck(t) \/ ListenFails(t) \/ NodeStarts(t) \/ NodeFails(t) \/ StopDone(t)
               \/ Commit(t) \/ StopClose(t) \/ StopNode(t)
        <3>1. at' \in [Threads -> Local_]
            <4>1. CASE StopClose(t) \/ StopNode(t)
                BY <4>1, <1>0 DEF StopClose, StopNode, Labels
            <4>2. CASE ~(StopClose(t) \/ StopNode(t))
                BY <2>1, <4>2, <1>0, <1>2, <1>3 DEF StartCheck, ListenFails, NodeStarts,
                   NodeFails, StopDone, Commit, Return, Labels
            <4> QED BY <4>1, <4>2
        <3>2. at[t].start \in Starts \cup {None}
            BY <1>0
        <3>3. CASE StartCheck(t) \/ ListenFails(t) \/ StopDone(t)
            BY <3>1, <3>3 DEF StartCheck, ListenFails, StopDone, RuntimeType
        <3>4. CASE NodeFails(t) \/ StopClose(t) \/ StopNode(t)
            <4>1. at[t].listener \in Starts \cup {None}
                BY <1>0
            <4> QED BY <3>1, <3>4, <4>1 DEF NodeFails, StopClose, StopNode, RuntimeType
        <3>5. CASE NodeStarts(t)
            <4>1. at[t].start \in Starts
                BY <3>5, <3>2 DEF NodeStarts, OneOwner, Starting
            <4> QED BY <3>1, <3>5, <4>1 DEF NodeStarts, RuntimeType
        <3>6. CASE Commit(t)
            BY <3>1, <3>2, <3>6 DEF Commit, RuntimeType
        <3> QED BY <2>1, <3>3, <3>4, <3>5, <3>6
    <2>2. CASE startSocialListener(t)
        <3>1. at' \in [Threads -> Local_]
            BY <2>2, <1>0 DEF startSocialListener, Labels
        <3> QED BY <3>1, <2>2, <1>0 DEF startSocialListener, RuntimeType
    <2>3. CASE StopTake(t)
        <3>1. at' \in [Threads -> Local_]
            BY <2>3, <1>0, ZenonT(30) DEF StopTake, RuntimeType, Labels
        <3> QED BY <3>1, <2>3, <1>0 DEF StopTake, RuntimeType
    <2> QED BY <1>5, <2>1, <2>2, <2>3 DEF Proceed
<1> QED BY <1>1, <1>4, <1>5 DEF RuntimeStep

(* Each step of the runtime keeps who owns what.                           *)
LEMMA RuntimeInvStep == RuntimeInv /\ RuntimeStep => RuntimeInv'
<1> SUFFICES ASSUME RuntimeInv, RuntimeStep PROVE (OneOwner /\ RunningOwned /\ ListenersOpen)'
    BY RuntimeTypeStep DEF RuntimeInv
<1>0. RuntimeType /\ OneOwner /\ RunningOwned /\ ListenersOpen
    BY DEF RuntimeInv
<1>t. /\ node \in Starts \cup {None} /\ listener \in Starts \cup {None}
      /\ open \subseteq Starts /\ running \subseteq Starts
      /\ serve \in [Starts -> {"no", "spawned", "serving", "draining"}]
      /\ at \in [Threads -> [pc : Labels, start : Starts \cup {None}, node : Starts \cup {None},
                             listener : Starts \cup {None}, again : BOOLEAN]]
      /\ nStarts \in Nat /\ Starts \subseteq Nat /\ None \notin Starts
    BY <1>0, CallsAssumption, NoneAssumption DEF RuntimeType, Starts
<1> DEFINE Goal == (OneOwner /\ RunningOwned /\ ListenersOpen)'
           Changes(t) == \A u \in Threads : u # t => at'[u] = at[u]
<1>1. ASSUME NEW t \in Threads, Changes(t), at[t].pc \notin {"node", "commit", "close", "halt"},
             at'[t].pc \notin {"node", "commit", "close", "halt"},
             UNCHANGED <<node, open, running, serve, nStarts, hit>>
      PROVE  Goal
    <2>1. OneOwner'
        BY <1>0, <1>1 DEF OneOwner, Starting, Stopping
    <2>2. RunningOwned'
        BY <1>0, <1>1 DEF RunningOwned, Stopping
    <2>3. ListenersOpen'
        BY <1>0, <1>1 DEF ListenersOpen, Starting
    <2> QED BY <2>1, <2>2, <2>3
<1>2. ASSUME NEW n \in Starts, serveSocial(n) \/ handlersEnd(n) PROVE Goal
    <2>1. /\ UNCHANGED <<node, open, running, at, nStarts, hit>>
          /\ \A k \in Starts : k # n => serve'[k] = serve[k]
          /\ \/ serve'[n] = "serving"
             \/ n \notin open
             \/ serve[n] = "draining"
        BY <1>2, <1>t DEF serveSocial, handlersEnd
    <2>2. OneOwner' /\ RunningOwned'
        BY <2>1, <1>0 DEF OneOwner, RunningOwned, Starting, Stopping
    <2>3. ListenersOpen'
        BY <2>1, <1>0, <1>t DEF ListenersOpen, Starting
    <2> QED BY <2>2, <2>3
<1>3. ASSUME NEW t \in Threads, CallStart(t) \/ CallStop(t) \/ Restart(t) PROVE Goal
    <2>1. /\ at[t].pc = "idle" /\ at'[t].pc \in {"start", "stop"} /\ Changes(t)
          /\ UNCHANGED <<node, open, running, serve, nStarts, hit>>
        BY <1>3, <1>t DEF CallStart, CallStop, Restart, Called
    <2> QED BY <2>1, <1>1
<1>4. ASSUME NEW t \in Threads, StartCheck(t) \/ ListenFails(t) \/ StopDone(t) PROVE Goal
    <2>1. /\ at[t].pc \in {"start", "listen", "wait"} /\ at'[t].pc \in {"idle", "listen", "start"}
          /\ Changes(t)
          /\ UNCHANGED <<node, open, running, serve, nStarts, hit>>
        BY <1>4, <1>t DEF StartCheck, ListenFails, StopDone, Goto, Return, Idle
    <2> QED BY <2>1, <1>1
<1>5. ASSUME NEW t \in Threads, startSocialListener(t) PROVE Goal
    <2>1. /\ at[t].pc = "listen" /\ at'[t].pc = "node" /\ at'[t].start = nStarts + 1
          /\ nStarts' = nStarts + 1 /\ open' = open \cup {nStarts + 1} /\ Changes(t)
          /\ UNCHANGED <<node, running, serve, hit>>
        BY <1>5, <1>t DEF startSocialListener
    <2>a. nStarts + 1 \in Starts
        BY <1>5, <1>t, CallsAssumption DEF startSocialListener, Starts
    <2>2. OneOwner'
        <3>a. \A n \in Starts : n <= nStarts => n <= nStarts + 1 /\ n # nStarts + 1
            BY <1>t
        <3>b. \A u \in Threads : at[u].start \in Starts \cup {None} /\ at[u].node \in Starts \cup {None}
            BY <1>t
        <3>1. nStarts + 1 # None /\ nStarts + 1 # node
            BY <2>a, <3>a, <1>0, <1>t DEF OneOwner
        <3>2. \A u \in Threads :
                 /\ Starting(u) => at[u].start # nStarts + 1 /\ at[u].start <= nStarts + 1
                 /\ Stopping(u) /\ at[u].node # None =>
                      at[u].node # nStarts + 1 /\ at[u].node <= nStarts + 1
            BY <3>a, <3>b, <1>0 DEF OneOwner
        <3>3. (node # None => node <= nStarts + 1) /\ \A n \in open' : n <= nStarts + 1
            <4>1. nStarts + 1 <= nStarts + 1
                BY <1>t
            <4> QED BY <2>1, <3>a, <4>1, <1>0, <1>t DEF OneOwner
        <3> QED BY <2>1, <3>1, <3>2, <3>3, <1>0, <1>t DEF OneOwner, Starting, Stopping
    <2>3. RunningOwned'
        BY <2>1, <1>0 DEF RunningOwned, Stopping
    <2>4. ListenersOpen'
        BY <2>1, <1>0, <1>t DEF ListenersOpen, Starting, OneOwner
    <2> QED BY <2>2, <2>3, <2>4
<1>6. ASSUME NEW t \in Threads, NodeStarts(t) PROVE Goal
    <2>1. /\ at[t].pc = "node" /\ at'[t].pc = "commit" /\ at'[t].start = at[t].start
          /\ running' = running \cup {at[t].start} /\ Changes(t)
          /\ UNCHANGED <<node, open, serve, nStarts, hit>>
        BY <1>6, <1>t DEF NodeStarts, Goto
    <2>2. OneOwner'
        BY <2>1, <1>0 DEF OneOwner, Starting, Stopping
    <2>3. RunningOwned'
        BY <2>1, <1>0 DEF RunningOwned, Stopping
    <2>4. ListenersOpen'
        BY <2>1, <1>0 DEF ListenersOpen, Starting
    <2> QED BY <2>2, <2>3, <2>4
<1>7. ASSUME NEW t \in Threads, NodeFails(t) PROVE Goal
    <2>1. /\ at[t].pc = "node" /\ at'[t].pc = "idle" /\ open' = open \ {at[t].start} /\ Changes(t)
          /\ UNCHANGED <<node, running, serve, nStarts, hit>>
        BY <1>7, <1>t DEF NodeFails, Return, Idle
    <2>2. OneOwner'
        BY <2>1, <1>0 DEF OneOwner, Starting, Stopping
    <2>3. RunningOwned'
        BY <2>1, <1>0 DEF RunningOwned, Stopping
    <2>4. ListenersOpen'
        BY <2>1, <1>0 DEF ListenersOpen, OneOwner, Starting
    <2> QED BY <2>2, <2>3, <2>4
<1>8. ASSUME NEW t \in Threads, Commit(t) PROVE Goal
    <2>1. /\ at[t].pc = "commit" /\ at'[t].pc = "idle" /\ Changes(t)
          /\ UNCHANGED <<open, nStarts, hit>>
        BY <1>8, <1>t DEF Commit, Return, Idle
    <2>a. at[t].start \in Starts
        BY <2>1, <1>0, <1>t DEF OneOwner, Starting
    <2>2. CASE node # None
        <3>1. running' = running \ {at[t].start} /\ UNCHANGED <<node, serve>>
            BY <1>8, <2>2 DEF Commit
        <3>2. OneOwner'
            BY <2>1, <3>1, <1>0 DEF OneOwner, Starting, Stopping
        <3>3. RunningOwned'
            BY <2>1, <3>1, <1>0 DEF OneOwner, RunningOwned, Starting, Stopping
        <3>4. ListenersOpen'
            BY <2>1, <3>1, <1>0 DEF ListenersOpen, Starting
        <3> QED BY <3>2, <3>3, <3>4
    <2>3. CASE node = None
        <3>1. node' = at[t].start /\ running' = running /\ serve'[at[t].start] = "spawned"
            BY <1>8, <2>3, <2>a, <1>t DEF Commit
        <3>2. OneOwner'
            BY <2>1, <3>1, <1>0 DEF OneOwner, Starting, Stopping
        <3>3. RunningOwned'
            <4> SUFFICES ASSUME NEW n \in Starts
                         PROVE  n \in running' <=>
                                  \/ n = node'
                                  \/ \E u \in Threads : at'[u].pc = "commit" /\ at'[u].start = n
                                  \/ \E u \in Threads : Stopping(u)' /\ at'[u].node = n
                BY DEF RunningOwned
            <4>1. n \in running <=>
                    \/ \E u \in Threads : at[u].pc = "commit" /\ at[u].start = n
                    \/ \E u \in Threads : Stopping(u) /\ at[u].node = n
                BY <2>3, <1>0, <1>t DEF RunningOwned
            <4>2. (\E u \in Threads : Stopping(u)' /\ at'[u].node = n)
                  <=> \E u \in Threads : Stopping(u) /\ at[u].node = n
                BY <2>1 DEF Stopping
            <4>3. (n = node' \/ \E u \in Threads : at'[u].pc = "commit" /\ at'[u].start = n)
                  <=> \E u \in Threads : at[u].pc = "commit" /\ at[u].start = n
                BY <2>1, <3>1
            <4> QED BY <3>1, <4>1, <4>2, <4>3
        <3>4. ListenersOpen'
            BY <2>1, <3>1, <1>0 DEF ListenersOpen, Starting
        <3> QED BY <3>2, <3>3, <3>4
    <2> QED BY <2>2, <2>3
<1>9. ASSUME NEW t \in Threads, StopTake(t) PROVE Goal
    <2>1. /\ at[t].pc = "stop" /\ at'[t].pc = "close" /\ at'[t].node = node /\ node' = None
          /\ Changes(t) /\ UNCHANGED <<open, running, serve, nStarts, hit>>
        BY <1>9, <1>t DEF StopTake
    <2>2. OneOwner'
        BY <2>1, <1>0, <1>t DEF OneOwner, Starting, Stopping
    <2>3. RunningOwned'
        BY <2>1, <1>0, <1>t DEF RunningOwned, Stopping
    <2>4. ListenersOpen'
        BY <2>1, <1>0 DEF ListenersOpen, Starting
    <2> QED BY <2>2, <2>3, <2>4
<1>10. ASSUME NEW t \in Threads, StopClose(t) PROVE Goal
    <2>1. /\ at[t].pc = "close" /\ at'[t].pc = "halt" /\ at'[t].node = at[t].node
          /\ open' = open \ {at[t].listener}
          /\ hit \subseteq hit'
          /\ at[t].listener \in hit' \/ at[t].listener \in {None, at[t].node}
          /\ Changes(t) /\ UNCHANGED <<node, running, serve, nStarts>>
        BY <1>10, <1>t DEF StopClose
    <2>2. OneOwner'
        BY <2>1, <1>0 DEF OneOwner, Starting, Stopping
    <2>3. RunningOwned'
        BY <2>1, <1>0, <1>t DEF OneOwner, RunningOwned, Starting, Stopping
    <2>4. ListenersOpen'
        BY <2>1, <1>0, <1>t DEF OneOwner, ListenersOpen, Starting, Stopping
    <2> QED BY <2>2, <2>3, <2>4
<1>11. ASSUME NEW t \in Threads, StopNode(t) PROVE Goal
    <2>1. /\ at[t].pc = "halt" /\ at'[t].pc = "wait"
          /\ running' = running \ {at[t].node}
          /\ Changes(t) /\ UNCHANGED <<node, open, serve, nStarts, hit>>
        BY <1>11, <1>t DEF StopNode
    <2>2. OneOwner'
        BY <2>1, <1>0 DEF OneOwner, Starting, Stopping
    <2>3. RunningOwned'
        <3> SUFFICES ASSUME NEW n \in Starts
                     PROVE  n \in running' <=>
                              \/ n = node'
                              \/ \E u \in Threads : at'[u].pc = "commit" /\ at'[u].start = n
                              \/ \E u \in Threads : Stopping(u)' /\ at'[u].node = n
            BY DEF RunningOwned
        <3>1. n \in running <=>
                \/ n = node
                \/ \E u \in Threads : at[u].pc = "commit" /\ at[u].start = n
                \/ \E u \in Threads : Stopping(u) /\ at[u].node = n
            BY <1>0 DEF RunningOwned
        <3>2. ~Stopping(t)' /\ Stopping(t) /\ at'[t].pc # "commit" /\ at[t].pc # "commit"
            BY <2>1 DEF Stopping
        <3>3. \A u \in Threads \ {t} : at'[u] = at[u] /\ (Stopping(u)' <=> Stopping(u))
            BY <2>1 DEF Stopping
        <3>4. CASE n = at[t].node
            <4>1. n # None /\ n # node
                BY <3>2, <3>4, <1>0, NoneAssumption DEF OneOwner, Starts
            <4>2. \A u \in Threads \ {t} : ~(Stopping(u) /\ at[u].node = n)
                BY <3>2, <3>4, <4>1, <1>0 DEF OneOwner
            <4>3. \A u \in Threads : ~(at[u].pc = "commit" /\ at[u].start = n)
                BY <3>2, <3>4, <1>0 DEF OneOwner, Starting
            <4>4. n \notin running'
                BY <2>1, <3>4
            <4> QED BY <2>1, <3>2, <3>3, <4>1, <4>2, <4>3, <4>4
        <3>5. CASE n # at[t].node
            <4>1. n \in running' <=> n \in running
                BY <2>1, <3>5
            <4>2. (\E u \in Threads : Stopping(u)' /\ at'[u].node = n)
                  <=> \E u \in Threads : Stopping(u) /\ at[u].node = n
                BY <3>2, <3>3, <3>5
            <4>3. (\E u \in Threads : at'[u].pc = "commit" /\ at'[u].start = n)
                  <=> \E u \in Threads : at[u].pc = "commit" /\ at[u].start = n
                BY <3>2, <3>3
            <4> QED BY <2>1, <3>1, <4>1, <4>2, <4>3
        <3> QED BY <3>4, <3>5
    <2>4. ListenersOpen'
        BY <2>1, <1>0 DEF ListenersOpen, Starting
    <2> QED BY <2>2, <2>3, <2>4
<1> QED BY <1>2, <1>3, <1>4, <1>5, <1>6, <1>7, <1>8, <1>9, <1>10, <1>11 DEF RuntimeStep, Proceed

-----------------------------------------------------------------------------
(* The messenger.  PutMessage keeps the newest messages: at most one goes. *)
Newer(S, n) == {k \in S : Created[k] > Created[n]}
Latest(S) == {n \in S : Cardinality(Newer(S, n)) < HistoryCap}

(* A history keeps message m, or is full of newer ones.                    *)
KeptIn(S, m) == m \in S \/ (Cardinality(S) = HistoryCap /\ \A n \in S : Created[n] > Created[m])

History(S) == S \subseteq Messages /\ IsFiniteSet(S) /\ Cardinality(S) <= HistoryCap

(* Each user has another one.                                              *)
LEMMA PeerFacts == \A u \in Users : peer(u) \in Users /\ peer(u) # u
<1> SUFFICES ASSUME NEW u \in Users PROVE peer(u) \in Users /\ peer(u) # u
    OBVIOUS
<1>1. IsFiniteSet(Users \ {u}) /\ Cardinality(Users \ {u}) = 1
    BY UsersAssumption, FS_RemoveElement
<1>2. Users \ {u} # {}
    BY <1>1, FS_EmptySet
<1> QED BY <1>2 DEF peer

(* A set of messages has an oldest one.                                    *)
LEMMA Oldest ==
  ASSUME NEW S, S \subseteq Messages, S # {}
  PROVE  \E m \in S : \A n \in S \ {m} : Created[n] > Created[m]
<1> DEFINE T == {Created[m] : m \in S}
           R == OpToRel(<, Nat)
<1>1. T \subseteq Nat /\ T # {}
    BY CreatedAssumption
<1>2. IsWellFoundedOn(R, Nat)
    BY NatLessThanWellFounded
<1>3. \A x, y \in Nat : x < y => <<x, y>> \in R
    BY DEF OpToRel
<1> HIDE DEF R
<1>4. PICK x \in T : \A y \in T : ~(<<y, x>> \in R)
    BY <1>1, <1>2, WFMin
<1>5. PICK m \in S : Created[m] = x
    BY <1>4
<1>6. ASSUME NEW n \in S \ {m} PROVE Created[n] > Created[m]
    <2>1. Created[n] \in Nat /\ Created[m] \in Nat /\ Created[n] # Created[m]
        BY <1>6, <1>5, CreatedAssumption
    <2>2. ~(Created[n] < Created[m])
        BY <2>1, <1>3, <1>4, <1>5
    <2> QED BY <2>1, <2>2
<1> QED BY <1>6

(* Trimming a history that is one message over its cap drops exactly the oldest. *)
LEMMA LatestFacts ==
  ASSUME NEW S, S \subseteq Messages, IsFiniteSet(S), Cardinality(S) <= HistoryCap + 1
  PROVE  \/ Latest(S) = S /\ Cardinality(S) <= HistoryCap
         \/ /\ Cardinality(S) = HistoryCap + 1
            /\ \E o \in S : Latest(S) = S \ {o} /\ \A n \in S \ {o} : Created[n] > Created[o]
<1>0. /\ \A m \in Messages : Created[m] \in Nat
      /\ HistoryCap \in Nat \ {0} /\ Cardinality(S) \in Nat
    BY CreatedAssumption, BoundsAssumption, FS_CardinalityType
<1>1. ASSUME NEW n \in S
      PROVE  /\ IsFiniteSet(S \ {n}) /\ Cardinality(S \ {n}) = Cardinality(S) - 1
             /\ Newer(S, n) \subseteq S \ {n}
    BY <1>0, FS_RemoveElement DEF Newer
<1>2. CASE Cardinality(S) <= HistoryCap
    <2>1. ASSUME NEW n \in S PROVE Cardinality(Newer(S, n)) < HistoryCap
        <3>1. /\ Cardinality(Newer(S, n)) \in Nat
              /\ Cardinality(Newer(S, n)) <= Cardinality(S \ {n})
            BY <1>1, FS_Subset, FS_CardinalityType
        <3> QED BY <3>1, <1>0, <1>1, <1>2
    <2> QED BY <2>1, <1>2 DEF Latest
<1>3. CASE Cardinality(S) = HistoryCap + 1
    <2>1. S # {}
        BY <1>3, <1>0, FS_EmptySet
    <2>2. PICK o \in S : \A n \in S \ {o} : Created[n] > Created[o]
        BY <2>1, Oldest
    <2>3. o \notin Latest(S)
        <3>1. Newer(S, o) = S \ {o}
            BY <2>2, <1>1, <1>0 DEF Newer
        <3> QED BY <3>1, <1>0, <1>1, <1>3 DEF Latest
    <2>4. ASSUME NEW n \in S \ {o} PROVE n \in Latest(S)
        <3>1. Newer(S, n) \subseteq (S \ {n}) \ {o}
            BY <2>2, <1>0 DEF Newer
        <3>2. /\ IsFiniteSet((S \ {n}) \ {o})
              /\ Cardinality((S \ {n}) \ {o}) = Cardinality(S) - 2
            <4>1. /\ IsFiniteSet((S \ {n}) \ {o})
                  /\ Cardinality((S \ {n}) \ {o}) = Cardinality(S \ {n}) - 1
                BY <1>1, <2>4, FS_RemoveElement
            <4>2. Cardinality(S \ {n}) = Cardinality(S) - 1
                BY <1>1, <2>4
            <4> QED BY <4>1, <4>2, <1>0
        <3>3. /\ Cardinality(Newer(S, n)) \in Nat
              /\ Cardinality(Newer(S, n)) <= Cardinality((S \ {n}) \ {o})
            BY <3>1, <3>2, FS_Subset, FS_CardinalityType
        <3> QED BY <3>2, <3>3, <1>0, <1>3 DEF Latest
    <2>5. Latest(S) = S \ {o}
        BY <2>3, <2>4 DEF Latest
    <2> QED BY <1>3, <2>2, <2>5
<1> QED BY <1>0, <1>2, <1>3

(* PutMessage keeps what a history kept, and keeps its message or is full  *)
(* of newer ones.                                                          *)
LEMMA PutKeeps ==
  ASSUME NEW S, History(S), NEW k \in Messages
  PROVE  /\ History(Latest(S \cup {k})) /\ Latest(S \cup {k}) \subseteq S \cup {k}
         /\ \A m \in Messages : m = k \/ KeptIn(S, m) => KeptIn(Latest(S \cup {k}), m)
<1> DEFINE all == S \cup {k}
<1>0. /\ \A m \in Messages : Created[m] \in Nat
      /\ HistoryCap \in Nat \ {0} /\ Cardinality(S) \in Nat
      /\ IsFiniteSet(all) /\ Cardinality(all) \in Nat /\ all \subseteq Messages
      /\ Cardinality(all) = IF k \in S THEN Cardinality(S) ELSE Cardinality(S) + 1
    BY CreatedAssumption, BoundsAssumption, FS_CardinalityType, FS_AddElement DEF History
<1>1. Cardinality(S) <= HistoryCap
    BY DEF History
<1>2. Cardinality(all) <= HistoryCap + 1
    BY <1>0, <1>1
<1>3. CASE Latest(all) = all /\ Cardinality(all) <= HistoryCap
    <2>1. History(Latest(all)) /\ Latest(all) \subseteq all
        BY <1>0, <1>3 DEF History
    <2>2. ASSUME NEW m \in Messages, m = k \/ KeptIn(S, m) PROVE KeptIn(Latest(all), m)
        <3>1. CASE m \in all
            BY <1>3, <3>1 DEF KeptIn
        <3>2. CASE m \notin all
            <4>1. Cardinality(S) = HistoryCap /\ \A n \in S : Created[n] > Created[m]
                BY <2>2, <3>2 DEF KeptIn
            <4>2. k \in S
                BY <4>1, <1>0, <1>3
            <4>3. all = S
                BY <4>2
            <4> QED BY <4>1, <4>3, <1>3 DEF KeptIn
        <3> QED BY <3>1, <3>2
    <2> QED BY <2>1, <2>2
<1>4. ASSUME Cardinality(all) = HistoryCap + 1,
             NEW o \in all, Latest(all) = all \ {o}, \A n \in all \ {o} : Created[n] > Created[o]
      PROVE  /\ History(Latest(all)) /\ Latest(all) \subseteq all
             /\ \A m \in Messages : m = k \/ KeptIn(S, m) => KeptIn(Latest(all), m)
    <2>1. IsFiniteSet(all \ {o}) /\ Cardinality(all \ {o}) = HistoryCap
        <3>1. IsFiniteSet(all \ {o}) /\ Cardinality(all \ {o}) = Cardinality(all) - 1
            BY <1>0, FS_RemoveElement
        <3> QED BY <3>1, <1>0, <1>4
    <2>2. History(Latest(all)) /\ Latest(all) \subseteq all
        <3>1. HistoryCap <= HistoryCap
            BY <1>0
        <3> QED BY <2>1, <3>1, <1>0, <1>4 DEF History
    <2>3. ASSUME NEW m \in Messages, m = k \/ KeptIn(S, m) PROVE KeptIn(all \ {o}, m)
        <3>1. CASE m \in all
            BY <2>1, <1>4, <3>1 DEF KeptIn
        <3>2. CASE m \notin all
            <4>1. \A n \in S : Created[n] > Created[m]
                BY <2>3, <3>2 DEF KeptIn
            <4>2. ASSUME NEW n \in all \ {o} PROVE Created[n] > Created[m]
                <5>1. CASE n \in S
                    BY <4>1, <5>1
                <5>2. CASE n = k /\ k \notin S
                    <6>1. o \in S
                        BY <4>2, <5>2
                    <6>2. /\ Created[o] > Created[m] /\ Created[n] > Created[o]
                          /\ Created[o] \in Nat /\ Created[m] \in Nat /\ Created[n] \in Nat
                        BY <6>1, <4>1, <4>2, <1>4, <1>0
                    <6> QED BY <6>2
                <5> QED BY <5>1, <5>2
            <4> QED BY <2>1, <4>2 DEF KeptIn
        <3> QED BY <3>1, <3>2
    <2> QED BY <2>2, <2>3, <1>4
<1>5. \/ Latest(all) = all /\ Cardinality(all) <= HistoryCap
      \/ /\ Cardinality(all) = HistoryCap + 1
         /\ \E o \in all : Latest(all) = all \ {o} /\ \A n \in all \ {o} : Created[n] > Created[o]
    BY <1>0, <1>2, LatestFacts
<1> QED BY <1>3, <1>4, <1>5

(* What the store's operations make of a history.                          *)
LEMMA ContactFacts ==
  ASSUME NEW st \in StoreStates, NEW c \in {"unknown", "known", "named"}
  PROVE  PutContact(st, c) \in StoreStates /\ PutContact(st, c).msgs = st.msgs
    BY DEF PutContact, StoreStates

(* Storing a message yields a store whose history is the trimmed union. *)
LEMMA MessageFacts ==
  ASSUME NEW st \in StoreStates, NEW m \in Messages
  PROVE  PutMessage(st, m) \in StoreStates /\ PutMessage(st, m).msgs = Latest(st.msgs \cup {m})
<1>2. PutMessage(st, m) = [st EXCEPT !.msgs = Latest(st.msgs \cup {m})]
    BY DEF PutMessage, Latest, Newer
<1>3. Latest(st.msgs \cup {m}) \subseteq Messages
    BY DEF Latest, StoreStates
<1> QED BY <1>2, <1>3 DEF StoreStates

(* A message is accepted once the recipient has answered, or the sender    *)
(* has it in its own history; the recipient's histories, in memory and on  *)
(* disk, then keep it.                                                     *)
Accepted(m) ==
  call[m] \in {"ok", "done"} \/ m \in mem[From[m]].msgs \/ m \in file[From[m]].msgs

MessengerInv ==
  /\ MessengerTypeOK
  /\ \A u \in Users : History(mem[u].msgs) /\ History(file[u].msgs)
  /\ \A m \in Messages : Accepted(m) =>
       KeptIn(mem[peer(From[m])].msgs, m) /\ KeptIn(file[peer(From[m])].msgs, m)

(* A change of one user's store: to what was on disk or in memory, or with *)
(* one more message k, which was received here, or was sent from here and  *)
(* is accepted.  A message is newly accepted only if the recipient saved   *)
(* it.                                                                     *)
LEMMA StoreStep ==
  ASSUME MessengerInv, MessengerTypeOK', NEW u \in Users, NEW k \in Messages,
         \A v \in Users : v # u => mem'[v] = mem[v] /\ file'[v] = file[v],
         \/ mem'[u].msgs \in {mem[u].msgs, file[u].msgs}
         \/ /\ mem'[u].msgs = Latest(mem[u].msgs \cup {k})
            /\ From[k] # u \/ call[k] = "ok",
         file'[u].msgs \in {file[u].msgs, mem[u].msgs, mem'[u].msgs},
         \A m \in Messages : call'[m] \in {"ok", "done"} =>
            \/ call[m] \in {"ok", "done"}
            \/ /\ m = k /\ peer(From[k]) = u
               /\ mem'[u].msgs = Latest(mem[u].msgs \cup {k}) /\ file'[u].msgs = mem'[u].msgs
  PROVE  MessengerInv'
<1>0. /\ \A v \in Users : History(mem[v].msgs) /\ History(file[v].msgs)
      /\ \A m \in Messages : From[m] \in Users /\ peer(From[m]) \in Users /\ peer(From[m]) # From[m]
    BY PeerFacts, FromAssumption DEF MessengerInv
<1>1. /\ History(Latest(mem[u].msgs \cup {k}))
      /\ Latest(mem[u].msgs \cup {k}) \subseteq mem[u].msgs \cup {k}
      /\ \A m \in Messages : m = k \/ KeptIn(mem[u].msgs, m) =>
             KeptIn(Latest(mem[u].msgs \cup {k}), m)
    BY <1>0, PutKeeps
<1>2. \A v \in Users : History(mem'[v].msgs) /\ History(file'[v].msgs)
    BY <1>0, <1>1
<1>3. ASSUME NEW m \in Messages, Accepted(m)'
      PROVE  KeptIn(mem'[peer(From[m])].msgs, m) /\ KeptIn(file'[peer(From[m])].msgs, m)
    <2>1. \/ Accepted(m)
          \/ /\ m = k /\ peer(From[k]) = u
             /\ mem'[u].msgs = Latest(mem[u].msgs \cup {k}) /\ file'[u].msgs = mem'[u].msgs
        <3>1. CASE call'[m] \in {"ok", "done"}
            BY <3>1 DEF Accepted
        <3>2. CASE m \in mem'[From[m]].msgs \cup file'[From[m]].msgs
            <4>1. CASE From[m] # u
                BY <4>1, <3>2, <1>0 DEF Accepted
            <4>2. CASE From[m] = u
                <5>1. \/ m \in mem[u].msgs \cup file[u].msgs
                      \/ m = k /\ call[k] = "ok"
                    BY <4>2, <3>2, <1>1
                <5> QED BY <5>1, <4>2 DEF Accepted
            <4> QED BY <4>1, <4>2
        <3> QED BY <1>3, <3>1, <3>2 DEF Accepted
    <2>2. CASE Accepted(m)
        <3>1. KeptIn(mem[peer(From[m])].msgs, m) /\ KeptIn(file[peer(From[m])].msgs, m)
            BY <2>2 DEF MessengerInv
        <3>2. CASE peer(From[m]) # u
            BY <3>1, <3>2, <1>0
        <3>3. CASE peer(From[m]) = u
            BY <3>1, <3>3, <1>1
        <3> QED BY <3>2, <3>3
    <2>3. CASE /\ m = k /\ peer(From[k]) = u
               /\ mem'[u].msgs = Latest(mem[u].msgs \cup {k}) /\ file'[u].msgs = mem'[u].msgs
        BY <2>3, <1>1
    <2> QED BY <2>1, <2>2, <2>3
<1> QED BY <1>2, <1>3 DEF MessengerInv

(* Nothing is accepted in the beginning.                                   *)
LEMMA MessengerInitInv == MessengerInit => MessengerInv
<1> SUFFICES ASSUME MessengerInit PROVE MessengerInv
    OBVIOUS
<1>1. MessengerTypeOK
    BY BoundsAssumption DEF MessengerInit, MessengerTypeOK, StoreStates, EmptyState
<1>2. \A u \in Users : mem[u].msgs = {} /\ file[u].msgs = {}
    BY DEF MessengerInit, EmptyState
<1>3. History({})
    BY FS_EmptySet, BoundsAssumption DEF History
<1>4. \A m \in Messages : ~Accepted(m)
    BY <1>2, FromAssumption DEF Accepted, MessengerInit
<1> QED BY <1>1, <1>2, <1>3, <1>4 DEF MessengerInv

(* Each operation of the messenger keeps the types and the histories.      *)
LEMMA SaveType ==
  ASSUME MessengerTypeOK, NEW u \in Users, NEW st \in StoreStates,
         saveLocked(u, st) \/ saveFails(u, st)
  PROVE  /\ mem' \in [Users -> StoreStates] /\ file' \in [Users -> StoreStates]
         /\ nFaults' \in 0 .. MaxFaults
         /\ mem'[u] = st /\ file'[u] \in {file[u], st}
         /\ \A v \in Users : v # u => mem'[v] = mem[v] /\ file'[v] = file[v]
<1>1. nFaults' \in 0 .. MaxFaults
    BY BoundsAssumption DEF saveLocked, saveFails, Fault, MessengerTypeOK
<1> QED BY <1>1 DEF saveLocked, saveFails, MessengerTypeOK

(* Every step of a call between two messengers keeps the invariant. *)
LEMMA TalkStep == MessengerInv /\ Talk => MessengerInv'
<1> SUFFICES ASSUME MessengerInv, Talk PROVE MessengerInv'
    OBVIOUS
<1>0. MessengerTypeOK
    BY DEF MessengerInv
<1>t. /\ mem \in [Users -> StoreStates] /\ file \in [Users -> StoreStates]
      /\ call \in [Messages -> {"new", "request", "ok", "done", "failed"}]
      /\ \A m \in Messages : From[m] \in Users /\ peer(From[m]) \in Users /\ peer(From[m]) # From[m]
    BY <1>0, PeerFacts, FromAssumption DEF MessengerTypeOK
<1>n. Fault => nFaults' \in 0 .. MaxFaults
    BY <1>0, BoundsAssumption DEF Fault, MessengerTypeOK
<1>1. ASSUME NEW u \in Users, AddContact(u) PROVE MessengerInv'
    <2> DEFINE st == PutContact(mem[u], "named")
    <2>1. saveLocked(u, st) \/ saveFails(u, st)
        BY <1>1 DEF AddContact
    <2>2. call' = call
        BY <1>1 DEF AddContact
    <2>3. st \in StoreStates /\ st.msgs = mem[u].msgs
        BY <1>t, ContactFacts
    <2> HIDE DEF st
    <2>4. /\ mem' \in [Users -> StoreStates] /\ file' \in [Users -> StoreStates]
          /\ nFaults' \in 0 .. MaxFaults
          /\ mem'[u] = st /\ file'[u] \in {file[u], st}
          /\ \A v \in Users : v # u => mem'[v] = mem[v] /\ file'[v] = file[v]
        BY <2>1, <2>3, <1>0, SaveType
    <2>5. MessengerTypeOK'
        BY <2>2, <2>4, <1>t DEF MessengerTypeOK
    <2>6. /\ \A v \in Users : History(mem'[v].msgs) /\ History(file'[v].msgs)
          /\ \A v \in Users : mem'[v].msgs = mem[v].msgs
          /\ \A v \in Users : file'[v].msgs \in {file[v].msgs, mem[v].msgs}
        BY <2>3, <2>4 DEF MessengerInv
    <2>7. ASSUME NEW m \in Messages, Accepted(m)' PROVE Accepted(m)
        BY <2>2, <2>6, <2>7, <1>t DEF Accepted
    <2> QED BY <2>5, <2>6, <2>7, <1>t DEF MessengerInv
<1>2. ASSUME NEW m \in Messages, NEW c \in {"new", "request", "done", "failed"},
             SetCall(m, c), c = "done" => call[m] = "ok", UNCHANGED <<mem, file>>, nFaults' \in 0 .. MaxFaults
      PROVE  MessengerInv'
    <2>1. MessengerTypeOK'
        BY <1>2, <1>t DEF SetCall, MessengerTypeOK
    <2>2. \A k \in Messages : call'[k] \in {"ok", "done"} => call[k] \in {"ok", "done"}
        BY <1>2, <1>t DEF SetCall
    <2> QED BY <2>1, <2>2, <1>2, <1>t DEF MessengerInv, Accepted
<1>3. ASSUME NEW m \in Messages, SendMessage(m) PROVE MessengerInv'
    BY <1>3, <1>2, <1>0 DEF SendMessage, MessengerTypeOK
<1>4. ASSUME NEW m \in Messages, Broken(m), nFaults' \in 0 .. MaxFaults PROVE MessengerInv'
    BY <1>4, <1>2 DEF Broken
<1>5. ASSUME NEW m \in Messages, Sent(m) PROVE MessengerInv'
    <2> DEFINE u == From[m]
               st == PutMessage(mem[u], m)
    <2>1. /\ call[m] = "ok"
          /\ saveLocked(u, st) \/ saveFails(u, st)
          /\ SetCall(m, "done") \/ SetCall(m, "failed")
        BY <1>5 DEF Sent
    <2>2. st \in StoreStates /\ st.msgs = Latest(mem[u].msgs \cup {m}) /\ u \in Users
        BY <1>t, MessageFacts
    <2> HIDE DEF st, u
    <2>3. /\ mem' \in [Users -> StoreStates] /\ file' \in [Users -> StoreStates]
          /\ nFaults' \in 0 .. MaxFaults
          /\ mem'[u] = st /\ file'[u] \in {file[u], st}
          /\ \A v \in Users : v # u => mem'[v] = mem[v] /\ file'[v] = file[v]
        BY <2>1, <2>2, <1>0, SaveType
    <2>4. MessengerTypeOK'
        BY <2>1, <2>3, <1>t DEF MessengerTypeOK, SetCall
    <2>5. \A k \in Messages : call'[k] \in {"ok", "done"} => call[k] \in {"ok", "done"}
        BY <2>1, <1>t DEF SetCall
    <2> QED BY <2>1, <2>2, <2>3, <2>4, <2>5, StoreStep
<1>6. ASSUME NEW m \in Messages, handleSocial(m) PROVE MessengerInv'
    <2> DEFINE u == peer(From[m])
               c == PutContact(mem[u], "known")
               st == PutMessage(c, m)
    <2>1. \/ saveLocked(u, st) /\ SetCall(m, "ok")
          \/ /\ Fault /\ mem' = [mem EXCEPT ![u] = st]
             /\ file' \in {file, [file EXCEPT ![u] = c]}
             /\ SetCall(m, "failed")
        BY <1>6 DEF handleSocial
    <2>2. u \in Users /\ From[m] # u /\ c \in StoreStates /\ c.msgs = mem[u].msgs
        BY <1>t, ContactFacts
    <2>3. st \in StoreStates /\ st.msgs = Latest(mem[u].msgs \cup {m})
        BY <2>2, MessageFacts
    <2>u. u = peer(From[m])
        OBVIOUS
    <2> HIDE DEF st, u, c
    <2>4. CASE saveLocked(u, st) /\ SetCall(m, "ok")
        <3>1. /\ mem' \in [Users -> StoreStates] /\ file' \in [Users -> StoreStates]
              /\ nFaults' \in 0 .. MaxFaults
              /\ \A v \in Users : v # u => mem'[v] = mem[v] /\ file'[v] = file[v]
            BY <2>2, <2>3, <2>4, <1>0, SaveType
        <3>2. mem'[u] = st /\ file'[u] = st
            BY <2>2, <2>4, <1>t DEF saveLocked
        <3>3. MessengerTypeOK'
            BY <2>4, <3>1, <1>t DEF MessengerTypeOK, SetCall
        <3>4. \A k \in Messages : call'[k] \in {"ok", "done"} => call[k] \in {"ok", "done"} \/ k = m
            BY <2>4, <1>t DEF SetCall
        <3> QED BY <2>2, <2>3, <2>u, <3>1, <3>2, <3>3, <3>4, StoreStep
    <2>5. CASE /\ Fault /\ mem' = [mem EXCEPT ![u] = st]
               /\ file' \in {file, [file EXCEPT ![u] = c]}
               /\ SetCall(m, "failed")
        <3>1. /\ mem' \in [Users -> StoreStates] /\ file' \in [Users -> StoreStates]
              /\ \A v \in Users : v # u => mem'[v] = mem[v] /\ file'[v] = file[v]
              /\ mem'[u] = st /\ file'[u] \in {file[u], c}
            BY <2>2, <2>3, <2>5, <1>t
        <3>3. MessengerTypeOK'
            BY <2>5, <3>1, <1>t, <1>n DEF MessengerTypeOK, SetCall
        <3>4. \A k \in Messages : call'[k] \in {"ok", "done"} => call[k] \in {"ok", "done"}
            BY <2>5, <1>t DEF SetCall
        <3> QED BY <2>2, <2>3, <3>1, <3>3, <3>4, StoreStep
    <2> QED BY <2>1, <2>4, <2>5
<1>7. ASSUME NEW m \in Messages, node = None, Broken(m), UNCHANGED nFaults PROVE MessengerInv'
    BY <1>7, <1>4, <1>0 DEF MessengerTypeOK
<1> QED BY <1>1, <1>3, <1>4, <1>5, <1>6, <1>7, <1>n DEF Talk

(* A crash takes a user's store back to its file and fails its calls.      *)
LEMMA OpenStoreStep ==
  ASSUME MessengerInv, NEW u \in Users, OpenStore(u)
  PROVE  MessengerInv'
<1>0. /\ mem \in [Users -> StoreStates] /\ file \in [Users -> StoreStates]
      /\ call \in [Messages -> {"new", "request", "ok", "done", "failed"}]
      /\ nFaults \in 0 .. MaxFaults
    BY DEF MessengerInv, MessengerTypeOK
<1>1. /\ file' = file /\ mem' \in [Users -> StoreStates]
      /\ \A v \in Users : mem'[v] = IF v = u THEN file[v] ELSE mem[v]
    BY <1>0 DEF OpenStore
<1>2. /\ call' \in [Messages -> {"new", "request", "ok", "done", "failed"}]
      /\ \A m \in Messages : call'[m] \in {"ok", "done"} => call[m] \in {"ok", "done"}
    BY <1>0 DEF OpenStore
<1>3. nFaults' \in 0 .. MaxFaults
    BY <1>0, BoundsAssumption DEF OpenStore, Fault
<1>4. MessengerTypeOK'
    BY <1>0, <1>1, <1>2, <1>3 DEF MessengerTypeOK
<1>5. \A m \in Messages : From[m] \in Users /\ peer(From[m]) \in Users
    BY PeerFacts, FromAssumption
<1>6. \A m \in Messages : Accepted(m)' => Accepted(m)
    BY <1>1, <1>2, <1>5 DEF Accepted
<1> QED BY <1>1, <1>4, <1>5, <1>6 DEF MessengerInv

-----------------------------------------------------------------------------
IInv == RuntimeInv /\ MessengerInv

(* The invariant holds before the first call. *)
LEMMA InitIInv == Init => IInv
    BY NothingOwned, MessengerInitInv DEF Init, RuntimeInit, Unowned, IInv

(* Each step of the client keeps the invariant.                            *)
LEMMA IInvStep == IInv /\ [Next]_vars => IInv'
<1> SUFFICES ASSUME IInv, [Next]_vars PROVE IInv'
    OBVIOUS
<1>0. RuntimeInv /\ MessengerInv
    BY DEF IInv
<1>1. ASSUME UNCHANGED rtVars PROVE RuntimeInv'
    BY <1>0, <1>1 DEF rtVars, RuntimeInv, RuntimeType, OneOwner, RunningOwned, ListenersOpen,
       Starting, Stopping
<1>2. ASSUME UNCHANGED msgVars PROVE MessengerInv'
    BY <1>0, <1>2 DEF msgVars, MessengerInv, MessengerTypeOK, Accepted
<1>3. CASE RuntimeStep /\ UNCHANGED msgVars
    BY <1>0, <1>2, <1>3, RuntimeInvStep DEF IInv
<1>4. CASE Talk /\ UNCHANGED rtVars
    BY <1>0, <1>1, <1>4, TalkStep DEF IInv
<1>5. ASSUME NEW u \in Users, Crash(u) PROVE IInv'
    <2>1. MessengerInv'
        BY <1>0, <1>5, OpenStoreStep DEF Crash
    <2>2. RuntimeInv'
        <3>1. CASE u # Local
            BY <1>5, <3>1, <1>1 DEF Crash
        <3>2. CASE u = Local
            <4>1. Unowned'
                BY <1>5, <3>2 DEF Crash, Unowned, Starts, Idle
            <4>2. Unowned' => RuntimeInv'
                BY NothingOwned, PTL
            <4> QED BY <4>1, <4>2
        <3> QED BY <3>1, <3>2
    <2> QED BY <2>1, <2>2 DEF IInv
<1>6. CASE UNCHANGED vars
    BY <1>1, <1>2, <1>6 DEF vars, IInv
<1> QED BY <1>3, <1>4, <1>5, <1>6 DEF Next

(* The invariant of both parts holds in every behaviour of the client. *)
LEMMA InvariantHolds == Spec => []IInv
    BY InitIInv, IInvStep, PTL DEF Spec

(* However many goroutines call Start, Stop and Restart, and however the   *)
(* calls overlap, once they have returned at most the runtime's own node   *)
(* runs, and its messenger is reached unless a Stop closed its listener    *)
(* before it was committed (Runtime.Start, Stop and Restart).              *)
THEOREM OneNodeRuns == Spec => []OneNode
<1>1. IInv => OneNode
    <2> SUFFICES ASSUME IInv PROVE OneNode
        OBVIOUS
    <2>0. RuntimeType /\ OneOwner /\ RunningOwned /\ ListenersOpen /\ MessengerTypeOK
        BY DEF IInv, RuntimeInv, MessengerInv
    <2>1. TypeOK
        BY <2>0 DEF RuntimeType, TypeOK, Labels
    <2>2. ASSUME Quiet PROVE running = {node} \ {None}
        <3>1. \A n \in Starts : n \in running <=> n = node
            BY <2>0, <2>2 DEF RunningOwned, Quiet, Stopping
        <3> QED BY <3>1, <2>0, NoneAssumption DEF RuntimeType, Starts
    <2>3. ASSUME node # None, serve[node] # "spawned" PROVE Reached(Local) \/ node \in hit
        BY <2>0, <2>3 DEF ListenersOpen, Reached
    <2> QED BY <2>1, <2>2, <2>3 DEF OneNode
<1> QED BY <1>1, InvariantHolds, PTL

(* A message that its sender shows as sent is saved at the recipient, or   *)
(* the recipient's saved history is full of newer ones, whatever saves     *)
(* fail and whoever crashes (SendMessage and handleSocial of the messenger,*)
(* PutMessage of its store).                                               *)
THEOREM SentMessagesKept == Spec => []SentIsKept
<1>1. IInv => SentIsKept
    BY DEF IInv, MessengerInv, Accepted, KeptIn, SentIsKept
<1> QED BY <1>1, InvariantHolds, PTL
=============================================================================
