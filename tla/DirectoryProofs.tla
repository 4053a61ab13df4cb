---------------------------- MODULE DirectoryProofs ----------------------------
(***************************************************************************)
(* Proofs about Directory, for any introduction points, any replicas and   *)
(* any number of changes, restarts, failed saves and lookups.              *)
(***************************************************************************)
EXTENDS Directory, FiniteSetTheorems, WellFoundedInduction, TLAPS

-----------------------------------------------------------------------------
(* Types of what publication uses.                                         *)
PublishTypes ==
    /\ revision \in Nat
    /\ file \in Nat \cup {None}
    /\ publisher \in [pc : {"select", "read", "number", "send"},
                      points : SUBSET Points, revision : Nat]
    /\ intros \subseteq Points
    /\ issued \in Seq([revision : Nat, points : SUBSET Points])

(* The counter is never behind the file, nothing has gone out that the     *)
(* file does not cover, and a number that is about to go out is the file's *)
(* and above all that went out.                                            *)
FileCovers ==
    /\ Loaded <= revision
    /\ \A i \in 1..Len(issued) : issued[i].revision <= Loaded
    /\ publisher.pc = "send" =>
         /\ publisher.revision = Loaded
         /\ \A i \in 1..Len(issued) : issued[i].revision < Loaded

RevisionInv == PublishTypes /\ FileCovers /\ RevisionsIncrease

-----------------------------------------------------------------------------
(* At the start nothing has gone out.                                      *)
LEMMA InitRevisionInv == Init => RevisionInv
    BY DEF Init, RevisionInv, PublishTypes, FileCovers, RevisionsIncrease, Loaded, Starting

(* What is outside the publisher does not touch its state.                 *)
LEMMA PublisherAlone ==
    ASSUME [Next]_vars
    PROVE \/ Publish \/ Restart \/ timerFires \/ tick
          \/ UNCHANGED <<revision, file, publisher, issued, unsaved>>
             /\ (UNCHANGED intros \/ \E p \in Points : sessionChanges(p))
<1> USE DEF publishVars, wakeVars
<1>1. ASSUME NEW p \in Points, sessionChanges(p)
      PROVE UNCHANGED <<revision, file, publisher, issued, unsaved>>
    BY <1>1 DEF sessionChanges
<1>2. ASSUME NEW p \in Points, wakeDirectoryPublisher(p)
      PROVE UNCHANGED <<revision, file, publisher, issued, unsaved, intros>>
    BY <1>2 DEF wakeDirectoryPublisher
<1>3. CASE topologyChanges \/ takeWake \/ timerElapses
    BY <1>3 DEF topologyChanges, takeWake, timerElapses
<1>4. ASSUME NEW n \in Nodes, cleanDescriptors(n) \/ handleGet(n)
      PROVE UNCHANGED <<revision, file, publisher, issued, unsaved, intros>>
    BY <1>4 DEF cleanDescriptors, handleGet
<1>5. ASSUME NEW n, NEW d, handlePut(n, d) \/ receive(n, d)
      PROVE UNCHANGED <<revision, file, publisher, issued, unsaved, intros>>
    BY <1>5 DEF handlePut, receive
<1>6. CASE Expire \/ lookupCached \/ lookupAsks \/ lookupTimeout \/ openServiceDescriptor
    BY <1>6 DEF Expire, lookupCached, lookupAsks, lookupTimeout, openServiceDescriptor
<1>7. CASE UNCHANGED vars
    BY <1>7 DEF vars
<1> QED BY <1>1, <1>2, <1>3, <1>4, <1>5, <1>6, <1>7 DEF Next, Lookup

(* Facts about numbers that the step lemma uses.                           *)
LEMMA Numbers ==
    ASSUME PublishTypes
    PROVE /\ Loaded \in Nat
          /\ Len(issued) \in Nat
          /\ \A i \in 1..Len(issued) : issued[i].revision \in Nat
<1>1. Loaded \in Nat
    BY DEF Loaded, PublishTypes
<1> DEFINE D == [revision : Nat, points : SUBSET Points]
<1>2. issued \in Seq(D)
    BY DEF PublishTypes
<1>3. \A x \in D : x.revision \in Nat
    OBVIOUS
<1> HIDE DEF D
<1>4. Len(issued) \in Nat /\ \A i \in 1..Len(issued) : issued[i] \in D
    BY <1>2
<1> QED BY <1>1, <1>3, <1>4

(* A step that keeps the counter, the file and what went out, and is not   *)
(* about to send.                                                          *)
LEMMA Quiet ==
    ASSUME RevisionInv, UNCHANGED <<file, issued>>,
           revision' \in Nat, Loaded <= revision',
           publisher' \in [pc : {"select", "read", "number"},
                           points : SUBSET Points, revision : Nat],
           intros' \subseteq Points
    PROVE RevisionInv'
<1>1. PublishTypes'
    BY DEF RevisionInv, PublishTypes
<1>2. Loaded' = Loaded
    BY DEF Loaded
<1>3. publisher'.pc # "send"
    OBVIOUS
<1>4. FileCovers' /\ RevisionsIncrease'
    BY <1>2, <1>3 DEF RevisionInv, FileCovers, RevisionsIncrease
<1> QED BY <1>1, <1>4 DEF RevisionInv

(* Each action keeps the invariant.                                        *)
LEMMA RevisionStep == RevisionInv /\ [Next]_vars => RevisionInv'
<1> SUFFICES ASSUME RevisionInv, [Next]_vars PROVE RevisionInv'
    OBVIOUS
<1>0. PublishTypes /\ Loaded <= revision
    BY DEF RevisionInv, FileCovers
<1>1. CASE activeIntros
    BY <1>0, <1>1, Quiet DEF activeIntros, Idle, wakeVars, PublishTypes
<1>2. CASE nextDescriptorRevision
  <2>1. UNCHANGED <<issued, intros>>
      BY <1>2 DEF nextDescriptorRevision, wakeVars
  <2>2. CASE /\ revision' = revision + 1
             /\ file' = revision + 1
             /\ publisher' = [publisher EXCEPT !.pc = "send", !.revision = revision + 1]
    <3>0. /\ publisher \in [pc : {"select", "read", "number", "send"},
                             points : SUBSET Points, revision : Nat]
          /\ revision + 1 \in Nat
        BY <1>0 DEF PublishTypes
    <3>1. /\ publisher' \in [pc : {"select", "read", "number", "send"},
                              points : SUBSET Points, revision : Nat]
          /\ publisher'.revision = revision + 1
        BY <2>2, <3>0
    <3>2. PublishTypes'
        BY <1>0, <2>1, <2>2, <3>1 DEF PublishTypes
    <3>3. Loaded' = revision + 1 /\ revision \in Nat
        BY <1>0, <2>2, NoneAssumption DEF Loaded, PublishTypes
    <3>4. \A i \in 1..Len(issued) : issued[i].revision < revision + 1
        BY <1>0, <3>3, Numbers DEF RevisionInv, FileCovers
    <3>5. FileCovers'
      <4>1. \A i \in 1..Len(issued') : issued'[i].revision < revision + 1
          BY <2>1, <3>4
      <4>2. \A i \in 1..Len(issued') : issued'[i].revision <= revision + 1
          BY <2>1, <3>3, <3>4, <1>0, Numbers
      <4>3. Loaded' <= revision'
          BY <2>2, <3>3
      <4> QED BY <3>1, <3>3, <4>1, <4>2, <4>3 DEF FileCovers
    <3>6. RevisionsIncrease'
        BY <2>1 DEF RevisionInv, RevisionsIncrease
    <3> QED BY <3>2, <3>5, <3>6 DEF RevisionInv
  <2>3. CASE publisher' = Idle /\ UNCHANGED file /\ revision' \in {revision, revision + 1}
    <3>1. revision' \in Nat /\ Loaded <= revision'
        BY <1>0, <2>3, Numbers DEF PublishTypes
    <3> QED BY <1>0, <2>1, <2>3, <3>1, Quiet DEF Idle, PublishTypes
  <2> QED BY <1>2, <2>2, <2>3 DEF nextDescriptorRevision
<1>3. CASE sendDescriptor
  <2> DEFINE d == [revision |-> publisher.revision, points |-> publisher.points]
             D == [revision : Nat, points : SUBSET Points]
  <2>1. issued' = Append(issued, d)
      BY <1>3 DEF sendDescriptor
  <2>2. d \in D /\ d.revision = Loaded
      BY <1>0, <1>3 DEF sendDescriptor, RevisionInv, FileCovers, PublishTypes
  <2>3. issued \in Seq(D)
      BY <1>0 DEF PublishTypes
  <2> HIDE DEF d, D
  <2>4. /\ Len(issued') = Len(issued) + 1
        /\ \A i \in 1..Len(issued) : issued'[i] = issued[i]
        /\ issued'[Len(issued) + 1] = d
        /\ issued' \in Seq(D)
      BY <2>1, <2>2, <2>3
  <2>5. publisher' = Idle /\ UNCHANGED <<revision, file, intros>> /\ Loaded' = Loaded
      BY <1>3 DEF sendDescriptor, wakeVars, Loaded
  <2>6. \A i \in 1..Len(issued) : issued[i].revision < Loaded
      BY <1>3 DEF sendDescriptor, RevisionInv, FileCovers
  <2>7. PublishTypes'
      BY <1>0, <2>4, <2>5 DEF Idle, PublishTypes, D
  <2>8. \A i \in 1..Len(issued') : i \in 1..Len(issued) \/ i = Len(issued) + 1
      BY <1>0, <2>4, Numbers
  <2>9. FileCovers'
    <3>1. \A i \in 1..Len(issued') : issued'[i].revision <= Loaded
        BY <1>0, <2>2, <2>4, <2>6, <2>8, Numbers
    <3> QED BY <1>0, <2>5, <3>1 DEF FileCovers, Idle
  <2>10. RevisionsIncrease'
    <3> SUFFICES ASSUME NEW i \in 1..Len(issued'), NEW j \in 1..Len(issued'), i < j
                 PROVE issued'[i].revision < issued'[j].revision
        BY DEF RevisionsIncrease
    <3>1. i \in 1..Len(issued)
        BY <1>0, <2>4, Numbers
    <3>2. CASE j \in 1..Len(issued)
        BY <2>4, <3>1, <3>2 DEF RevisionInv, RevisionsIncrease
    <3>3. CASE j = Len(issued) + 1
        BY <2>2, <2>4, <2>6, <3>1, <3>3
    <3> QED BY <2>8, <3>2, <3>3
  <2> QED BY <2>7, <2>9, <2>10 DEF RevisionInv
<1>4. CASE Restart
  <2>1. revision' \in Nat /\ Loaded <= revision'
      BY <1>0, <1>4, Numbers DEF Restart
  <2> QED BY <1>4, <2>1, Quiet DEF Restart, Starting
<1>5. CASE timerFires \/ tick
    BY <1>0, <1>5, Quiet DEF timerFires, tick, Starting, wakeVars, PublishTypes
<1>6. ASSUME UNCHANGED <<revision, file, publisher, issued>>,
             UNCHANGED intros \/ \E p \in Points : sessionChanges(p)
      PROVE RevisionInv'
  <2>1. intros' \subseteq Points
      BY <1>0, <1>6 DEF sessionChanges, PublishTypes
  <2>2. Loaded' = Loaded
      BY <1>6 DEF Loaded
  <2> QED BY <1>0, <1>6, <2>1, <2>2
          DEF RevisionInv, PublishTypes, FileCovers, RevisionsIncrease
<1> QED BY <1>1, <1>2, <1>3, <1>4, <1>5, <1>6, PublisherAlone DEF Publish

(* Descriptors go out with ever higher revisions, across any number of     *)
(* restarts and failed saves of the revision file (nextDescriptorRevision, *)
(* loadDescriptorRevision).                                                *)
THEOREM RevisionsIncreaseHolds == Spec => []RevisionsIncrease
<1>1. RevisionInv => RevisionsIncrease
    BY DEF RevisionInv
<1> QED BY <1>1, InitRevisionInv, RevisionStep, PTL DEF Spec

-----------------------------------------------------------------------------
(* Something will make the loop publish.                                   *)
Signalled == wake \/ timer # "off" \/ waking # {}

(* Where the current introduction points are, when nothing is signalled:   *)
(* about to be read, in the descriptor being made, or in the last one.     *)
Current ==
    \/ publisher.pc = "read"
    \/ publisher.pc \in {"number", "send"} /\ publisher.points = intros
    \/ /\ publisher.pc = "select"
       /\ \/ intros = {}
          \/ unsaved
          \/ issued # << >> /\ issued[Len(issued)].points = intros

WakeInv == Signalled \/ Current

(* Each action keeps the invariant.                                        *)
LEMMA WakeStep == RevisionInv /\ WakeInv /\ [Next]_vars => WakeInv'
<1> SUFFICES ASSUME RevisionInv, WakeInv, [Next]_vars PROVE WakeInv'
    OBVIOUS
<1> USE DEF WakeInv, Signalled, Current, wakeVars, publishVars
<1>1. ASSUME NEW p \in Points, sessionChanges(p) \/ wakeDirectoryPublisher(p)
      PROVE WakeInv'
    BY <1>1 DEF sessionChanges, wakeDirectoryPublisher
<1>2. CASE topologyChanges \/ takeWake \/ timerElapses \/ timerFires \/ tick
    BY <1>2 DEF topologyChanges, takeWake, timerElapses, timerFires, tick, Starting
<1>3. CASE activeIntros
    BY <1>3 DEF activeIntros, Idle, RevisionInv, PublishTypes
<1>4. CASE nextDescriptorRevision
  <2>1. CASE Signalled
      BY <1>4, <2>1 DEF nextDescriptorRevision
  <2>2. CASE Current
    <3>1. publisher.points = intros /\ UNCHANGED intros
        BY <1>4, <2>2 DEF nextDescriptorRevision
    <3>2. CASE publisher' = [publisher EXCEPT !.pc = "send", !.revision = revision + 1]
        BY <3>1, <3>2 DEF RevisionInv, PublishTypes
    <3>3. CASE unsaved' = TRUE /\ publisher' = Idle
      <4>1. publisher'.pc = "select"
          BY <3>3 DEF Idle
      <4> QED BY <3>3, <4>1, Zenon
    <3> QED BY <1>4, <3>2, <3>3 DEF nextDescriptorRevision
  <2> QED BY <2>1, <2>2
<1>5. CASE sendDescriptor
  <2> DEFINE d == [revision |-> publisher.revision, points |-> publisher.points]
  <2>1. issued' = Append(issued, d) /\ publisher' = Idle /\ UNCHANGED wakeVars
      BY <1>5 DEF sendDescriptor
  <2>2. issued' # << >> /\ issued'[Len(issued')].points = publisher.points
      BY <2>1 DEF RevisionInv, PublishTypes
  <2> QED BY <1>5, <2>1, <2>2 DEF sendDescriptor, Idle
<1>6. CASE Restart
    BY <1>6 DEF Restart, Starting
<1>7. ASSUME UNCHANGED <<wakeVars, publisher, issued, unsaved>> PROVE WakeInv'
    BY <1>7
<1>8. ASSUME NEW n \in Nodes, cleanDescriptors(n) \/ handleGet(n) PROVE WakeInv'
    BY <1>8, <1>7 DEF cleanDescriptors, handleGet
<1>9. ASSUME NEW n, NEW d, handlePut(n, d) \/ receive(n, d) PROVE WakeInv'
    BY <1>9, <1>7 DEF handlePut, receive
<1>10. CASE Expire \/ lookupCached \/ lookupAsks \/ lookupTimeout \/ openServiceDescriptor
    BY <1>10, <1>7
       DEF Expire, lookupCached, lookupAsks, lookupTimeout, openServiceDescriptor
<1>11. CASE UNCHANGED vars
    BY <1>11, <1>7 DEF vars
<1> QED BY <1>1, <1>2, <1>3, <1>4, <1>5, <1>6, <1>8, <1>9, <1>10, <1>11
        DEF Next, Publish, Lookup

(* A change of the introduction points is never left unpublished by a      *)
(* dropped signal (wakeDirectoryPublisher, directoryLoop), whatever the    *)
(* order of changes, signals, timers and publications.                     *)
THEOREM NoLostWakeupHolds == Spec => []NoLostWakeup
<1>1. Init => WakeInv
    BY DEF Init, WakeInv, Current, Starting
<1>2. WakeInv => NoLostWakeup
    BY DEF WakeInv, Signalled, Current, NoLostWakeup
<1> QED BY <1>1, <1>2, WakeStep, InitRevisionInv, RevisionStep, PTL DEF Spec

-----------------------------------------------------------------------------
(* LookupNewest: types of the whole module, then where the newest answer   *)
(* is while a lookup goes on.                                              *)

(* What the types alone do not say: a descriptor that is made has points   *)
(* and a number, a call has at most two attempts, and numbers are within   *)
(* their bound.                                                            *)
Shapes ==
    /\ TypeOK
    /\ budget["revisions"] <= MaxRevision
    /\ publisher.pc \in {"number", "send"} => publisher.points # {}
    /\ publisher.pc = "send" => publisher.revision > 0
    /\ open.pc \in {"idle", "asking", "found"} => open.attempt <= 1

(* Each asked node is at one place: its request is on the way, its answer  *)
(* is, or it has been heard.  The client asks others only.                 *)
Requests ==
    /\ open.pc # "asking" => gets = {} /\ replies = {}
    /\ open.pc = "idle" => open.asked = {}
    /\ Client \notin open.asked
    /\ \A n \in gets : n \in open.asked /\ n \notin open.answered
    /\ \A r \in replies :
         /\ r[1] \in open.asked
         /\ r[1] \notin gets /\ r[1] \notin open.answered
         /\ \A q \in replies : q[1] = r[1] => q = r

(* Node m, which was asked, still holds, has answered with, or has been    *)
(* heard to have a descriptor no older than the floor of the lookup.       *)
Promised(m) ==
    \/ m \in gets /\ held[m] # None /\ held[m].revision >= open.floor
    \/ \E r \in replies : r[1] = m /\ r[2] # None /\ r[2].revision >= open.floor
    \/ m \in open.answered /\ open.best # None /\ open.best.revision >= open.floor

NewestComing ==
    (open.pc = "asking" /\ open.floor > expired) => \E m \in open.asked : Promised(m)

LookupInv == Shapes /\ Requests /\ NewestComing /\ LookupNewest

(* A bounded set of naturals that is not empty has a maximum.              *)
LEMMA HasMax ==
    ASSUME NEW N \in Nat, NEW S, S \subseteq 0..N, S # {}
    PROVE Max(S) \in S /\ \A y \in S : Max(S) >= y
<1> DEFINE T == {k \in Nat : \E x \in S : k = N - x}
<1>1. T \subseteq Nat /\ T # {}
  <2>1. PICK x \in S : TRUE
      OBVIOUS
  <2>2. N - x \in T
      BY <2>1
  <2> QED BY <2>2
<1>2. PICK t \in T : \A k \in T : ~(<<k, t>> \in OpToRel(<, Nat))
  <2> HIDE DEF T
  <2> QED BY <1>1, NatLessThanWellFounded, WFMin
<1>3. \A k \in T : ~(k < t)
    BY <1>1, <1>2 DEF OpToRel
<1>4. PICK x \in S : t = N - x
    OBVIOUS
<1>5. \A y \in S : x >= y
  <2> SUFFICES ASSUME NEW y \in S PROVE x >= y
      OBVIOUS
  <2>1. N - y \in T
      OBVIOUS
  <2>2. ~(N - y < t)
      BY <1>3, <2>1
  <2>3. x \in 0..N /\ y \in 0..N
      OBVIOUS
  <2> QED BY <1>4, <2>2, <2>3
<1> QED BY <1>5 DEF Max

(* The floor of a lookup is a revision that one of the asked nodes holds.  *)
LEMMA HighestHeld ==
    ASSUME TypeOK, NEW asked, asked \subseteq Nodes
    PROVE /\ Highest(asked) \in 0..MaxRevision
          /\ Highest(asked) > 0 =>
               \E m \in asked : held[m] # None /\ held[m].revision = Highest(asked)
<1> DEFINE M == {m \in asked : held[m] # None}
           S == {held[n].revision : n \in M}
<1>1. \A m \in M : held[m] \in Descriptor
    BY DEF TypeOK
<1>2. \A x \in Descriptor : x.revision \in 1..MaxRevision
    BY DEF Descriptor
<1>3. {0} \cup S \subseteq 0..MaxRevision /\ {0} \cup S # {}
    BY <1>1, <1>2, MaxRevisionAssumption
<1>4. Highest(asked) = Max({0} \cup S)
    BY DEF Highest
<1> HIDE DEF S
<1>5. Max({0} \cup S) \in {0} \cup S
    BY <1>3, HasMax, MaxRevisionAssumption
<1>6. Highest(asked) \in 0..MaxRevision
    BY <1>3, <1>4, <1>5
<1>7. Highest(asked) = 0 \/ \E m \in M : held[m].revision = Highest(asked)
    BY <1>4, <1>5 DEF S
<1> QED BY <1>6, <1>7

(* What storeDescriptor leaves in the table of a node is what was there or *)
(* something newer.                                                        *)
LEMMA StoredFacts ==
    ASSUME TypeOK, NEW n \in Nodes, NEW d \in Descriptor
    PROVE /\ Stored(n, d) \in [Nodes -> Descriptor \cup {None}]
          /\ \A m \in Nodes :
               \/ Stored(n, d)[m] = held[m]
               \/ /\ Stored(n, d)[m] = d
                  /\ held[m] # None => held[m].revision < d.revision
    BY DEF TypeOK, Stored

(* Each action keeps the types and what goes with them.                    *)
LEMMA ShapesStep == Shapes /\ Requests /\ [Next]_vars => Shapes'
<1> SUFFICES ASSUME Shapes, Requests, [Next]_vars PROVE Shapes'
    OBVIOUS
<1>0. TypeOK
    BY DEF Shapes
<1> USE DEF wakeVars, publishVars, lookupVars
<1> DEFINE Publishers == [pc : {"select", "read", "number", "send"},
                          points : SUBSET Points, revision : 0..MaxRevision]
           Calls == [pc : {"idle", "asking", "found", "open", "failed"}, attempt : 0..2,
                     asked : SUBSET Replicas, answered : SUBSET Replicas,
                     best : Descriptor \cup {None}, floor : 0..MaxRevision]
(* The publisher's side leaves the lookup's alone, and the other way       *)
(* round: two frames for the actions below.                                *)
<1>p. ASSUME intros' \subseteq Points, waking' \subseteq Points, wake' \in BOOLEAN,
             timer' \in {"off", "running", "ready"}, publisher' \in Publishers,
             revision' \in 0..MaxRevision, file' \in (1..MaxRevision) \cup {None},
             unsaved' \in BOOLEAN, issued' \in Seq(Descriptor),
             puts' \subseteq Nodes \X Descriptor,
             held' \in [Nodes -> Descriptor \cup {None}],
             budget' \in [Bounds -> Nat], budget'["revisions"] = budget["revisions"],
             publisher'.pc \in {"number", "send"} => publisher'.points # {},
             publisher'.pc = "send" => publisher'.revision > 0,
             UNCHANGED <<expired, open, gets, replies>>
      PROVE Shapes'
    BY <1>p DEF Shapes, TypeOK
<1>l. ASSUME UNCHANGED <<wakeVars, publishVars, puts>>,
             held' \in [Nodes -> Descriptor \cup {None}],
             expired' \in 0..MaxRevision, open' \in Calls,
             open'.pc \in {"idle", "asking", "found"} => open'.attempt <= 1,
             gets' \subseteq Nodes, replies' \subseteq Nodes \X (Descriptor \cup {None}),
             budget' \in [Bounds -> Nat], budget'["revisions"] = budget["revisions"]
      PROVE Shapes'
    BY <1>l DEF Shapes, TypeOK
<1>t. /\ publisher \in Publishers /\ open \in Calls
      /\ budget \in [Bounds -> Nat] /\ MaxRevision \in Nat
      /\ held \in [Nodes -> Descriptor \cup {None}]
      /\ expired \in 0..MaxRevision /\ revision \in 0..MaxRevision
    BY <1>0, MaxRevisionAssumption DEF TypeOK
<1>s. ASSUME NEW what \in Bounds \ {"revisions"}, Spend(what)
      PROVE budget' \in [Bounds -> Nat] /\ budget'["revisions"] = budget["revisions"]
    BY <1>s, <1>t DEF Spend, Bounds
<1>i. Idle \in Publishers /\ Starting \in Publishers
    BY <1>t DEF Idle, Starting
<1>c. Client \in Nodes /\ Server \in Nodes /\ Replicas \subseteq Nodes
    BY DEF Nodes
<1>1. ASSUME NEW p \in Points, sessionChanges(p) \/ wakeDirectoryPublisher(p) PROVE Shapes'
  <2>1. budget' \in [Bounds -> Nat] /\ budget'["revisions"] = budget["revisions"]
      BY <1>1, <1>s, <1>t DEF sessionChanges, wakeDirectoryPublisher, Bounds
  <2> QED BY <1>1, <2>1, <1>p DEF sessionChanges, wakeDirectoryPublisher, Shapes, TypeOK
<1>2. CASE topologyChanges \/ takeWake \/ timerElapses
    BY <1>2, <1>p DEF topologyChanges, takeWake, timerElapses, Shapes, TypeOK
<1>3. CASE timerFires \/ tick
  <2>1. publisher'.pc = "read"
      BY <1>3 DEF timerFires, tick, Starting
  <2> QED BY <1>3, <1>i, <2>1, <1>p DEF timerFires, tick, Shapes, TypeOK
<1>4. CASE activeIntros
  <2>1. publisher' \in Publishers /\ publisher'.pc # "send"
        /\ (publisher'.pc = "number" => publisher'.points # {})
      BY <1>4, <1>i, <1>t, <1>0 DEF activeIntros, Idle, TypeOK
  <2> QED BY <1>4, <2>1, <1>p DEF activeIntros, Shapes, TypeOK
<1>5. CASE nextDescriptorRevision
  <2>1. CASE /\ revision < budget["revisions"]
             /\ revision' = revision + 1 /\ file' = revision + 1 /\ unsaved' = FALSE
             /\ publisher' = [publisher EXCEPT !.pc = "send", !.revision = revision + 1]
             /\ UNCHANGED budget
    <3>1. budget["revisions"] \in Nat /\ budget["revisions"] <= MaxRevision
        BY <1>t DEF Bounds, Shapes
    <3>2. revision + 1 \in 1..MaxRevision /\ revision + 1 \in 0..MaxRevision
        BY <1>t, <2>1, <3>1
    <3>3. publisher' \in Publishers /\ publisher'.revision = revision + 1
          /\ publisher'.points = publisher.points
        BY <1>t, <2>1, <3>2
    <3>4. publisher.points # {}
        BY <1>5 DEF nextDescriptorRevision, Shapes
    <3>5. /\ UNCHANGED <<intros, waking, wake, timer, issued, puts, held>>
          /\ UNCHANGED <<expired, open, gets, replies>>
        BY <1>5 DEF nextDescriptorRevision
    <3>6. /\ intros' \subseteq Points /\ waking' \subseteq Points
          /\ timer' \in {"off", "running", "ready"} /\ issued' \in Seq(Descriptor)
          /\ puts' \subseteq Nodes \X Descriptor
          /\ held' \in [Nodes -> Descriptor \cup {None}]
        BY <1>0, <3>5 DEF TypeOK
    <3>7. wake' \in BOOLEAN /\ unsaved' \in BOOLEAN
        BY <1>0, <2>1, <3>5, Zenon DEF TypeOK
    <3>8. budget' \in [Bounds -> Nat] /\ budget'["revisions"] = budget["revisions"]
        BY <1>t, <2>1
    <3>9. /\ revision' \in 0..MaxRevision /\ file' \in (1..MaxRevision) \cup {None}
          /\ publisher'.points # {} /\ publisher'.revision > 0
        BY <1>t, <2>1, <3>2, <3>3, <3>4
    <3> QED BY <3>3, <3>5, <3>6, <3>7, <3>8, <3>9, <1>p
  <2>2. CASE /\ IF revision < budget["revisions"]
                THEN revision' = revision + 1 /\ Spend("failures")
                ELSE UNCHANGED <<revision, budget>>
             /\ unsaved' = TRUE /\ publisher' = Idle /\ UNCHANGED file
    <3>1. budget["revisions"] \in Nat /\ budget["revisions"] <= MaxRevision
        BY <1>t DEF Bounds, Shapes
    <3>2. revision' \in 0..MaxRevision
        BY <1>t, <2>2, <3>1
    <3>3. budget' \in [Bounds -> Nat] /\ budget'["revisions"] = budget["revisions"]
        BY <1>s, <1>t, <2>2 DEF Bounds
    <3>4. publisher'.pc = "select"
        BY <2>2 DEF Idle
    <3> QED BY <1>5, <2>2, <3>2, <3>3, <3>4, <1>i, <1>p DEF nextDescriptorRevision, Shapes, TypeOK
  <2> QED BY <1>5, <2>1, <2>2 DEF nextDescriptorRevision
<1>6. CASE sendDescriptor
  <2> DEFINE d == [revision |-> publisher.revision, points |-> publisher.points]
  <2>1. d \in Descriptor
    <3>1. publisher.revision \in 1..MaxRevision /\ publisher.points \in (SUBSET Points) \ {{}}
        BY <1>6, <1>t DEF sendDescriptor, Shapes
    <3> QED BY <3>1 DEF Descriptor
  <2>2. PICK reached \in SUBSET (Replicas \ {Server}) :
          /\ Cardinality(reached) <= budget["puts"]
          /\ puts' = puts \cup {<<n, d>> : n \in reached}
          /\ budget' = [budget EXCEPT !["puts"] = @ - Cardinality(reached)]
      BY <1>6 DEF sendDescriptor
  <2>3. /\ issued' = Append(issued, d) /\ held' = Stored(Server, d) /\ publisher' = Idle
        /\ UNCHANGED <<wakeVars, revision, file, unsaved, expired, lookupVars>>
      BY <1>6 DEF sendDescriptor
  <2> HIDE DEF d
  <2>4. Cardinality(reached) \in Nat
      BY ReplicasAssumption, FS_Subset, FS_CardinalityType
  <2>5. budget' \in [Bounds -> Nat] /\ budget'["revisions"] = budget["revisions"]
      BY <1>t, <2>2, <2>4 DEF Bounds
  <2>6. puts' \subseteq Nodes \X Descriptor
      BY <1>0, <1>c, <2>1, <2>2 DEF TypeOK
  <2>7. issued' \in Seq(Descriptor)
      BY <1>0, <2>1, <2>3 DEF TypeOK
  <2>8. held' \in [Nodes -> Descriptor \cup {None}]
      BY <1>0, <1>c, <2>1, <2>3, StoredFacts
  <2>9. publisher'.pc = "select"
      BY <2>3 DEF Idle
  <2> QED BY <2>3, <2>5, <2>6, <2>7, <2>8, <2>9, <1>i, <1>p DEF Shapes, TypeOK
<1>7. CASE Restart
  <2>1. budget' \in [Bounds -> Nat] /\ budget'["revisions"] = budget["revisions"]
      BY <1>7, <1>s DEF Restart, Bounds
  <2>2. revision' \in 0..MaxRevision
      BY <1>7, <1>0, <1>t, NoneAssumption DEF Restart, Loaded, TypeOK
  <2>3. publisher' \in Publishers /\ publisher'.pc = "read"
      BY <1>7, <1>i DEF Restart, Starting
  <2>4. held' \in [Nodes -> Descriptor \cup {None}]
      BY <1>7, <1>t DEF Restart
  <2>5. open' \in Calls /\ open'.pc = open.pc /\ open'.attempt = open.attempt
      BY <1>7, <1>t DEF Restart
  <2> QED BY <1>7, <2>1, <2>2, <2>3, <2>4, <2>5 DEF Restart, Shapes, TypeOK
<1>8. ASSUME NEW p \in puts, handlePut(p[1], p[2]) PROVE Shapes'
  <2>1. p[1] \in Nodes /\ p[2] \in Descriptor /\ puts' \subseteq Nodes \X Descriptor
      BY <1>0, <1>8 DEF TypeOK, handlePut
  <2>2. held' \in [Nodes -> Descriptor \cup {None}]
      BY <1>0, <1>8, <2>1, StoredFacts DEF handlePut
  <2> QED BY <1>8, <2>1, <2>2, <1>p DEF handlePut, Shapes, TypeOK
<1>9. ASSUME NEW n \in Nodes, cleanDescriptors(n) PROVE Shapes'
  <2>1. held' \in [Nodes -> Descriptor \cup {None}]
      BY <1>9, <1>t DEF cleanDescriptors
  <2> QED BY <1>9, <2>1, <1>p DEF cleanDescriptors, Shapes, TypeOK
<1>10. ASSUME NEW n \in Nodes, handleGet(n) PROVE Shapes'
  <2>1. gets' \subseteq Nodes /\ replies' \subseteq Nodes \X (Descriptor \cup {None})
      BY <1>0, <1>10, <1>t DEF handleGet, TypeOK
  <2> QED BY <1>10, <2>1, <1>l DEF handleGet, Shapes, TypeOK
<1>11. CASE Expire
  <2>1. issued[Len(issued)].revision \in 1..MaxRevision
    <3>1. issued[Len(issued)] \in Descriptor
        BY <1>0, <1>11 DEF Expire, TypeOK
    <3> QED BY <3>1 DEF Descriptor
  <2>2. expired' \in 0..MaxRevision
      BY <1>11, <1>t, <2>1 DEF Expire
  <2>3. budget' \in [Bounds -> Nat] /\ budget'["revisions"] = budget["revisions"]
      BY <1>11, <1>s DEF Expire, Bounds
  <2> QED BY <1>11, <2>2, <2>3, <1>l DEF Expire, Shapes, TypeOK
<1>r. ASSUME open.attempt <= 1
      PROVE Retried \in Calls /\ (Retried.pc \in {"idle", "asking", "found"} => Retried.attempt <= 1)
  <2>1. open.attempt \in {0, 1}
      BY <1>r, <1>t
  <2> QED BY <1>t, <2>1 DEF Retried, Call
<1>12. CASE lookupCached
  <2>1. budget' \in [Bounds -> Nat] /\ budget'["revisions"] = budget["revisions"]
      BY <1>12, <1>s DEF lookupCached, Bounds
  <2>2. open' \in Calls /\ open'.attempt = 0
      BY <1>12, <1>t, <1>c DEF lookupCached
  <2> QED BY <1>12, <2>1, <2>2, <1>l DEF lookupCached, Shapes, TypeOK
<1>13. CASE lookupAsks
  <2>1. budget' \in [Bounds -> Nat] /\ budget'["revisions"] = budget["revisions"]
      BY <1>13, <1>s, <1>t DEF lookupAsks, Bounds
  <2>2. PICK asked \in SUBSET (Replicas \ {Client}) :
          /\ gets' = asked
          /\ open' = IF asked = {} THEN Retried
                     ELSE [open EXCEPT !.pc = "asking", !.asked = asked, !.answered = {},
                                       !.best = None, !.floor = Highest(asked)]
      BY <1>13 DEF lookupAsks
  <2>3. open.attempt <= 1
      BY <1>13 DEF lookupAsks, Shapes
  <2>4. Highest(asked) \in 0..MaxRevision
      BY <1>0, <1>c, HighestHeld
  <2>5. open' \in Calls /\ (open'.pc \in {"idle", "asking", "found"} => open'.attempt <= 1)
      BY <1>r, <1>t, <2>2, <2>3, <2>4
  <2> QED BY <1>13, <1>c, <2>1, <2>2, <2>5, <1>l DEF lookupAsks, Shapes, TypeOK
<1>14. ASSUME open.pc = "asking", NEW answered \in SUBSET Replicas,
              NEW best \in Descriptor \cup {None}, Returning(answered, best),
              UNCHANGED <<wakeVars, publishVars, puts, expired, budget>>
       PROVE Shapes'
  <2>1. open.attempt <= 1
      BY <1>14 DEF Shapes
  <2>2. open' \in Calls /\ (open'.pc \in {"idle", "asking", "found"} => open'.attempt <= 1)
      BY <1>14, <1>r, <1>t, <2>1 DEF Returning
  <2>3. held' \in [Nodes -> Descriptor \cup {None}]
      BY <1>0, <1>14, <1>c, <1>t, StoredFacts DEF Returning
  <2> QED BY <1>14, <1>t, <2>2, <2>3, <1>l DEF Returning
<1>15. CASE lookupTimeout
  <2>1. open.answered \in SUBSET Replicas /\ open.best \in Descriptor \cup {None}
      BY <1>t
  <2>2. PICK best \in {open.best, None} : Returning(open.answered, best)
      BY <1>15 DEF lookupTimeout
  <2> QED BY <1>14, <1>15, <2>1, <2>2 DEF lookupTimeout
<1>16. ASSUME NEW r \in replies, receive(r[1], r[2]) PROVE Shapes'
  <2>0. r[1] \in Replicas
      BY <1>t DEF Requests
  <2>1. r[2] \in Descriptor \cup {None} /\ open.answered \cup {r[1]} \in SUBSET Replicas
      BY <1>0, <1>t, <2>0 DEF TypeOK
  <2>2. Better(r[2]) \in Descriptor \cup {None}
      BY <1>t, <2>1 DEF Better
  <2>3. CASE Returning(open.answered \cup {r[1]}, Better(r[2]))
      BY <1>14, <1>16, <2>1, <2>2, <2>3 DEF receive
  <2>4. CASE /\ open' = [open EXCEPT !.answered = open.answered \cup {r[1]}, !.best = Better(r[2])]
             /\ replies' = replies \ {<<r[1], r[2]>>}
             /\ UNCHANGED <<held, gets>>
    <3>1. open' \in Calls /\ open'.pc = open.pc /\ open'.attempt = open.attempt
        BY <1>t, <2>1, <2>2, <2>4
    <3> QED BY <1>16, <2>4, <3>1, <1>l DEF receive, Shapes, TypeOK
  <2> QED BY <1>16, <2>3, <2>4 DEF receive
<1>17. CASE openServiceDescriptor
  <2>1. open.attempt <= 1
      BY <1>17 DEF openServiceDescriptor, Shapes
  <2>2. Call("open", open.attempt) \in Calls /\ Call("open", open.attempt).pc = "open"
      BY <1>t DEF Call
  <2>3. open' \in Calls /\ (open'.pc \in {"idle", "asking", "found"} => open'.attempt <= 1)
      BY <1>17, <1>r, <2>1, <2>2 DEF openServiceDescriptor
  <2>4. held' \in [Nodes -> Descriptor \cup {None}]
      BY <1>17, <1>t DEF openServiceDescriptor
  <2> QED BY <1>17, <2>3, <2>4, <1>l DEF openServiceDescriptor, Shapes, TypeOK
<1>18. CASE UNCHANGED vars
    BY <1>18 DEF vars, Shapes, TypeOK
<1> QED BY <1>1, <1>2, <1>3, <1>4, <1>5, <1>6, <1>7, <1>8, <1>9, <1>10, <1>11, <1>12,
           <1>13, <1>15, <1>16, <1>17, <1>18 DEF Next, Publish, Lookup

(* The end of a lookup: everything about the pending request is gone.      *)
LEMMA LookupEnds ==
    ASSUME LookupInv, open.pc = "asking", NEW answered, NEW best, Returning(answered, best)
    PROVE /\ Requests' /\ NewestComing'
          /\ \/ open'.pc \in {"idle", "failed"}
             \/ /\ open'.pc = "found" /\ open'.asked = open.asked /\ best # None
                /\ open'.answered = answered /\ open'.best = best /\ open'.floor = open.floor
<1>0. open \in [pc : {"idle", "asking", "found", "open", "failed"}, attempt : 0..2,
                asked : SUBSET Replicas, answered : SUBSET Replicas,
                best : Descriptor \cup {None}, floor : 0..MaxRevision]
    BY DEF LookupInv, Shapes, TypeOK
<1>1. gets' = {} /\ replies' = {}
    BY DEF Returning
<1>2. CASE best = None
  <2>1. open'.pc \in {"idle", "failed"} /\ open'.asked = {}
      BY <1>2 DEF Returning, Retried, Call
  <2> QED BY <1>1, <2>1 DEF Requests, NewestComing
<1>3. CASE best # None
  <2>1. /\ open'.pc = "found" /\ open'.asked = open.asked /\ open'.floor = open.floor
        /\ open'.answered = answered /\ open'.best = best
      BY <1>0, <1>3 DEF Returning
  <2>2. Client \notin open.asked
      BY DEF LookupInv, Requests
  <2> QED BY <1>1, <1>3, <2>1, <2>2 DEF Requests, NewestComing
<1> QED BY <1>2, <1>3

(* While the call, its request and its answers stay, a step of the others  *)
(* at most expires or replaces descriptors.                                *)
LEMMA OthersStep ==
    ASSUME LookupInv, Shapes', UNCHANGED <<open, gets, replies>>, expired <= expired',
           \A m \in open.asked :
             held[m] # None /\ held[m].revision > expired' =>
               held'[m] # None /\ held'[m].revision >= held[m].revision
    PROVE LookupInv'
<1> SUFFICES Requests' /\ NewestComing' /\ LookupNewest'
    BY DEF LookupInv
<1>0. /\ TypeOK' /\ expired \in Nat /\ expired' \in Nat /\ open.floor \in Nat
      /\ held \in [Nodes -> Descriptor \cup {None}]
      /\ open.asked \subseteq Nodes
    BY MaxRevisionAssumption, SMTT(30) DEF LookupInv, Shapes, TypeOK, Nodes
<1>d. \A x \in Descriptor : x.revision \in Nat
    BY DEF Descriptor
<1>1. Requests'
    BY DEF LookupInv, Requests
<1>2. LookupNewest'
    BY <1>0 DEF LookupInv, LookupNewest
<1>3. NewestComing'
  <2> SUFFICES ASSUME open.pc = "asking", open.floor > expired'
               PROVE \E m \in open.asked : Promised(m)'
      BY DEF NewestComing
  <2>1. open.floor > expired
      BY <1>0
  <2>2. PICK m \in open.asked : Promised(m)
      BY <2>1 DEF LookupInv, NewestComing
  <2>3. CASE m \in gets /\ held[m] # None /\ held[m].revision >= open.floor
    <3>1. held[m] \in Descriptor /\ held[m].revision > expired'
        BY <1>0, <1>d, <2>3
    <3>2. held'[m] # None /\ held'[m].revision >= held[m].revision
        BY <2>3, <3>1
    <3>3. held'[m] \in Descriptor
        BY <1>0, <3>2 DEF TypeOK
    <3>4. held'[m].revision >= open.floor
        BY <1>0, <1>d, <2>3, <3>1, <3>2, <3>3
    <3> QED BY <2>3, <3>2, <3>4 DEF Promised
  <2>4. CASE \/ \E r \in replies : r[1] = m /\ r[2] # None /\ r[2].revision >= open.floor
             \/ m \in open.answered /\ open.best # None /\ open.best.revision >= open.floor
      BY <2>4 DEF Promised
  <2> QED BY <2>2, <2>3, <2>4 DEF Promised
<1> QED BY <1>1, <1>2, <1>3

(* A reader at an asked node answers with what the node holds.             *)
LEMMA GetStep ==
    ASSUME LookupInv, Shapes', NEW n \in Nodes, handleGet(n)
    PROVE LookupInv'
<1>0. /\ gets' = gets \ {n} /\ replies' = replies \cup {<<n, held[n]>>} /\ n \in gets
      /\ UNCHANGED <<held, expired, open>>
    BY DEF handleGet
<1>1. open.pc = "asking" /\ n \in open.asked /\ n \notin open.answered
    BY <1>0 DEF LookupInv, Requests
<1>2. Requests'
  <2>1. \A r \in replies : r[1] # n
      BY <1>0 DEF LookupInv, Requests
  <2>2. \A r \in replies' : r \in replies \/ r = <<n, held[n]>>
      BY <1>0
  <2> QED BY <1>0, <1>1, <2>1, <2>2 DEF LookupInv, Requests
<1>3. ASSUME NEW m \in open.asked, Promised(m) PROVE Promised(m)'
  <2>1. CASE m = n
    <3>1. \A r \in replies : r[1] # n
        BY <1>0 DEF LookupInv, Requests
    <3>2. held[n] # None /\ held[n].revision >= open.floor
        BY <1>1, <1>3, <2>1, <3>1 DEF Promised
    <3>3. <<n, held[n]>> \in replies'
        BY <1>0
    <3> QED BY <1>0, <2>1, <3>2, <3>3 DEF Promised
  <2>2. CASE m # n
      BY <1>0, <1>3, <2>2 DEF Promised
  <2> QED BY <2>1, <2>2
<1>4. NewestComing'
    BY <1>0, <1>3 DEF LookupInv, NewestComing
<1>5. LookupNewest'
    BY <1>0 DEF LookupInv, LookupNewest, Shapes
<1> QED BY <1>2, <1>4, <1>5 DEF LookupInv

(* What an answer leaves as the best is no older than either.              *)
LEMMA BetterFacts ==
    ASSUME TypeOK, NEW d \in Descriptor \cup {None}, NEW f \in Nat, f > expired
    PROVE /\ (d # None /\ d.revision >= f) =>
               Better(d) # None /\ Better(d).revision >= f
          /\ (open.best # None /\ open.best.revision >= f) =>
               Better(d) # None /\ Better(d).revision >= f
<1>1. /\ open.best \in Descriptor \cup {None} /\ expired \in Nat
      /\ \A x \in Descriptor : x.revision \in Nat
    BY MaxRevisionAssumption DEF TypeOK, Descriptor
<1> QED BY <1>1 DEF Better

(* An answer arrives.                                                      *)
LEMMA ReceiveStep ==
    ASSUME LookupInv, Shapes', NEW r \in replies, receive(r[1], r[2])
    PROVE LookupInv'
<1> DEFINE answered == open.answered \cup {r[1]}
           best == Better(r[2])
<1>0. /\ open \in [pc : {"idle", "asking", "found", "open", "failed"}, attempt : 0..2,
                asked : SUBSET Replicas, answered : SUBSET Replicas,
                best : Descriptor \cup {None}, floor : 0..MaxRevision]
      /\ expired \in Nat /\ open.floor \in Nat
      /\ r[2] \in Descriptor \cup {None} /\ r = <<r[1], r[2]>>
      /\ TypeOK
    <2>1. TypeOK
        BY DEF LookupInv, Shapes
    <2>2. /\ open \in [pc : {"idle", "asking", "found", "open", "failed"}, attempt : 0..2,
                    asked : SUBSET Replicas, answered : SUBSET Replicas,
                    best : Descriptor \cup {None}, floor : 0..MaxRevision]
          /\ expired \in 0..MaxRevision
          /\ replies \subseteq Nodes \X (Descriptor \cup {None})
        BY <2>1 DEF TypeOK
    <2>3. expired \in Nat /\ open.floor \in Nat
        BY <2>2, MaxRevisionAssumption
    <2>4. r[2] \in Descriptor \cup {None} /\ r = <<r[1], r[2]>>
        BY <2>2
    <2> QED BY <2>1, <2>2, <2>3, <2>4
<1>1. open.pc = "asking" /\ UNCHANGED expired
    BY DEF receive
(* The promise of a node is kept, or is the best so far.                   *)
<1>2. ASSUME open.floor > expired, NEW m \in open.asked, Promised(m)
      PROVE \/ m \in gets /\ held[m] # None /\ held[m].revision >= open.floor
            \/ \E q \in replies \ {r} :
                 q[1] = m /\ q[2] # None /\ q[2].revision >= open.floor
            \/ m \in answered /\ best # None /\ best.revision >= open.floor
    BY <1>0, <1>2, BetterFacts DEF Promised
<1>3. CASE answered = open.asked /\ Returning(answered, best)
  <2>1. Requests' /\ NewestComing'
      BY <1>1, <1>3, LookupEnds
  <2>2. ASSUME open'.pc = "found", open'.floor > expired PROVE open'.best.revision >= open'.floor
    <3>1. open'.best = best /\ open'.floor = open.floor
        BY <1>1, <1>3, <2>2, LookupEnds
    <3>2. PICK m \in open.asked : Promised(m)
        BY <1>1, <2>2, <3>1 DEF LookupInv, NewestComing
    <3>3. m \notin gets
        BY <1>3 DEF LookupInv, Requests
    <3>4. \A q \in replies \ {r} : q[1] # m
        BY <1>3 DEF LookupInv, Requests
    <3>5. best.revision >= open.floor
        BY <1>2, <2>2, <3>1, <3>2, <3>3, <3>4
    <3> QED BY <3>1, <3>5
  <2>3. LookupNewest'
      BY <1>1, <2>2 DEF LookupNewest, Shapes
  <2> QED BY <2>1, <2>3 DEF LookupInv
<1>4. CASE /\ open' = [open EXCEPT !.answered = answered, !.best = best]
           /\ replies' = replies \ {r} /\ UNCHANGED <<held, gets>>
  <2>1. /\ open'.pc = "asking" /\ open'.asked = open.asked /\ open'.floor = open.floor
        /\ open'.answered = answered /\ open'.best = best
      BY <1>0, <1>1, <1>4
  <2>2. Requests'
      BY <1>4, <2>1 DEF LookupInv, Requests
  <2>3. NewestComing'
    <3> SUFFICES ASSUME open.floor > expired PROVE \E m \in open.asked : Promised(m)'
        BY <1>1, <2>1 DEF NewestComing
    <3>1. PICK m \in open.asked : Promised(m)
        BY <1>1 DEF LookupInv, NewestComing
    <3> QED BY <1>2, <1>4, <2>1, <3>1 DEF Promised
  <2>4. LookupNewest'
      BY <2>1 DEF LookupNewest, Shapes
  <2> QED BY <2>2, <2>3, <2>4 DEF LookupInv
<1> QED BY <1>0, <1>3, <1>4 DEF receive

(* Each action keeps the invariant of a lookup.                            *)
LEMMA LookupStep == LookupInv /\ [Next]_vars => LookupInv'
<1> SUFFICES ASSUME LookupInv, [Next]_vars PROVE LookupInv'
    OBVIOUS
<1> USE DEF wakeVars, publishVars, lookupVars
<1>s. Shapes' /\ TypeOK'
    BY ShapesStep DEF LookupInv, Shapes
<1>t. /\ TypeOK /\ open.asked \subseteq Nodes /\ Client \notin open.asked
      /\ held \in [Nodes -> Descriptor \cup {None}] /\ expired \in Nat
      /\ \A x \in Descriptor : x.revision \in Nat
      /\ Client \in Nodes /\ Server \in Nodes
    BY MaxRevisionAssumption DEF LookupInv, Shapes, TypeOK, Requests, Nodes, Descriptor
<1>o. open \in [pc : {"idle", "asking", "found", "open", "failed"}, attempt : 0..2,
                asked : SUBSET Replicas, answered : SUBSET Replicas,
                best : Descriptor \cup {None}, floor : 0..MaxRevision]
    BY <1>t DEF TypeOK
<1>1. ASSUME UNCHANGED <<open, gets, replies, expired, held>> PROVE LookupInv'
  <2>1. \A m \in open.asked :
          held[m] # None => held'[m] # None /\ held'[m].revision >= held[m].revision
      BY <1>t, <1>1
  <2>2. expired <= expired'
      BY <1>t, <1>1
  <2> QED BY <1>1, <1>s, <2>1, <2>2, OthersStep
<1>2. ASSUME NEW n \in Nodes, NEW d \in Descriptor, held' = Stored(n, d),
             UNCHANGED <<open, gets, replies, expired>>
      PROVE LookupInv'
  <2>1. \A m \in open.asked :
          held[m] # None => held'[m] # None /\ held'[m].revision >= held[m].revision
      BY <1>t, <1>2, StoredFacts, NoneAssumption
  <2>2. expired <= expired'
      BY <1>t, <1>2
  <2> QED BY <1>2, <1>s, <2>1, <2>2, OthersStep
<1>3. ASSUME NEW p \in Points, sessionChanges(p) \/ wakeDirectoryPublisher(p) PROVE LookupInv'
    BY <1>1, <1>3 DEF sessionChanges, wakeDirectoryPublisher
<1>4. CASE topologyChanges \/ takeWake \/ timerElapses \/ timerFires \/ tick
    BY <1>1, <1>4 DEF topologyChanges, takeWake, timerElapses, timerFires, tick
<1>5. CASE activeIntros \/ nextDescriptorRevision
    BY <1>1, <1>5 DEF activeIntros, nextDescriptorRevision
<1>6. CASE sendDescriptor
  <2> DEFINE d == [revision |-> publisher.revision, points |-> publisher.points]
  <2>1. d \in Descriptor
    <3>1. publisher.revision \in 1..MaxRevision /\ publisher.points \in (SUBSET Points) \ {{}}
        BY <1>6, <1>t, MaxRevisionAssumption DEF sendDescriptor, LookupInv, Shapes, TypeOK
    <3> QED BY <3>1 DEF Descriptor
  <2>2. held' = Stored(Server, d) /\ UNCHANGED <<open, gets, replies, expired>>
      BY <1>6 DEF sendDescriptor
  <2> HIDE DEF d
  <2> QED BY <1>2, <1>t, <2>1, <2>2
<1>7. CASE Restart
  <2>1. /\ open'.pc = open.pc /\ open'.asked = open.asked /\ open'.answered = open.answered
        /\ open'.floor = 0 /\ UNCHANGED <<gets, replies, expired>>
      BY <1>7, <1>o DEF Restart
  <2>2. ~(open'.floor > expired')
      BY <1>t, <2>1
  <2>3. Requests'
      BY <2>1 DEF LookupInv, Requests
  <2> QED BY <1>s, <2>2, <2>3 DEF LookupInv, NewestComing, LookupNewest
<1>8. ASSUME NEW p \in puts, handlePut(p[1], p[2]) PROVE LookupInv'
  <2>1. p[1] \in Nodes /\ p[2] \in Descriptor
      BY <1>t DEF TypeOK
  <2> QED BY <1>2, <1>8, <2>1 DEF handlePut
<1>9. ASSUME NEW n \in Nodes, cleanDescriptors(n) PROVE LookupInv'
  <2>1. /\ held[n] # None /\ held[n].revision <= expired
        /\ \A m \in Nodes : held'[m] = IF m = n THEN None ELSE held[m]
        /\ UNCHANGED <<open, gets, replies, expired>>
      BY <1>9, <1>t DEF cleanDescriptors
  <2>2. expired <= expired'
      BY <1>t, <2>1
  <2>3. \A m \in open.asked :
          held[m] # None /\ held[m].revision > expired' =>
            held'[m] # None /\ held'[m].revision >= held[m].revision
      BY <1>t, <2>1
  <2> QED BY <1>s, <2>1, <2>2, <2>3, OthersStep
<1>10. ASSUME NEW n \in Nodes, handleGet(n) PROVE LookupInv'
    BY <1>10, <1>s, GetStep
<1>11. CASE Expire
  <2>1. UNCHANGED <<open, gets, replies, held>>
      BY <1>11 DEF Expire
  <2>2. expired <= expired'
      BY <1>11, <1>t DEF Expire
  <2>3. \A m \in open.asked :
          held[m] # None => held'[m] # None /\ held'[m].revision >= held[m].revision
      BY <1>t, <2>1
  <2> QED BY <1>s, <2>1, <2>2, <2>3, OthersStep
<1>12. CASE lookupCached
  <2>1. open.asked = {} /\ gets = {} /\ replies = {}
      BY <1>12 DEF lookupCached, LookupInv, Requests
  <2>2. open'.pc = "found" /\ open'.asked = {} /\ gets' = {} /\ replies' = {}
      BY <1>12, <1>o, <2>1 DEF lookupCached
  <2>3. Requests'
      BY <2>2 DEF Requests
  <2> QED BY <1>s, <2>2, <2>3 DEF LookupInv, NewestComing, LookupNewest
<1>13. CASE lookupAsks
  <2>1. PICK asked \in SUBSET (Replicas \ {Client}) :
          /\ gets' = asked
          /\ open' = IF asked = {} THEN Retried
                     ELSE [open EXCEPT !.pc = "asking", !.asked = asked, !.answered = {},
                                       !.best = None, !.floor = Highest(asked)]
      BY <1>13 DEF lookupAsks
  <2>2. replies' = {} /\ UNCHANGED <<held, expired>>
      BY <1>13 DEF lookupAsks, LookupInv, Requests
  <2>3. CASE asked = {}
    <3>1. open'.pc \in {"idle", "failed"} /\ open'.asked = {}
        BY <2>1, <2>3 DEF Retried, Call
    <3> QED BY <1>s, <2>1, <2>2, <2>3, <3>1
            DEF LookupInv, Requests, NewestComing, LookupNewest
  <2>4. CASE asked # {}
    <3>1. /\ open'.pc = "asking" /\ open'.asked = asked /\ open'.answered = {}
          /\ open'.floor = Highest(asked)
        BY <1>o, <2>1, <2>4
    <3>2. Requests'
        BY <2>1, <2>2, <3>1 DEF Requests
    <3>3. asked \subseteq Nodes
        BY DEF Nodes
    <3>4. ASSUME open'.floor > expired' PROVE \E m \in asked : Promised(m)'
      <4>1. Highest(asked) > 0 /\ Highest(asked) \in Nat
          BY <1>t, <2>2, <3>1, <3>3, <3>4, HighestHeld, MaxRevisionAssumption
      <4>2. PICK m \in asked : held[m] # None /\ held[m].revision = Highest(asked)
          BY <1>t, <3>3, <4>1, HighestHeld
      <4> QED BY <2>1, <2>2, <3>1, <4>1, <4>2 DEF Promised
    <3> QED BY <1>s, <3>1, <3>2, <3>4 DEF LookupInv, NewestComing, LookupNewest
  <2> QED BY <2>3, <2>4
<1>14. CASE lookupTimeout
  <2>0. open.pc = "asking" /\ UNCHANGED expired
      BY <1>14 DEF lookupTimeout
  <2>1. PICK best \in {open.best, None} : Returning(open.answered, best)
      BY <1>14 DEF lookupTimeout
  <2>2. Requests' /\ NewestComing'
      BY <2>0, <2>1, LookupEnds
  <2>3. ASSUME open'.pc = "found", open'.answered = open'.asked, open'.floor > expired
        PROVE open'.best.revision >= open'.floor
    <3>1. /\ best # None /\ open'.best = best /\ open'.floor = open.floor
          /\ open.answered = open.asked
        BY <2>0, <2>1, <2>3, LookupEnds
    <3>2. PICK m \in open.asked : Promised(m)
        BY <2>0, <2>3, <3>1 DEF LookupInv, NewestComing
    <3>3. m \notin gets /\ \A q \in replies : q[1] # m
        BY <3>1 DEF LookupInv, Requests
    <3> QED BY <2>1, <3>1, <3>2, <3>3 DEF Promised
  <2>4. LookupNewest'
      BY <1>s, <2>0, <2>3 DEF LookupNewest
  <2> QED BY <1>s, <2>2, <2>4 DEF LookupInv
<1>15. CASE openServiceDescriptor
  <2>1. /\ gets' = {} /\ replies' = {}
      BY <1>15 DEF openServiceDescriptor, LookupInv, Requests
  <2>2. open'.pc \in {"idle", "failed", "open"} /\ open'.asked = {}
      BY <1>15 DEF openServiceDescriptor, Retried, Call
  <2> QED BY <1>s, <2>1, <2>2 DEF LookupInv, Requests, NewestComing, LookupNewest
<1>16. CASE UNCHANGED vars
    BY <1>1, <1>16 DEF vars
<1>17. ASSUME NEW r \in replies, receive(r[1], r[2]) PROVE LookupInv'
    BY <1>17, <1>s, ReceiveStep
<1> QED BY <1>3, <1>4, <1>5, <1>6, <1>7, <1>8, <1>9, <1>10, <1>11, <1>12, <1>13, <1>14,
           <1>15, <1>16, <1>17 DEF Next, Publish, Lookup

(* A lookup that has heard all the replicas it asked returns a descriptor  *)
(* at least as new as any that one of them held when it asked and that is  *)
(* still valid (lookupService, storeDescriptor), with requests   *)
(* and answers in any order, for any replicas and any number of            *)
(* publications meanwhile.                                                 *)
THEOREM LookupNewestHolds == Spec => []LookupNewest
<1>1. Init => LookupInv
  <2> SUFFICES ASSUME Init PROVE LookupInv
      OBVIOUS
  <2>1. /\ publisher \in [pc : {"select", "read", "number", "send"},
                          points : SUBSET Points, revision : 0..MaxRevision]
        /\ publisher.pc = "read" /\ open.pc = "idle" /\ open.asked = {}
        /\ open \in [pc : {"idle", "asking", "found", "open", "failed"}, attempt : 0..2,
                asked : SUBSET Replicas, answered : SUBSET Replicas,
                best : Descriptor \cup {None}, floor : 0..MaxRevision]
        /\ open.attempt = 0
      BY MaxRevisionAssumption DEF Init, Starting, Call
  <2>b. budget \in [Bounds -> Nat] /\ budget["revisions"] <= MaxRevision
      BY BudgetsAssumption DEF Init
  <2>c. wake \in BOOLEAN /\ unsaved \in BOOLEAN
      BY DEF Init
  <2>d. /\ intros \subseteq Points /\ waking \subseteq Points
        /\ timer \in {"off", "running", "ready"} /\ issued \in Seq(Descriptor)
        /\ puts \subseteq Nodes \X Descriptor
        /\ held \in [Nodes -> Descriptor \cup {None}]
        /\ gets \subseteq Nodes /\ replies \subseteq Nodes \X (Descriptor \cup {None})
      BY DEF Init
  <2>e. revision \in 0..MaxRevision /\ file \in (1..MaxRevision) \cup {None} /\ expired \in 0..MaxRevision
      BY MaxRevisionAssumption DEF Init
  <2>2. Shapes
    <3>1. TypeOK
        BY <2>1, <2>b, <2>c, <2>d, <2>e DEF TypeOK
    <3> QED BY <2>1, <2>b, <3>1 DEF Shapes
  <2> QED BY <2>1, <2>2
          DEF Init, LookupInv, Requests, NewestComing, LookupNewest, Shapes
<1>2. LookupInv => LookupNewest
    BY DEF LookupInv
<1> QED BY <1>1, <1>2, LookupStep, PTL DEF Spec
=============================================================================
