-------------------------------- MODULE Router --------------------------------
(***************************************************************************)
(* router.Compute: shortest paths over the advertised topology, by a       *)
(* breadth-first search that uses a link only if both ends advertise it    *)
(* (internal/router/router.go).                                            *)
(*                                                                         *)
(* Node identities are numbers, compared as nodeid.Compare compares them.  *)
(* The table of advertisements is an input.  The outer loop takes a node   *)
(* from the queue, the inner loop goes through its neighbours in the order *)
(* of their identities: one step each.  An entry of the maps paths and     *)
(* routes that is absent is << >>, respectively NoRoute; adverts is the    *)
(* argument lsas.                                                          *)
(***************************************************************************)
EXTENDS Naturals, Sequences, FiniteSets

CONSTANTS
    Identities, \* node identities
    NoRoute,    \* no route; no node being expanded
    Tables      \* the tables Compute may be called with

ASSUME IdentitiesAssumption == Identities \subseteq Nat

(* router.Route; the destination is the key.                               *)
RouteType == [nextHop : Identities, hops : Nat, path : Seq(Identities)]

ASSUME NoRouteAssumption == NoRoute \notin Identities /\ NoRoute \notin RouteType
ASSUME TablesAssumption ==
    \A t \in Tables : /\ DOMAIN t \subseteq Identities /\ IsFiniteSet(DOMAIN t)
                      /\ t \in [DOMAIN t -> SUBSET Identities]

VARIABLES
    adverts,    \* adverts[n]: what n advertises, for the nodes whose LSA is held
    local,      \* the node that computes
    queue,      \* nodes found and not yet expanded
    current,    \* the node being expanded
    todo,       \* its neighbours the inner loop has not looked at
    paths,      \* paths[n]: the path found to n
    routes      \* the result

routeVars == <<adverts, local, queue, current, todo, paths, routes>>

-----------------------------------------------------------------------------
(* What n is taken to advertise: its own identity is left out.             *)
advertised(n) == adverts[n] \ {n}

(* Faulty variant: one end is enough.                                      *)
adjacencyOneSided(a) ==
    IF a \in DOMAIN adverts THEN {b \in advertised(a) : b \in DOMAIN adverts} ELSE {}

(* The links of a that the other end advertises too.                       *)
adjacency(a) ==
    IF a \in DOMAIN adverts
    THEN {b \in advertised(a) : b \in DOMAIN adverts /\ a \in advertised(b)}
    ELSE {}

Route(path) == [nextHop |-> path[2], hops |-> Len(path) - 1, path |-> path]

RouteInit ==
    /\ adverts \in Tables
    /\ local \in DOMAIN adverts
    /\ queue = <<local>>
    /\ current = NoRoute
    /\ todo = {}
    /\ paths = [n \in Identities |-> IF n = local THEN <<local>> ELSE << >>]
    /\ routes = [n \in Identities |-> NoRoute]

(* The head of the outer loop.                                             *)
Dequeue ==
    /\ todo = {}
    /\ queue # << >>
    /\ current' = Head(queue)
    /\ queue' = Tail(queue)
    /\ todo' = adjacency(Head(queue))
    /\ UNCHANGED <<adverts, local, paths, routes>>

(* Faulty variant: the neighbours are not sorted.                          *)
LeastUnsorted(S) == CHOOSE n \in S : \A m \in S : m <= n

(* The inner loop's next neighbour: the least one left.                    *)
Least(S) == CHOOSE n \in S : \A m \in S : n <= m

(* A neighbour that has a path already is skipped.                         *)
Skip ==
    /\ todo # {}
    /\ paths[Least(todo)] # << >>
    /\ todo' = todo \ {Least(todo)}
    /\ UNCHANGED <<adverts, local, queue, current, paths, routes>>

(* A neighbour without one is reached through current.                     *)
Found ==
    LET next == Least(todo)
        path == Append(paths[current], next)
    IN /\ todo # {}
       /\ paths[next] = << >>
       /\ todo' = todo \ {next}
       /\ paths' = [paths EXCEPT ![next] = path]
       /\ queue' = Append(queue, next)
       /\ routes' = IF next # local THEN [routes EXCEPT ![next] = Route(path)] ELSE routes
       /\ UNCHANGED <<adverts, local, current>>

RouteNext == Dequeue \/ Skip \/ Found

RouteSpec == RouteInit /\ [][RouteNext]_routeVars

Returned == todo = {} /\ queue = << >>

-----------------------------------------------------------------------------
RouteTypeOK ==
    /\ adverts \in Tables
    /\ local \in DOMAIN adverts
    /\ queue \in Seq(Identities)
    /\ current \in Identities \cup {NoRoute}
    /\ todo \subseteq Identities
    /\ todo # {} => current # NoRoute
    /\ paths \in [Identities -> Seq(Identities)]
    /\ routes \in [Identities -> RouteType \cup {NoRoute}]

-----------------------------------------------------------------------------
(* The reference: simple paths over links both ends advertise.             *)
Mutual(a, b) ==
    /\ a # b
    /\ {a, b} \subseteq DOMAIN adverts
    /\ a \in adverts[b] /\ b \in adverts[a]

IsPath(p) == \A i \in 1..(Len(p) - 1) : Mutual(p[i], p[i + 1])

SimplePaths(d) ==
    {p \in UNION {[1..k -> DOMAIN adverts] : k \in 2..Cardinality(DOMAIN adverts)} :
        /\ p[1] = local /\ p[Len(p)] = d
        /\ \A i, j \in 1..Len(p) : p[i] = p[j] => i = j
        /\ IsPath(p)}

(* p comes before q: shorter, or as long and less where they first differ. *)
Before(p, q) ==
    \/ Len(p) < Len(q)
    \/ /\ Len(p) = Len(q)
       /\ \E i \in 1..Len(p) : p[i] < q[i] /\ \A j \in 1..(i - 1) : p[j] = q[j]

(* A route leads over links that both ends advertise, from the node itself *)
(* to the destination, visits no node twice, and its next hop is the first *)
(* node of that path (router.go:41-59): "A node cannot invent a usable     *)
(* edge by advertising another node that does not advertise it"            *)
(* (router.go:17-18).                                                      *)
RoutesUsable ==
    \A d \in Identities : routes[d] # NoRoute =>
        LET p == routes[d].path
        IN /\ d # local /\ Len(p) >= 2
           /\ p[1] = local /\ p[Len(p)] = d
           /\ \A i, j \in 1..Len(p) : p[i] = p[j] => i = j
           /\ IsPath(p)
           /\ routes[d].nextHop = p[2] /\ routes[d].hops = Len(p) - 1

(* The result has a route to every node that is reachable over mutual      *)
(* links and to no other, and it is the first of the shortest paths in the *)
(* order of identities (router.go:43-61): the outcome does not depend on   *)
(* the order in which the maps of advertisements are iterated.             *)
ShortestFirst ==
    /\ RouteTypeOK
    /\ Returned => \A d \in Identities \ {local} :
        IF SimplePaths(d) = {} THEN routes[d] = NoRoute
        ELSE /\ routes[d] # NoRoute
             /\ \A p \in SimplePaths(d) : p = routes[d].path \/ Before(routes[d].path, p)

-----------------------------------------------------------------------------
(* The distance of a node whose route the result holds.                    *)
Reached(n) == n = local \/ routes[n] # NoRoute
Distance(n) == IF n = local THEN 0 ELSE routes[n].hops

(* No link is a shortcut past the result (router.go:46-61): if one end of  *)
(* a mutual link is reached, so is the other, at most one hop further.     *)
(* Along any path from the node itself this bounds every distance by the   *)
(* length of the path.                                                     *)
NoShortcut ==
    Returned => \A a, b \in Identities :
        Mutual(a, b) /\ Reached(a) => Reached(b) /\ Distance(b) <= Distance(a) + 1

(* The inductive invariant behind RoutesUsable and NoShortcut.             *)
Known(n) == paths[n] # << >>

Sound(n, p) ==
    /\ Len(p) >= 1
    /\ p[1] = local /\ p[Len(p)] = n
    /\ \A i, j \in 1..Len(p) : p[i] = p[j] => i = j
    /\ IsPath(p)
    /\ \A i \in 1..Len(p) : Known(p[i])

PathsSound == \A n \in Identities : Known(n) => Sound(n, paths[n])

Frontier ==
    /\ Known(local)
    /\ \A i \in 1..Len(queue) : Known(queue[i])
    /\ current # NoRoute => Known(current) /\ todo \subseteq adjacency(current)
    /\ current = NoRoute => todo = {}

RoutesMatch ==
    \A n \in Identities : routes[n] = IF n # local /\ Known(n) THEN Route(paths[n]) ELSE NoRoute

(* The queue is ordered by distance, and nothing known is more than one    *)
(* hop further than what is left to expand.                                *)
Layered ==
    /\ \A i, j \in 1..Len(queue) : i <= j => Len(paths[queue[i]]) <= Len(paths[queue[j]])
    /\ \A b \in Identities, i \in 1..Len(queue) :
         Known(b) => Len(paths[b]) <= Len(paths[queue[i]]) + 1
    /\ current # NoRoute =>
         /\ \A b \in Identities : Known(b) => Len(paths[b]) <= Len(paths[current]) + 1
         /\ \A i \in 1..Len(queue) : Len(paths[current]) <= Len(paths[queue[i]])

Waiting(a) == \E i \in 1..Len(queue) : queue[i] = a

Relaxed ==
    \A a \in Identities : Known(a) /\ ~Waiting(a) =>
        \A b \in adjacency(a) :
            \/ a = current /\ b \in todo
            \/ Known(b) /\ Len(paths[b]) <= Len(paths[a]) + 1

IInv == RouteTypeOK /\ PathsSound /\ Frontier /\ RoutesMatch /\ Layered /\ Relaxed
===============================================================================
