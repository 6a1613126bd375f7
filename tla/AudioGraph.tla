----------------------------- MODULE AudioGraph -----------------------------
(***************************************************************************)
(* AudioGraph: modules, their connections, the links that connect() makes  *)
(* between ports, and the cached execution order.  Modules are numbers     *)
(* (their ids).  Each has one input and one output port, as FilterModule   *)
(* and ADSRModule do, so that a port is known by its module.               *)
(***************************************************************************)
EXTENDS Naturals, Lists

(* modules and connections are in the order of their addition; links are   *)
(* those of all the output ports.                                          *)
EmptyGraph == [modules |-> << >>, connections |-> << >>, links |-> << >>, order |-> << >>]

HasModule(g, m) == m \in ToSet(g.modules)
HasConnection(g, c) == c \in ToSet(g.connections)

(* The edges that topologicalSort looks at: not from a module to itself.   *)
IsEdge(g, c) == c[1] # c[2] /\ HasModule(g, c[1]) /\ HasModule(g, c[2])
Edges(g) == Keep(g.connections, {c \in ToSet(g.connections) : IsEdge(g, c)})
EdgesFrom(g, m) == Keep(Edges(g), {c \in ToSet(g.connections) : c[1] = m})
EdgesTo(g, m) == Keep(Edges(g), {c \in ToSet(g.connections) : c[2] = m})
InDegree(g) == [m \in ToSet(g.modules) |-> Len(EdgesTo(g, m))]

-----------------------------------------------------------------------------
(***************************************************************************)
(* topologicalSort: Kahn's algorithm.  Its queue is used as a stack.       *)
(***************************************************************************)
KahnStart(g) ==
  LET degree == InDegree(g)
  IN  [inDegree |-> degree,
       queue |-> Keep(g.modules, {m \in ToSet(g.modules) : degree[m] = 0}),
       sorted |-> << >>]

Decrease(k, c) ==
  [k EXCEPT !.inDegree[c[2]] = @ - 1,
            !.queue = IF k.inDegree[c[2]] = 1 THEN Append(@, c[2]) ELSE @]

DecreaseEagerly(k, c) ==  \* mutant: ready when one of its sources has been seen
  IF c[2] \in ToSet(k.sorted) \cup ToSet(k.queue) THEN k
  ELSE [k EXCEPT !.queue = Append(@, c[2])]
Neighbour(k, c) == Decrease(k, c)

Neighbours(k, edges) ==
  LET after[i \in 0 .. Len(edges)] ==
        IF i = 0 THEN k ELSE Neighbour(after[i - 1], edges[i])
  IN  after[Len(edges)]

Sorted(k) == [k EXCEPT !.queue = Front(@), !.sorted = Append(@, Last(k.queue))]

KahnStep(g, k) ==
  IF k.queue = << >> THEN k ELSE Neighbours(Sorted(k), EdgesFrom(g, Last(k.queue)))

(* A step for each module empties the queue.                               *)
TopologicalSort(g) ==
  LET after[i \in 0 .. Len(g.modules)] ==
        IF i = 0 THEN KahnStart(g) ELSE KahnStep(g, after[i - 1])
  IN  after[Len(g.modules)].sorted

(* A cycle leaves the order empty.                                         *)
UpdateExecutionOrder(g) ==
  LET sorted == TopologicalSort(g)
  IN  [g EXCEPT !.order = IF Len(sorted) = Len(g.modules) THEN sorted ELSE << >>]

-----------------------------------------------------------------------------
(* The operations; each ends with updateExecutionOrder.                    *)
AddModule(g, m) == UpdateExecutionOrder([g EXCEPT !.modules = Append(@, m)])

Touches(c, m) == m \in {c[1], c[2]}

(* No port is disconnected: those of other modules go on sending to the    *)
(* input port of the module, which they own together with it.              *)
RemoveModule(g, m) ==
  UpdateExecutionOrder(
    [g EXCEPT !.modules = Keep(@, ToSet(@) \ {m}),
              !.connections = Keep(@, {c \in ToSet(@) : ~ Touches(c, m)})])

Connect(g, c) ==
  UpdateExecutionOrder([g EXCEPT !.connections = Append(@, c), !.links = Append(@, c)])

DisconnectKeepsLink(g, c) ==  \* mutant: the port goes on sending
  UpdateExecutionOrder([g EXCEPT !.connections = RemoveFirst(@, c)])

DisconnectInput(g, c) ==  \* mutant: the links of other ports go as well
  UpdateExecutionOrder([g EXCEPT !.connections = RemoveFirst(@, c),
                                 !.links = Keep(@, {l \in ToSet(@) : l[2] # c[2]})])

(* One connection goes, but every link between the two ports.              *)
Disconnect(g, c) ==
  UpdateExecutionOrder(
    [g EXCEPT !.connections = RemoveFirst(@, c), !.links = Keep(@, ToSet(@) \ {c})])

-----------------------------------------------------------------------------
Count(s, x) == Len(Keep(s, {x}))

(***************************************************************************)
(* What the order promises (AudioGraph.hpp): each module once and after    *)
(* the modules that feed it, unless the graph has a cycle; in that case,   *)
(* and only then, it is empty.  A cycle is a set of modules each of which  *)
(* is fed by another one of the set.                                       *)
(***************************************************************************)
Feeding(g) == ToSet(Edges(g))

HasCycle(g) ==
  LET edges == Feeding(g)
  IN  \E S \in SUBSET {e[2] : e \in edges} :
        S # {} /\ \A n \in S : \E m \in S : <<m, n>> \in edges

Precedes(s, m, n) == \E i, j \in DOMAIN s : i < j /\ s[i] = m /\ s[j] = n

OrderIsSound(g) ==
  IF HasCycle(g)
  THEN g.order = << >>
  ELSE /\ Len(g.order) = Len(g.modules)
       /\ ToSet(g.order) = ToSet(g.modules)
       /\ \A e \in Feeding(g) : Precedes(g.order, e[1], e[2])

(* The links that a module of the graph sends along without their being    *)
(* in the list of connections.                                             *)
UnlistedLinks(g) ==
  {l \in ToSet(g.links) : HasModule(g, l[1]) /\ Count(g.links, l) > Count(g.connections, l)}
=============================================================================
