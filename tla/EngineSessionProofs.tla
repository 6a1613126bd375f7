------------------------- MODULE EngineSessionProofs -------------------------
(***************************************************************************)
(* Proofs about AudioGraph and EngineSession, for any ids, any graph that  *)
(* AudioEngine puts together, queues of any length, any commands and any   *)
(* number of them: the execution order of every graph is sound, signals go *)
(* along the listed connections or to deleted modules, the TUI shows the   *)
(* scope it is in, and what is typed in a scope goes to an instrument.     *)
(*                                                                         *)
(* Kahn's algorithm comes first: what is sorted and what is ready, and how *)
(* many edges into each other module come from modules not yet sorted.     *)
(* Then what each operation leaves of a graph, each command of the graphs, *)
(* and each step of the session of its queues and of what is on screen.    *)
(***************************************************************************)
EXTENDS EngineSession, SequenceLemmas

-----------------------------------------------------------------------------
(***************************************************************************)
(* Kahn's algorithm.                                                       *)
(***************************************************************************)
Modules(g) == ToSet(g.modules)
To(g, m) == {c \in Ids \X Ids : c[2] = m}
From(g, m) == {c \in Ids \X Ids : c[1] = m}
Unsorted(sorted, m) == {c \in Ids \X Ids : c[2] = m /\ c[1] \notin ToSet(sorted)}

(* The edges are connections between two different modules of the graph.   *)
LEMMA EdgesType ==
  ASSUME NEW g \in GraphType
  PROVE  /\ Edges(g) \in Seq(Ids \X Ids)
         /\ g.modules \in Seq(Ids) /\ Modules(g) \subseteq Ids
         /\ \A e \in ToSet(Edges(g)) : e \in Ids \X Ids /\ IsEdge(g, e) /\ e \in ToSet(g.connections)
         /\ \A c \in ToSet(g.connections) : c \in Ids \X Ids /\ (IsEdge(g, c) => c \in ToSet(Edges(g)))
         /\ Feeding(g) = ToSet(Edges(g))
<1>1. g.connections \in Seq(Ids \X Ids) /\ g.modules \in Seq(Ids)
    BY DEF GraphType
<1> DEFINE S == {c \in ToSet(g.connections) : IsEdge(g, c)}
<1>2. Edges(g) = Keep(g.connections, S)
    BY DEF Edges
<1>3. \A c : c \in S <=> c \in ToSet(g.connections) /\ IsEdge(g, c)
    OBVIOUS
<1> HIDE DEF S
<1>4. Edges(g) \in Seq(Ids \X Ids) /\ ToSet(Edges(g)) = ToSet(g.connections) \cap S
    BY <1>1, <1>2, KeepKeeps
<1>5. \A c \in ToSet(g.connections) : c \in Ids \X Ids
    BY <1>1, ListOf
<1>6. \A m \in ToSet(g.modules) : m \in Ids
    BY <1>1, ListOf
<1> QED BY <1>1, <1>3, <1>4, <1>5, <1>6 DEF Modules, Feeding

(* Edges from and to a module, counted among all edges.                    *)
LEMMA EdgesCounted ==
  ASSUME NEW g \in GraphType, NEW m
  PROVE  /\ EdgesTo(g, m) = Keep(Edges(g), To(g, m))
         /\ EdgesFrom(g, m) = Keep(Edges(g), From(g, m))
<1> DEFINE T == {c \in ToSet(g.connections) : c[2] = m}
           F == {c \in ToSet(g.connections) : c[1] = m}
<1>1. Edges(g) \in Seq(Ids \X Ids)
    BY EdgesType
<1>2. ToSet(Edges(g)) \cap T = ToSet(Edges(g)) \cap To(g, m)
    BY EdgesType DEF To
<1>3. ToSet(Edges(g)) \cap F = ToSet(Edges(g)) \cap From(g, m)
    BY EdgesType DEF From
<1> DEFINE E == Edges(g)
<1>4. EdgesTo(g, m) = Keep(E, T) /\ EdgesFrom(g, m) = Keep(E, F)
    BY DEF EdgesTo, EdgesFrom
<1> HIDE DEF T, F, E
<1>5. Keep(E, T) = Keep(E, To(g, m))
    BY <1>1, <1>2, KeepAlike DEF E
<1>6. Keep(E, F) = Keep(E, From(g, m))
    BY <1>1, <1>3, KeepAlike DEF E
<1> QED BY <1>4, <1>5, <1>6 DEF E

(* The state of the algorithm.                                             *)
KahnState(g) ==
  [inDegree : [Modules(g) -> Int], queue : Seq(Modules(g)), sorted : Seq(Modules(g))]

(* Nothing is twice in what is sorted and what is ready.                   *)
Apart(k) ==
  /\ Distinct(k.sorted) /\ Distinct(k.queue)
  /\ ToSet(k.sorted) \cap ToSet(k.queue) = {}

(* The modules that are sorted or ready.                                   *)
Reached(k) == ToSet(k.sorted) \cup ToSet(k.queue)

(* What is sorted comes after all that feed it.                            *)
AfterFeeders(g, sorted) ==
  \A j \in 1 .. Len(sorted) : \A e \in Feeding(g) :
    e[2] = sorted[j] => \E i \in 1 .. Len(sorted) : i < j /\ sorted[i] = e[1]

(* Each count is that of the edges from modules not sorted; 0 means reached. *)
KahnInv(g, k) ==
  /\ k \in KahnState(g)
  /\ Apart(k)
  /\ \A m \in Modules(g) :
       /\ k.inDegree[m] = Len(Keep(Edges(g), Unsorted(k.sorted, m)))
       /\ m \in Reached(k) <=> k.inDegree[m] = 0
  /\ AfterFeeders(g, k.sorted)

(* KahnInv holds when the modules that nothing feeds are ready.            *)
LEMMA KahnStarts ==
  ASSUME NEW g \in GraphType, Distinct(g.modules)
  PROVE  KahnInv(g, KahnStart(g))
<1> DEFINE k == KahnStart(g)
           degree == InDegree(g)
           Z == {m \in ToSet(g.modules) : degree[m] = 0}
<1>1. /\ k = [inDegree |-> degree, queue |-> Keep(g.modules, Z), sorted |-> << >>]
      /\ degree = [m \in Modules(g) |-> Len(EdgesTo(g, m))]
    BY DEF KahnStart, InDegree, Modules
<1>2. Edges(g) \in Seq(Ids \X Ids) /\ g.modules \in Seq(Ids)
    BY EdgesType
<1>3. \A m \in Modules(g) :
        Len(EdgesTo(g, m)) \in Nat /\ Len(EdgesTo(g, m)) = Len(Keep(Edges(g), Unsorted(<< >>, m)))
  <2> SUFFICES ASSUME NEW m \in Modules(g)
               PROVE  /\ Len(EdgesTo(g, m)) \in Nat
                      /\ Len(EdgesTo(g, m)) = Len(Keep(Edges(g), Unsorted(<< >>, m)))
      OBVIOUS
  <2>1. EdgesTo(g, m) = Keep(Edges(g), To(g, m))
      BY EdgesCounted
  <2>2. ToSet(<< >>) = {}
      BY DEF ToSet
  <2>3. To(g, m) = Unsorted(<< >>, m)
      BY <2>2 DEF To, Unsorted
  <2>4. Len(Keep(Edges(g), To(g, m))) \in Nat
      BY <1>2, KeepsSome
  <2> QED BY <2>1, <2>3, <2>4
<1>4. degree \in [Modules(g) -> Int]
    BY <1>1, <1>3
<1>5. \A m : m \in Z <=> m \in Modules(g) /\ degree[m] = 0
    BY DEF Modules
<1> HIDE DEF k, degree, Z
<1>6. Keep(g.modules, Z) \in Seq(Ids) /\ ToSet(Keep(g.modules, Z)) = Modules(g) \cap Z
      /\ Distinct(Keep(g.modules, Z))
    BY <1>2, KeepKeeps DEF Modules
<1>7. g.modules \in Seq(Modules(g))
    BY <1>2, OwnElements DEF Modules
<1>8. Keep(g.modules, Z) \in Seq(Modules(g))
    BY <1>7, KeepKeeps
<1>9. << >> \in Seq(Modules(g)) /\ ToSet(<< >>) = {} /\ Distinct(<< >>) /\ Len(<< >>) = 0
    BY DEF ToSet, Distinct
<1>10. k \in KahnState(g)
    BY <1>1, <1>4, <1>8, <1>9 DEF KahnState
<1>11. k.sorted = << >> /\ k.queue = Keep(g.modules, Z) /\ k.inDegree = degree
    BY <1>1
<1>12. Apart(k)
    BY <1>6, <1>9, <1>11 DEF Apart
<1>13. Reached(k) = Modules(g) \cap Z
    BY <1>6, <1>9, <1>11 DEF Reached
<1>14. \A m \in Modules(g) :
         /\ k.inDegree[m] = Len(Keep(Edges(g), Unsorted(k.sorted, m)))
         /\ m \in Reached(k) <=> k.inDegree[m] = 0
  <2> SUFFICES ASSUME NEW m \in Modules(g)
               PROVE  /\ k.inDegree[m] = Len(Keep(Edges(g), Unsorted(k.sorted, m)))
                      /\ m \in Reached(k) <=> k.inDegree[m] = 0
      OBVIOUS
  <2>1. k.inDegree[m] = Len(EdgesTo(g, m))
      BY <1>1, <1>11
  <2>2. m \in Reached(k) <=> k.inDegree[m] = 0
      BY <1>5, <1>11, <1>13
  <2> QED BY <1>3, <1>11, <2>1, <2>2
<1>15. AfterFeeders(g, k.sorted)
    BY <1>9, <1>11 DEF AfterFeeders
<1> QED BY <1>10, <1>12, <1>14, <1>15 DEF KahnInv, k

(* One edge counts down its end, which becomes ready at 0.                 *)
LEMMA NeighbourType ==
  ASSUME NEW g \in GraphType, NEW k \in KahnState(g), NEW c \in Ids \X Ids, c[2] \in Modules(g)
  PROVE  /\ Neighbour(k, c) \in KahnState(g)
         /\ Neighbour(k, c).sorted = k.sorted
         /\ Neighbour(k, c).queue =
              IF k.inDegree[c[2]] = 1 THEN Append(k.queue, c[2]) ELSE k.queue
         /\ Neighbour(k, c).inDegree =
              [m \in Modules(g) |-> IF m = c[2] THEN k.inDegree[m] - 1 ELSE k.inDegree[m]]
<1> DEFINE d == [k.inDegree EXCEPT ![c[2]] = @ - 1]
           q == IF k.inDegree[c[2]] = 1 THEN Append(k.queue, c[2]) ELSE k.queue
<1>1. k.inDegree \in [Modules(g) -> Int] /\ k.queue \in Seq(Modules(g)) /\ k.sorted \in Seq(Modules(g))
      /\ k = [inDegree |-> k.inDegree, queue |-> k.queue, sorted |-> k.sorted]
    BY DEF KahnState
<1>2. d = [m \in Modules(g) |-> IF m = c[2] THEN k.inDegree[m] - 1 ELSE k.inDegree[m]]
    BY <1>1
<1>3. \A m \in Modules(g) : k.inDegree[m] \in Int
    BY <1>1
<1>4. d \in [Modules(g) -> Int]
  <2>1. \A m \in Modules(g) : (IF m = c[2] THEN k.inDegree[m] - 1 ELSE k.inDegree[m]) \in Int
      BY <1>3
  <2> HIDE DEF d
  <2> QED BY <1>2, <2>1
<1>5. q \in Seq(Modules(g))
    BY <1>1
<1>6. Neighbour(k, c) = [inDegree |-> d, queue |-> q, sorted |-> k.sorted]
  <2>1. Neighbour(k, c) = [k EXCEPT !.inDegree[c[2]] = @ - 1, !.queue = q]
      BY DEF Neighbour, Decrease
  <2>2. Neighbour(k, c) = [k EXCEPT !.inDegree = d, !.queue = q]
      BY <1>1, <2>1
  <2> HIDE DEF d, q
  <2> QED BY <1>1, <2>2
<1>7. q = IF k.inDegree[c[2]] = 1 THEN Append(k.queue, c[2]) ELSE k.queue
    OBVIOUS
<1> HIDE DEF d, q
<1>8. Neighbour(k, c) \in KahnState(g)
    BY <1>1, <1>4, <1>5, <1>6 DEF KahnState
<1> QED BY <1>2, <1>6, <1>7, <1>8

Meets(a, k, edges) ==
  a[0] = k /\ \A i \in 1 .. Len(edges) : a[i] = Neighbour(a[i - 1], edges[i])

(* The edges that leave a module are counted down one by one.              *)
LEMMA NeighbourSteps ==
  ASSUME NEW g \in GraphType, NEW k \in KahnState(g), NEW edges \in Seq(Ids \X Ids),
         \A i \in 1 .. Len(edges) : edges[i][2] \in Modules(g)
  PROVE  \E a \in [0 .. Len(edges) -> KahnState(g)] :
           Meets(a, k, edges) /\ Neighbours(k, edges) = a[Len(edges)]
<1> DEFINE n == Len(edges)
           S == KahnState(g)
           Step(f, i) == IF i = 0 THEN k ELSE Neighbour(f[i - 1], edges[i])
           after == CHOOSE f : f = [i \in 0 .. n |-> Step(f, i)]
           step == [i \in 1 .. n |-> [x \in S |-> Neighbour(x, edges[i])]]
<1>1. n \in Nat /\ \A i \in 1 .. n : edges[i] \in Ids \X Ids /\ edges[i][2] \in Modules(g)
    OBVIOUS
<1>2. Neighbours(k, edges) = after[n]
    BY DEF Neighbours
<1> HIDE DEF n, S
<1>3. \A i \in 1 .. n, x \in S : step[i][x] = Neighbour(x, edges[i])
    OBVIOUS
<1>4. \A i \in 1 .. n, x \in S : step[i][x] \in S
  <2> HIDE DEF step
  <2>1. \A i \in 1 .. n, x \in S : Neighbour(x, edges[i]) \in S
      BY <1>1, NeighbourType DEF S
  <2> QED BY <1>3, <2>1
<1> HIDE DEF step
<1>5. PICK a \in [0 .. n -> S] : Runs(a, k, step, n)
    BY <1>1, <1>4, StepByStep DEF S
<1>6. \A i \in 1 .. n : i - 1 \in 0 .. n /\ i # 0 /\ a[i - 1] \in S
    BY <1>1, <1>5
<1>7. \A i \in 1 .. n : a[i] = Neighbour(a[i - 1], edges[i])
    BY <1>3, <1>5, <1>6 DEF Runs
<1>8. a = [i \in 0 .. n |-> Step(a, i)]
  <2>1. ASSUME NEW i \in 0 .. n PROVE a[i] = Step(a, i)
    <3>1. CASE i = 0
        BY <1>5, <3>1 DEF Runs
    <3>2. CASE i # 0
      <4>1. i \in 1 .. n
          BY <1>1, <3>2
      <4> QED BY <1>7, <3>2, <4>1
    <3> QED BY <3>1, <3>2
  <2>2. a = [i \in 0 .. n |-> a[i]]
      BY <1>5
  <2> HIDE DEF Step
  <2> QED BY <2>1, <2>2
<1>9. after = [i \in 0 .. n |-> Step(after, i)]
  <2> HIDE DEF Step
  <2> QED BY <1>8
<1> HIDE DEF after
<1>10. ASSUME NEW i \in 0 .. n PROVE after[i] = Step(after, i)
  <2> HIDE DEF Step
  <2> QED BY <1>9
<1> DEFINE T == {i \in 0 .. n : after[i] = a[i]}
<1>11. 0 \in T
  <2>1. 0 \in 0 .. n
      BY <1>1
  <2>2. after[0] = k
      BY <1>10, <2>1
  <2> QED BY <1>5, <2>1, <2>2 DEF Runs
<1>12. ASSUME NEW j \in 0 .. n - 1, j \in T PROVE j + 1 \in T
  <2>1. j + 1 \in 1 .. n /\ j + 1 \in 0 .. n /\ j + 1 # 0 /\ (j + 1) - 1 = j
      BY <1>1
  <2>2. after[j + 1] = Neighbour(after[j], edges[j + 1])
      BY <1>10, <2>1
  <2> QED BY <1>7, <1>12, <2>1, <2>2
<1> HIDE DEF T
<1>13. \A j \in 0 .. n : j \in T
    BY <1>1, <1>11, <1>12, UpTo
<1>14. after[n] = a[n]
    BY <1>1, <1>13 DEF T
<1>15. Meets(a, k, edges)
    BY <1>5, <1>7 DEF Meets, Runs, n
<1> QED BY <1>2, <1>5, <1>14, <1>15 DEF n, S

(* The counts while the neighbours of a module are gone through: those in  *)
(* front of position t have been.                                          *)
Meeting(g, k, edges, t, x) ==
  /\ x \in KahnState(g) /\ x.sorted = k.sorted
  /\ Apart(x)
  /\ \A m \in Modules(g) :
       /\ x.inDegree[m] + Len(Keep(FirstOf(edges, t), To(g, m))) = k.inDegree[m]
       /\ m \in Reached(x) <=> x.inDegree[m] = 0

(* Each edge that is counted down leaves the rest of them.                 *)
LEMMA MeetingGoesOn ==
  ASSUME NEW g \in GraphType, NEW k \in KahnState(g), NEW edges \in Seq(Ids \X Ids),
         NEW t \in 0 .. Len(edges) - 1, NEW x, Meeting(g, k, edges, t, x),
         edges[t + 1][2] \in Modules(g),
         \A m \in Modules(g) : Len(Keep(edges, To(g, m))) <= k.inDegree[m]
  PROVE  Meeting(g, k, edges, t + 1, Neighbour(x, edges[t + 1]))
<1> DEFINE c == edges[t + 1]
           y == Neighbour(x, c)
           f == FirstOf(edges, t)
<1>1. c \in Ids \X Ids /\ f \in Seq(Ids \X Ids) /\ FirstOf(edges, t + 1) = Append(f, c)
    BY FirstNext
<1>2. Len(edges) \in Nat /\ t + 1 \in 0 .. Len(edges)
    OBVIOUS
<1>3. \A m \in Modules(g) : Len(Keep(FirstOf(edges, t + 1), To(g, m))) <= Len(Keep(edges, To(g, m)))
    BY <1>2, FirstCounts
<1>4. \A m \in Modules(g) :
        /\ Len(Keep(f, To(g, m))) \in Nat
        /\ Len(Keep(Append(f, c), To(g, m)))
             = IF m = c[2] THEN Len(Keep(f, To(g, m))) + 1 ELSE Len(Keep(f, To(g, m)))
  <2> SUFFICES ASSUME NEW m \in Modules(g)
               PROVE  /\ Len(Keep(f, To(g, m))) \in Nat
                      /\ Len(Keep(Append(f, c), To(g, m)))
                           = IF m = c[2] THEN Len(Keep(f, To(g, m))) + 1 ELSE Len(Keep(f, To(g, m)))
      OBVIOUS
  <2> HIDE DEF c, f
  <2> DEFINE S == To(g, m)
  <2>1. c \in S <=> m = c[2]
      BY <1>1 DEF To
  <2> HIDE DEF S
  <2>2. /\ Len(Keep(f, S)) \in Nat
        /\ Len(Keep(Append(f, c), S)) = IF c \in S THEN Len(Keep(f, S)) + 1 ELSE Len(Keep(f, S))
    <3>1. PICK A : A = Ids \X Ids
        OBVIOUS
    <3>2. PICK h \in Seq(A) : h = f
        BY <1>1, <3>1
    <3>3. PICK e \in A : e = c
        BY <1>1, <3>1
    <3>4. /\ Len(Keep(h, S)) \in Nat
          /\ Len(Keep(Append(h, e), S)) = IF e \in S THEN Len(Keep(h, S)) + 1 ELSE Len(Keep(h, S))
        BY CountAppended
    <3> QED BY <3>2, <3>3, <3>4
  <2> QED BY <2>1, <2>2 DEF S
<1>5. /\ x \in KahnState(g) /\ x.sorted = k.sorted
      /\ Apart(x)
      /\ \A m \in Modules(g) :
           /\ x.inDegree[m] + Len(Keep(f, To(g, m))) = k.inDegree[m]
           /\ m \in Reached(x) <=> x.inDegree[m] = 0
    BY DEF Meeting
<1>6. c[2] \in Modules(g)
    OBVIOUS
<1> HIDE DEF c, f, y
<1>7. /\ y \in KahnState(g)
      /\ y.sorted = x.sorted
      /\ y.queue = IF x.inDegree[c[2]] = 1 THEN Append(x.queue, c[2]) ELSE x.queue
      /\ y.inDegree = [m \in Modules(g) |-> IF m = c[2] THEN x.inDegree[m] - 1 ELSE x.inDegree[m]]
    BY <1>1, <1>5, <1>6, NeighbourType DEF y
<1>8. \A m \in Modules(g) : x.inDegree[m] \in Int /\ k.inDegree[m] \in Int
    BY <1>5 DEF KahnState
<1>9. \A m \in Modules(g) : y.inDegree[m] = IF m = c[2] THEN x.inDegree[m] - 1 ELSE x.inDegree[m]
    BY <1>7
<1>10. x.inDegree[c[2]] >= 1
  <2> DEFINE a == Len(Keep(f, To(g, c[2])))
             b == Len(Keep(FirstOf(edges, t + 1), To(g, c[2])))
             d == Len(Keep(edges, To(g, c[2])))
  <2>1. a \in Nat /\ b = a + 1 /\ b <= d /\ d <= k.inDegree[c[2]] /\ x.inDegree[c[2]] + a = k.inDegree[c[2]]
      BY <1>1, <1>3, <1>4, <1>5, <1>6
  <2>2. d \in Nat
      BY KeepsSome
  <2> HIDE DEF a, b, d
  <2>3. PICK i \in Int : i = x.inDegree[c[2]]
      BY <1>6, <1>8
  <2>4. PICK j \in Int : j = k.inDegree[c[2]]
      BY <1>6, <1>8
  <2>5. a + 1 <= j /\ i + a = j
      BY <2>1, <2>2, <2>3, <2>4
  <2>6. i >= 1
      BY <2>1, <2>5
  <2> QED BY <2>3, <2>6
<1>11. c[2] \notin Reached(x)
    BY <1>5, <1>6, <1>10
<1>12. x.queue \in Seq(Modules(g)) /\ x.sorted \in Seq(Modules(g))
    BY <1>5 DEF KahnState
<1>13. /\ Distinct(y.queue)
       /\ ToSet(y.queue) = IF x.inDegree[c[2]] = 1 THEN ToSet(x.queue) \cup {c[2]} ELSE ToSet(x.queue)
  <2>1. CASE x.inDegree[c[2]] = 1
    <3>1. y.queue = Append(x.queue, c[2])
        BY <1>7, <2>1
    <3>2. c[2] \notin ToSet(x.queue) /\ Distinct(x.queue)
        BY <1>5, <1>11 DEF Reached, Apart
    <3> QED BY <1>6, <1>12, <2>1, <3>1, <3>2, Appended
  <2>2. CASE x.inDegree[c[2]] # 1
      BY <1>5, <1>7, <2>2 DEF Apart
  <2> QED BY <2>1, <2>2
<1>14. Apart(y)
    BY <1>5, <1>7, <1>11, <1>13 DEF Apart, Reached
<1>15. \A m \in Modules(g) : m \in Reached(y) <=> y.inDegree[m] = 0
  <2> SUFFICES ASSUME NEW m \in Modules(g) PROVE m \in Reached(y) <=> y.inDegree[m] = 0
      OBVIOUS
  <2>1. m \in Reached(x) <=> x.inDegree[m] = 0
      BY <1>5
  <2>2. m \in Reached(y) <=> m \in Reached(x) \/ (m = c[2] /\ x.inDegree[m] = 1)
      BY <1>7, <1>13 DEF Reached
  <2>3. CASE m = c[2]
      BY <1>8, <1>9, <1>11, <2>2, <2>3
  <2>4. CASE m # c[2]
      BY <1>9, <2>1, <2>2, <2>4
  <2> QED BY <2>3, <2>4
<1>16. \A m \in Modules(g) :
         y.inDegree[m] + Len(Keep(FirstOf(edges, t + 1), To(g, m))) = k.inDegree[m]
  <2> SUFFICES ASSUME NEW m \in Modules(g)
               PROVE  y.inDegree[m] + Len(Keep(FirstOf(edges, t + 1), To(g, m))) = k.inDegree[m]
      OBVIOUS
  <2> DEFINE a == Len(Keep(f, To(g, m)))
             b == Len(Keep(FirstOf(edges, t + 1), To(g, m)))
  <2>1. /\ a \in Nat /\ b = IF m = c[2] THEN a + 1 ELSE a
        /\ x.inDegree[m] + a = k.inDegree[m] /\ x.inDegree[m] \in Int
        /\ y.inDegree[m] = IF m = c[2] THEN x.inDegree[m] - 1 ELSE x.inDegree[m]
      BY <1>1, <1>4, <1>5, <1>8, <1>9
  <2> HIDE DEF a, b
  <2>2. y.inDegree[m] + b = k.inDegree[m]
      BY <2>1
  <2> QED BY <2>2 DEF b
<1> QED BY <1>5, <1>7, <1>14, <1>15, <1>16 DEF Meeting, y, c

(* A module leaves the queue and joins what is sorted.                     *)
LEMMA MeetingStarts ==
  ASSUME NEW g \in GraphType, NEW k, KahnInv(g, k), k.queue # << >>, NEW edges \in Seq(Ids \X Ids)
  PROVE  /\ Meeting(g, Sorted(k), edges, 0, Sorted(k))
         /\ Sorted(k) \in KahnState(g)
         /\ Last(k.queue) \in Modules(g) /\ Last(k.queue) \notin ToSet(k.sorted)
         /\ k.inDegree[Last(k.queue)] = 0
         /\ Sorted(k).sorted = Append(k.sorted, Last(k.queue)) /\ Sorted(k).inDegree = k.inDegree
<1> DEFINE y == Sorted(k)
           v == Last(k.queue)
           M == Modules(g)
<1>1. k \in KahnState(g) /\ Apart(k)
    BY DEF KahnInv
<1>2. k.inDegree \in [M -> Int] /\ k.queue \in Seq(M) /\ k.sorted \in Seq(M)
      /\ k = [inDegree |-> k.inDegree, queue |-> k.queue, sorted |-> k.sorted]
    BY <1>1 DEF KahnState
<1> DEFINE q == Front(k.queue)
<1>3. /\ v \in M /\ q \in Seq(M) /\ v \in ToSet(k.queue)
      /\ ToSet(k.queue) = ToSet(q) \cup {v}
      /\ Distinct(q) /\ v \notin ToSet(q)
  <2>1. Distinct(k.queue)
      BY <1>1 DEF Apart
  <2> HIDE DEF M
  <2> QED BY <1>2, <2>1, ListHead
<1>4. y = [inDegree |-> k.inDegree, queue |-> q, sorted |-> Append(k.sorted, v)]
  <2> DEFINE w == Append(k.sorted, v)
  <2>1. y = [k EXCEPT !.queue = q, !.sorted = w]
      BY DEF Sorted
  <2> HIDE DEF q, v, w, y
  <2>2. y = [inDegree |-> k.inDegree, queue |-> q, sorted |-> w]
      BY <1>2, <2>1
  <2> QED BY <2>2 DEF w
<1> HIDE DEF q, y, v
<1>5. /\ Append(k.sorted, v) \in Seq(M)
      /\ ToSet(Append(k.sorted, v)) = ToSet(k.sorted) \cup {v}
      /\ v \notin ToSet(k.sorted)
      /\ Distinct(Append(k.sorted, v))
  <2>1. v \notin ToSet(k.sorted) /\ Distinct(k.sorted)
      BY <1>1, <1>3 DEF Apart
  <2> HIDE DEF M
  <2> QED BY <1>2, <1>3, <2>1, Appended
<1>6. y \in KahnState(g)
    BY <1>2, <1>3, <1>4, <1>5 DEF KahnState
<1>7. y.queue = q /\ y.sorted = Append(k.sorted, v) /\ y.inDegree = k.inDegree
    BY <1>4
<1>8. Apart(y)
    BY <1>1, <1>3, <1>5, <1>7 DEF Apart
<1>9. Reached(y) = Reached(k)
    BY <1>3, <1>5, <1>7 DEF Reached
<1>10. \A m \in M : m \in Reached(k) <=> k.inDegree[m] = 0
    BY DEF KahnInv
<1>11. \A m \in M : y.inDegree[m] + Len(Keep(FirstOf(edges, 0), To(g, m))) = y.inDegree[m]
  <2> SUFFICES ASSUME NEW m \in M
               PROVE  y.inDegree[m] + Len(Keep(FirstOf(edges, 0), To(g, m))) = y.inDegree[m]
      OBVIOUS
  <2>1. FirstOf(edges, 0) = << >>
    <3>1. PICK A : A = Ids \X Ids
        OBVIOUS
    <3> QED BY <3>1, FirstNone
  <2>2. Keep(FirstOf(edges, 0), To(g, m)) = << >>
      BY <2>1, KeepNothing
  <2>3. y.inDegree[m] \in Int
      BY <1>2, <1>7
  <2> QED BY <2>2, <2>3
<1>12. k.inDegree[v] = 0
  <2>1. v \in Reached(k)
      BY <1>3 DEF Reached
  <2> QED BY <1>3, <1>10, <2>1
<1>13. Meeting(g, y, edges, 0, y)
    BY <1>6, <1>7, <1>8, <1>9, <1>10, <1>11 DEF Meeting
<1> QED BY <1>3, <1>5, <1>6, <1>7, <1>12, <1>13 DEF y, v

(* The modules that a module feeds and that only unsorted modules feed.    *)
LEMMA CountsFollow ==
  ASSUME NEW g \in GraphType, NEW s \in Seq(Modules(g)), NEW v \in Modules(g) \ ToSet(s),
         NEW m
  PROVE  /\ EdgesFrom(g, v) \in Seq(Ids \X Ids)
         /\ Len(Keep(EdgesFrom(g, v), To(g, m))) \in Nat
         /\ Len(Keep(Edges(g), Unsorted(Append(s, v), m))) \in Nat
         /\ Len(Keep(Edges(g), Unsorted(s, m)))
              = Len(Keep(Edges(g), Unsorted(Append(s, v), m))) + Len(Keep(EdgesFrom(g, v), To(g, m)))
<1> DEFINE E == Edges(g)
           S == Unsorted(Append(s, v), m)
           R == From(g, v) \cap To(g, m)
<1>1. EdgesFrom(g, v) = Keep(E, From(g, v)) /\ E \in Seq(Ids \X Ids)
    BY EdgesCounted, EdgesType
<1>2. ToSet(Append(s, v)) = ToSet(s) \cup {v}
  <2>1. PICK M : M = Modules(g)
      OBVIOUS
  <2> QED BY <2>1, Appended
<1>3. S \cap R = {} /\ Unsorted(s, m) = S \cup R
  <2> DEFINE t == Append(s, v)
  <2>1. ToSet(t) = ToSet(s) \cup {v}
      BY <1>2
  <2> HIDE DEF t
  <2>2. Unsorted(t, m) \cap R = {} /\ Unsorted(s, m) = Unsorted(t, m) \cup R
      BY <2>1 DEF Unsorted, From, To
  <2> QED BY <2>2 DEF t
<1> HIDE DEF E, S, R
<1>4. PICK A : A = Ids \X Ids
    OBVIOUS
<1>5. PICK e \in Seq(A) : e = E
    BY <1>1, <1>4
<1>6. Keep(Keep(e, From(g, v)), To(g, m)) = Keep(e, R)
    BY KeepTwice DEF R
<1>7. /\ Len(Keep(e, S)) \in Nat /\ Len(Keep(e, R)) \in Nat
      /\ Len(Keep(e, S \cup R)) = Len(Keep(e, S)) + Len(Keep(e, R))
    BY <1>3, KeepParts
<1>8. Keep(e, From(g, v)) \in Seq(A)
    BY KeepKeeps
<1> QED BY <1>1, <1>3, <1>4, <1>5, <1>6, <1>7, <1>8 DEF E, S

(* A step sorts one module more and keeps KahnInv.                         *)
LEMMA KahnGoesOn ==
  ASSUME NEW g \in GraphType, NEW k, KahnInv(g, k), k.queue # << >>
  PROVE  /\ KahnInv(g, KahnStep(g, k))
         /\ Len(KahnStep(g, k).sorted) = Len(k.sorted) + 1
<1> DEFINE v == Last(k.queue)
           y == Sorted(k)
           F == EdgesFrom(g, v)
           n == Len(F)
           M == Modules(g)
<1>1. k \in KahnState(g) /\ k.sorted \in Seq(M) /\ Apart(k) /\ AfterFeeders(g, k.sorted)
    BY DEF KahnInv, KahnState
<1>2. /\ y \in KahnState(g) /\ v \in M /\ v \notin ToSet(k.sorted) /\ k.inDegree[v] = 0
      /\ y.sorted = Append(k.sorted, v) /\ y.inDegree = k.inDegree
  <2>1. PICK A : A = Ids \X Ids
      OBVIOUS
  <2>2. << >> \in Seq(A)
      BY NoItems
  <2> DEFINE e == << >>
  <2>3. e \in Seq(Ids \X Ids)
      BY <2>1, <2>2
  <2> HIDE DEF e
  <2> QED BY <2>3, MeetingStarts
<1>3. F \in Seq(Ids \X Ids)
    BY <1>1, <1>2, CountsFollow
<1>4. Meeting(g, y, F, 0, y)
    BY <1>3, MeetingStarts
<1>5. KahnStep(g, k) = Neighbours(y, F)
    BY DEF KahnStep
<1>6. \A i \in 1 .. Len(F) : F[i][2] \in M /\ F[i][1] = v /\ F[i] \in ToSet(Edges(g))
  <2>1. EdgesFrom(g, v) = Keep(Edges(g), From(g, v)) /\ Edges(g) \in Seq(Ids \X Ids)
      BY EdgesCounted, EdgesType
  <2>2. PICK A : A = Ids \X Ids
      OBVIOUS
  <2>3. ToSet(F) = ToSet(Edges(g)) \cap From(g, v)
      BY <2>1, <2>2, KeepKeeps
  <2>4. \A i \in 1 .. Len(F) : F[i] \in ToSet(F)
      BY <1>3, <2>2, ListOf
  <2>5. \A e \in ToSet(Edges(g)) : e[2] \in M
      BY EdgesType DEF IsEdge, HasModule, Modules
  <2> HIDE DEF F, M, v
  <2> QED BY <2>3, <2>4, <2>5 DEF From
<1>7. \A m \in M :
        /\ k.inDegree[m] = Len(Keep(Edges(g), Unsorted(k.sorted, m)))
        /\ k.inDegree[m] = Len(Keep(Edges(g), Unsorted(y.sorted, m))) + Len(Keep(F, To(g, m)))
        /\ Len(Keep(F, To(g, m))) \in Nat
        /\ Len(Keep(Edges(g), Unsorted(y.sorted, m))) \in Nat
        /\ Len(Keep(F, To(g, m))) <= y.inDegree[m]
  <2> SUFFICES ASSUME NEW m \in M
               PROVE  /\ k.inDegree[m] = Len(Keep(Edges(g), Unsorted(k.sorted, m)))
                      /\ k.inDegree[m] = Len(Keep(Edges(g), Unsorted(y.sorted, m))) + Len(Keep(F, To(g, m)))
                      /\ Len(Keep(F, To(g, m))) \in Nat
                      /\ Len(Keep(Edges(g), Unsorted(y.sorted, m))) \in Nat
                      /\ Len(Keep(F, To(g, m))) <= y.inDegree[m]
      OBVIOUS
  <2>1. k.inDegree[m] = Len(Keep(Edges(g), Unsorted(k.sorted, m)))
      BY DEF KahnInv
  <2>2. /\ Len(Keep(F, To(g, m))) \in Nat
        /\ Len(Keep(Edges(g), Unsorted(y.sorted, m))) \in Nat
        /\ Len(Keep(Edges(g), Unsorted(k.sorted, m)))
             = Len(Keep(Edges(g), Unsorted(y.sorted, m))) + Len(Keep(F, To(g, m)))
      BY <1>1, <1>2, CountsFollow
  <2> DEFINE a == Len(Keep(F, To(g, m)))
             b == Len(Keep(Edges(g), Unsorted(y.sorted, m)))
  <2>3. a \in Nat /\ b \in Nat /\ k.inDegree[m] = b + a
      BY <2>1, <2>2
  <2> HIDE DEF a, b
  <2>4. a <= k.inDegree[m]
      BY <2>3
  <2> QED BY <1>2, <2>1, <2>2, <2>4 DEF a
<1> HIDE DEF F, y, v
<1>8. PICK a \in [0 .. n -> KahnState(g)] : Meets(a, y, F) /\ Neighbours(y, F) = a[n]
    BY <1>2, <1>3, <1>6, NeighbourSteps
<1> DEFINE T == {t \in 0 .. n : Meeting(g, y, F, t, a[t])}
<1>9. n \in Nat
    BY <1>3
<1> HIDE DEF n
<1>10. 0 \in T
    BY <1>4, <1>8, <1>9 DEF Meets
<1>11. ASSUME NEW t \in 0 .. n - 1, t \in T PROVE t + 1 \in T
  <2>1. t + 1 \in 1 .. n /\ t + 1 \in 0 .. n /\ (t + 1) - 1 = t
      BY <1>9
  <2>2. a[t + 1] = Neighbour(a[t], F[t + 1]) /\ F[t + 1][2] \in Modules(g)
      BY <1>6, <1>8, <2>1 DEF Meets, n
  <2>3. Meeting(g, y, F, t, a[t]) /\ t \in 0 .. Len(F) - 1
      BY <1>11 DEF n
  <2>4. \A m \in Modules(g) : Len(Keep(F, To(g, m))) <= y.inDegree[m]
      BY <1>7
  <2>5. Meeting(g, y, F, t + 1, Neighbour(a[t], F[t + 1]))
      BY <1>2, <1>3, <2>2, <2>3, <2>4, MeetingGoesOn
  <2> QED BY <2>1, <2>2, <2>5
<1> HIDE DEF T
<1>12. \A t \in 0 .. n : t \in T
    BY <1>9, <1>10, <1>11, UpTo
<1> DEFINE z == KahnStep(g, k)
<1>13. Meeting(g, y, F, n, z)
  <2>1. n \in T /\ z = a[n]
      BY <1>5, <1>8, <1>9, <1>12
  <2> QED BY <2>1 DEF T
<1> HIDE DEF z
<1>14. FirstOf(F, n) = F
  <2>1. PICK A : A = Ids \X Ids
      OBVIOUS
  <2> QED BY <1>3, <2>1, FirstNone DEF n
<1>15. /\ z \in KahnState(g) /\ z.sorted = y.sorted /\ Apart(z)
       /\ \A m \in M : /\ z.inDegree[m] + Len(Keep(F, To(g, m))) = y.inDegree[m]
                       /\ m \in Reached(z) <=> z.inDegree[m] = 0
    BY <1>13, <1>14 DEF Meeting
<1>16. \A m \in M : z.inDegree[m] = Len(Keep(Edges(g), Unsorted(z.sorted, m)))
  <2> SUFFICES ASSUME NEW m \in M
               PROVE  z.inDegree[m] = Len(Keep(Edges(g), Unsorted(z.sorted, m)))
      OBVIOUS
  <2> DEFINE c == Len(Keep(F, To(g, m)))
             b == Len(Keep(Edges(g), Unsorted(y.sorted, m)))
  <2>1. /\ z.inDegree[m] + c = k.inDegree[m] /\ k.inDegree[m] = b + c /\ c \in Nat /\ b \in Nat
        /\ z.inDegree[m] \in Int
      BY <1>2, <1>7, <1>15 DEF KahnState
  <2> HIDE DEF b, c
  <2>2. z.inDegree[m] = b
      BY <2>1
  <2> QED BY <1>15, <2>2 DEF b
<1>17. AfterFeeders(g, z.sorted) /\ Len(z.sorted) = Len(k.sorted) + 1
  <2> DEFINE s == k.sorted
             l == Len(k.sorted)
             w == Append(s, v)
  <2>1. l \in Nat /\ Len(w) = l + 1 /\ w[l + 1] = v /\ \A i \in 1 .. l : w[i] = s[i]
    <3>1. PICK A : A = M
        OBVIOUS
    <3>2. s \in Seq(A) /\ v \in A
        BY <1>1, <1>2, <3>1
    <3> QED BY <3>2
  <2>2. \A x : x \in ToSet(s) <=> \E i \in 1 .. l : s[i] = x
      BY <1>1, ListOf
  <2>3. z.sorted = w
      BY <1>2, <1>15
  <2>4. \A e \in Feeding(g) : e[2] = v => e[1] \in ToSet(s)
    <3> SUFFICES ASSUME NEW e \in Feeding(g), e[2] = v, e[1] \notin ToSet(s) PROVE FALSE
        OBVIOUS
    <3>1. Len(Keep(Edges(g), Unsorted(s, v))) = 0
        BY <1>2, <1>7
    <3>2. e \in ToSet(Edges(g)) /\ e \in Ids \X Ids /\ Edges(g) \in Seq(Ids \X Ids)
        BY EdgesType
    <3>3. e \in Unsorted(s, v)
        BY <3>2 DEF Unsorted
    <3>4. ToSet(Edges(g)) \cap Unsorted(s, v) = {}
      <4>1. PICK A : A = Ids \X Ids
          OBVIOUS
      <4> QED BY <3>1, <3>2, <4>1, KeepsSome
    <3> QED BY <3>2, <3>3, <3>4
  <2>5. \A j \in 1 .. l : \A e \in Feeding(g) :
          e[2] = s[j] => \E i \in 1 .. l : i < j /\ s[i] = e[1]
      BY <1>1 DEF AfterFeeders
  <2> HIDE DEF s, l, w
  <2>6. ASSUME NEW j \in 1 .. l + 1, NEW e \in Feeding(g), e[2] = w[j]
        PROVE  \E i \in 1 .. l + 1 : i < j /\ w[i] = e[1]
    <3>1. CASE j \in 1 .. l
      <4>1. e[2] = s[j]
          BY <2>1, <2>6, <3>1
      <4>2. PICK i \in 1 .. l : i < j /\ s[i] = e[1]
          BY <2>5, <3>1, <4>1
      <4>3. i \in 1 .. l + 1 /\ w[i] = e[1]
          BY <2>1, <4>2
      <4> QED BY <4>2, <4>3
    <3>2. CASE j = l + 1
      <4>1. e[1] \in ToSet(s)
          BY <2>1, <2>4, <2>6, <3>2
      <4>2. PICK i \in 1 .. l : s[i] = e[1]
          BY <2>2, <4>1
      <4>3. i \in 1 .. l + 1 /\ i < j /\ w[i] = e[1]
          BY <2>1, <3>2, <4>2
      <4> QED BY <4>3
    <3> QED BY <2>1, <3>1, <3>2
  <2>7. AfterFeeders(g, w)
      BY <2>1, <2>6 DEF AfterFeeders
  <2> QED BY <2>1, <2>3, <2>7 DEF l
<1> QED BY <1>15, <1>16, <1>17 DEF KahnInv, z

(* A step with nothing ready changes nothing.                              *)
LEMMA KahnKeeps ==
  ASSUME NEW g \in GraphType, NEW k, KahnInv(g, k)
  PROVE  KahnInv(g, KahnStep(g, k))
<1>1. CASE k.queue = << >>
    BY <1>1 DEF KahnStep
<1>2. CASE k.queue # << >>
    BY <1>2, KahnGoesOn
<1> QED BY <1>1, <1>2

Goes(a, g) ==
  a[0] = KahnStart(g) /\ \A i \in 1 .. Len(g.modules) : a[i] = KahnStep(g, a[i - 1])

(* topologicalSort is one such step after the other, one per module.       *)
LEMMA KahnSteps ==
  ASSUME NEW g \in GraphType, Distinct(g.modules)
  PROVE  \E a \in [0 .. Len(g.modules) -> {k \in KahnState(g) : KahnInv(g, k)}] :
           Goes(a, g) /\ TopologicalSort(g) = a[Len(g.modules)].sorted
<1> DEFINE n == Len(g.modules)
           S == {k \in KahnState(g) : KahnInv(g, k)}
           Step(f, i) == IF i = 0 THEN KahnStart(g) ELSE KahnStep(g, f[i - 1])
           after == CHOOSE f : f = [i \in 0 .. n |-> Step(f, i)]
           step == [i \in 1 .. n |-> [x \in S |-> KahnStep(g, x)]]
<1>1. n \in Nat
    BY EdgesType
<1>2. TopologicalSort(g) = after[n].sorted
    BY DEF TopologicalSort
<1>20. KahnStart(g) \in S
    BY KahnStarts DEF KahnInv
<1>21. \A x \in S : KahnStep(g, x) \in S
    BY KahnKeeps DEF KahnInv
<1> HIDE DEF n, S
<1>3. \A i \in 1 .. n, x \in S : step[i][x] = KahnStep(g, x)
    OBVIOUS
<1>4. \A i \in 1 .. n, x \in S : step[i][x] \in S
    BY <1>3, <1>21
<1> HIDE DEF step
<1>5. PICK a \in [0 .. n -> S] : Runs(a, KahnStart(g), step, n)
    BY <1>1, <1>4, <1>20, StepByStep
<1>6. \A i \in 1 .. n : i - 1 \in 0 .. n /\ i # 0 /\ a[i - 1] \in S
    BY <1>1, <1>5
<1>7. \A i \in 1 .. n : a[i] = KahnStep(g, a[i - 1])
    BY <1>3, <1>5, <1>6 DEF Runs
<1>8. a = [i \in 0 .. n |-> Step(a, i)]
  <2>1. ASSUME NEW i \in 0 .. n PROVE a[i] = Step(a, i)
    <3>1. CASE i = 0
        BY <1>5, <3>1 DEF Runs
    <3>2. CASE i # 0
      <4>1. i \in 1 .. n
          BY <1>1, <3>2
      <4> QED BY <1>7, <3>2, <4>1
    <3> QED BY <3>1, <3>2
  <2>2. a = [i \in 0 .. n |-> a[i]]
      BY <1>5
  <2> HIDE DEF Step
  <2> QED BY <2>1, <2>2
<1>9. after = [i \in 0 .. n |-> Step(after, i)]
  <2> HIDE DEF Step
  <2> QED BY <1>8
<1> HIDE DEF after
<1>10. ASSUME NEW i \in 0 .. n PROVE after[i] = Step(after, i)
  <2> HIDE DEF Step
  <2> QED BY <1>9
<1> DEFINE T == {i \in 0 .. n : after[i] = a[i]}
<1>11. 0 \in T
  <2>1. 0 \in 0 .. n
      BY <1>1
  <2>2. after[0] = KahnStart(g)
      BY <1>10, <2>1
  <2> QED BY <1>5, <2>1, <2>2 DEF Runs
<1>12. ASSUME NEW j \in 0 .. n - 1, j \in T PROVE j + 1 \in T
  <2>1. j + 1 \in 1 .. n /\ j + 1 \in 0 .. n /\ j + 1 # 0 /\ (j + 1) - 1 = j
      BY <1>1
  <2>2. after[j + 1] = KahnStep(g, after[j])
      BY <1>10, <2>1
  <2> QED BY <1>7, <1>12, <2>1, <2>2
<1> HIDE DEF T
<1>13. \A j \in 0 .. n : j \in T
    BY <1>1, <1>11, <1>12, UpTo
<1>14. after[n] = a[n]
    BY <1>1, <1>13 DEF T
<1>15. Goes(a, g)
    BY <1>5, <1>7 DEF Goes, Runs, n
<1> QED BY <1>2, <1>5, <1>14, <1>15 DEF n, S

(* As many steps as there are modules: either all are sorted or nothing is *)
(* ready any more.                                                         *)
LEMMA KahnEnds ==
  ASSUME NEW g \in GraphType, Distinct(g.modules)
  PROVE  \E k : /\ KahnInv(g, k) /\ TopologicalSort(g) = k.sorted
                /\ k.queue = << >> \/ Len(k.sorted) = Len(g.modules)
<1> DEFINE n == Len(g.modules)
<1>1. PICK a \in [0 .. n -> {k \in KahnState(g) : KahnInv(g, k)}] :
        Goes(a, g) /\ TopologicalSort(g) = a[n].sorted
    BY KahnSteps
<1>2. n \in Nat
    BY EdgesType
<1>3. \A i \in 0 .. n : KahnInv(g, a[i])
    BY <1>1
<1>4. a[0] = KahnStart(g) /\ \A i \in 1 .. n : a[i] = KahnStep(g, a[i - 1])
    BY <1>1 DEF Goes
<1> HIDE DEF n
<1> DEFINE T == {i \in 0 .. n : a[i].queue = << >> \/ Len(a[i].sorted) = i}
<1>5. 0 \in T
  <2>1. a[0].sorted = << >>
      BY <1>4 DEF KahnStart
  <2> QED BY <1>2, <2>1
<1>6. ASSUME NEW i \in 0 .. n - 1, i \in T PROVE i + 1 \in T
  <2>1. i + 1 \in 1 .. n /\ i + 1 \in 0 .. n /\ (i + 1) - 1 = i /\ i \in 0 .. n
      BY <1>2
  <2>2. a[i + 1] = KahnStep(g, a[i]) /\ KahnInv(g, a[i])
      BY <1>3, <1>4, <2>1
  <2>3. CASE a[i].queue = << >>
      BY <2>1, <2>2, <2>3 DEF KahnStep
  <2>4. CASE a[i].queue # << >>
    <3>1. Len(a[i].sorted) = i
        BY <1>6, <2>4
    <3>2. Len(KahnStep(g, a[i]).sorted) = Len(a[i].sorted) + 1
        BY <2>2, <2>4, KahnGoesOn
    <3> QED BY <2>1, <2>2, <3>1, <3>2
  <2> QED BY <2>3, <2>4
<1> HIDE DEF T
<1>7. \A i \in 0 .. n : i \in T
    BY <1>2, <1>5, <1>6, UpTo
<1>8. a[n].queue = << >> \/ Len(a[n].sorted) = n
    BY <1>2, <1>7 DEF T
<1>9. KahnInv(g, a[n])
    BY <1>2, <1>3
<1> QED BY <1>1, <1>8, <1>9 DEF n

LEMMA SortIsSound ==
  ASSUME NEW g \in GraphType, Distinct(g.modules)
  PROVE  /\ TopologicalSort(g) \in Seq(Ids)
         /\ HasCycle(g) => Len(TopologicalSort(g)) # Len(g.modules)
         /\ ~ HasCycle(g) => /\ Len(TopologicalSort(g)) = Len(g.modules)
                             /\ ToSet(TopologicalSort(g)) = ToSet(g.modules)
                             /\ \A e \in Feeding(g) : Precedes(TopologicalSort(g), e[1], e[2])
<1>1. PICK k : /\ KahnInv(g, k) /\ TopologicalSort(g) = k.sorted
               /\ k.queue = << >> \/ Len(k.sorted) = Len(g.modules)
    BY KahnEnds
<1> DEFINE s == k.sorted
           M == Modules(g)
           n == Len(g.modules)
<1>2. s \in Seq(M) /\ Distinct(s) /\ AfterFeeders(g, s)
    BY <1>1 DEF KahnInv, KahnState, Apart
<1>3. M \subseteq Ids /\ g.modules \in Seq(Ids)
    BY EdgesType
<1>4. n = Cardinality(M) /\ IsFiniteSet(M) /\ n \in Nat
    BY <1>3, CountDistinct DEF Modules
<1>5. Len(s) = Cardinality(ToSet(s)) /\ ToSet(s) \subseteq M
  <2> HIDE DEF s, M
  <2> QED BY <1>2, CountDistinct, ListOf
<1>6. Len(s) = n => ToSet(s) = M
    BY <1>4, <1>5, FS_Subset
<1>7. \A e \in Feeding(g) : e[1] \in M /\ e[2] \in M
    BY EdgesType DEF IsEdge, HasModule, Modules
<1>8. Len(s) \in Nat /\ \A x : x \in ToSet(s) <=> \E i \in 1 .. Len(s) : s[i] = x
  <2> HIDE DEF s, M
  <2> QED BY <1>2, ListOf
<1>9. ASSUME Len(s) = n
      PROVE  /\ ~ HasCycle(g)
             /\ \A e \in Feeding(g) : Precedes(s, e[1], e[2])
  <2>1. ToSet(s) = M
      BY <1>6, <1>9
  <2>2. \A j \in 1 .. Len(s) : \A e \in Feeding(g) :
          e[2] = s[j] => \E i \in 1 .. Len(s) : i < j /\ s[i] = e[1]
      BY <1>2 DEF AfterFeeders
  <2>3. DOMAIN s = 1 .. Len(s)
      BY <1>2
  <2> HIDE DEF s, M, n
  <2>4. ASSUME NEW e \in Feeding(g) PROVE Precedes(s, e[1], e[2])
    <3>1. PICK j \in 1 .. Len(s) : s[j] = e[2]
        BY <1>7, <1>8, <2>1
    <3>2. PICK i \in 1 .. Len(s) : i < j /\ s[i] = e[1]
        BY <2>2, <3>1
    <3> QED BY <2>3, <3>1, <3>2 DEF Precedes
  <2>5. ~ HasCycle(g)
    <3> SUFFICES ASSUME HasCycle(g) PROVE FALSE
        OBVIOUS
    <3>1. PICK S \in SUBSET {e[2] : e \in Feeding(g)} :
            S # {} /\ \A x \in S : \E m \in S : <<m, x>> \in Feeding(g)
        BY DEF HasCycle
    <3>2. S \subseteq M
        BY <1>7, <3>1
    <3> DEFINE J == {j \in 1 .. Len(s) : s[j] \in S}
    <3>3. J # {}
        BY <1>8, <2>1, <3>1, <3>2
    <3>4. J \in SUBSET Nat
        BY <1>8
    <3>5. \A j \in J : j \in 1 .. Len(s) /\ s[j] \in S
        OBVIOUS
    <3>6. \A j \in 1 .. Len(s) : s[j] \in S => j \in J
        OBVIOUS
    <3> HIDE DEF J
    <3>7. PICK j \in J : \A i \in J : j <= i
        BY <3>3, <3>4, LeastNumber
    <3>8. PICK m \in S : <<m, s[j]>> \in Feeding(g)
        BY <3>1, <3>5
    <3>9. PICK i \in 1 .. Len(s) : i < j /\ s[i] = m
      <4>1. PICK e \in Feeding(g) : e[1] = m /\ e[2] = s[j]
          BY <3>8
      <4> QED BY <2>2, <3>5, <4>1
    <3>10. i \in J /\ j <= i
        BY <3>6, <3>7, <3>9
    <3> QED BY <1>8, <3>5, <3>9, <3>10
  <2> QED BY <2>4, <2>5
<1>10. ASSUME Len(s) # n PROVE HasCycle(g)
  <2> DEFINE R == M \ ToSet(s)
  <2>1. R # {}
    <3> HIDE DEF s, M, n
    <3>1. R = {} => ToSet(s) = M
        BY <1>5
    <3> QED BY <1>4, <1>5, <1>10, <3>1
  <2>2. ASSUME NEW x \in R PROVE \E m \in R : <<m, x>> \in Feeding(g)
    <3>1. x \notin Reached(k)
      <4>1. ToSet(k.queue) = {}
          BY <1>1, <1>10 DEF ToSet
      <4> QED BY <4>1 DEF Reached
    <3>2. /\ k.inDegree[x] # 0
          /\ k.inDegree[x] = Len(Keep(Edges(g), Unsorted(s, x)))
        BY <1>1, <3>1 DEF KahnInv
    <3>3. ToSet(Edges(g)) \cap Unsorted(s, x) # {}
      <4>1. PICK A : A = Ids \X Ids
          OBVIOUS
      <4>2. Edges(g) \in Seq(A)
          BY <4>1, EdgesType
      <4> QED BY <3>2, <4>2, KeepsSome
    <3>4. PICK e \in ToSet(Edges(g)) : e \in Unsorted(s, x)
        BY <3>3
    <3>5. e \in Feeding(g) /\ e \in Ids \X Ids
        BY <3>4, EdgesType
    <3>6. e[2] = x /\ e[1] \notin ToSet(s) /\ e = <<e[1], e[2]>> /\ e[1] \in M
        BY <1>7, <3>4, <3>5 DEF Unsorted
    <3> QED BY <3>5, <3>6
  <2>3. R \in SUBSET {e[2] : e \in Feeding(g)}
    <3>1. ASSUME NEW x \in R PROVE x \in {e[2] : e \in Feeding(g)}
      <4>1. PICK m \in R : <<m, x>> \in Feeding(g)
          BY <2>2
      <4>2. PICK e \in Feeding(g) : e[2] = x
          BY <4>1
      <4> QED BY <4>2
    <3> HIDE DEF R
    <3> QED BY <3>1
  <2> HIDE DEF R
  <2> QED BY <2>1, <2>2, <2>3 DEF HasCycle
<1>11. s \in Seq(Ids)
  <2> HIDE DEF s, M
  <2> QED BY <1>2, <1>3, <1>5, OwnElements
<1>12. TopologicalSort(g) = s
    BY <1>1
<1> HIDE DEF s
<1> QED BY <1>6, <1>9, <1>10, <1>11, <1>12 DEF n, Modules

(***************************************************************************)
(* The cached order of any graph without doubles is sound.                 *)
(***************************************************************************)
LEMMA UpdateOrders ==
  ASSUME NEW g \in GraphType, Distinct(g.modules)
  PROVE  /\ UpdateExecutionOrder(g) \in GraphType
         /\ UpdateExecutionOrder(g).modules = g.modules
         /\ UpdateExecutionOrder(g).connections = g.connections
         /\ UpdateExecutionOrder(g).links = g.links
         /\ OrderIsSound(UpdateExecutionOrder(g))
<1> DEFINE t == TopologicalSort(g)
           o == IF Len(t) = Len(g.modules) THEN t ELSE << >>
           h == UpdateExecutionOrder(g)
<1>1. t \in Seq(Ids)
    BY SortIsSound
<1>2. h = [g EXCEPT !.order = o]
    BY DEF UpdateExecutionOrder
<1>3. o \in Seq(Ids)
    BY <1>1
<1>4. /\ HasCycle(g) => o = << >>
      /\ ~ HasCycle(g) => /\ Len(o) = Len(g.modules)
                          /\ ToSet(o) = ToSet(g.modules)
                          /\ \A e \in Feeding(g) : Precedes(o, e[1], e[2])
    BY SortIsSound
<1> HIDE DEF o, h
<1>5. h \in GraphType /\ h.modules = g.modules /\ h.connections = g.connections
      /\ h.links = g.links /\ h.order = o
    BY <1>2, <1>3 DEF GraphType
<1>6. Edges(h) = Edges(g)
  <2>1. \A c : IsEdge(h, c) <=> IsEdge(g, c)
      BY <1>5 DEF IsEdge, HasModule
  <2>2. {c \in ToSet(h.connections) : IsEdge(h, c)} = {c \in ToSet(g.connections) : IsEdge(g, c)}
      BY <1>5, <2>1
  <2> QED BY <1>5, <2>2 DEF Edges
<1>7. Feeding(h) = Feeding(g)
    BY <1>6 DEF Feeding
<1>8. HasCycle(h) <=> HasCycle(g)
    BY <1>7 DEF HasCycle
<1>9. OrderIsSound(h)
    BY <1>4, <1>5, <1>7, <1>8 DEF OrderIsSound
<1> QED BY <1>5, <1>9 DEF h

-----------------------------------------------------------------------------
(***************************************************************************)
(* The operations on a graph.  Its modules are told apart and older than   *)
(* n; d are the pairs that were connected twice at a time.                 *)
(***************************************************************************)
(* A pair that is not in d is listed once, and its link is there.          *)
Carries(g, d) ==
  \A c \in ToSet(g.connections) :
    c \notin d => c \in ToSet(g.links) /\ Count(g.connections, c) = 1

(* Nothing of the graph is as new as n, links of removed modules neither.  *)
Older(g, n) ==
  /\ \A m \in ToSet(g.modules) : m < n
  /\ \A l \in ToSet(g.links) : l[1] < n /\ l[2] < n

(* A link between two modules of the graph is listed.                      *)
LinksListed(g) ==
  \A l \in ToSet(g.links) :
    HasModule(g, l[1]) /\ HasModule(g, l[2]) => Count(g.links, l) <= Count(g.connections, l)

Wired(g, n, d) ==
  g \in GraphType /\ Distinct(g.modules) /\ Older(g, n) /\ LinksListed(g) /\ Carries(g, d)

(* Modules of the graph and those that its links lead to; a graph h has    *)
(* none more than g but n.                                                 *)
TargetsOf(g) == {l[2] : l \in ToSet(g.links)}
Holds(g) == ToSet(g.modules) \cup TargetsOf(g)
Grows(g, h, n) ==
  /\ ToSet(h.modules) \subseteq ToSet(g.modules) \cup {n}
  /\ Holds(h) \subseteq Holds(g) \cup {n}

(* Every operation ends with updateExecutionOrder.                         *)
LEMMA OrderedAgain ==
  ASSUME NEW g, NEW n, NEW d, Wired(g, n, d)
  PROVE  /\ Wired(UpdateExecutionOrder(g), n, d) /\ OrderIsSound(UpdateExecutionOrder(g))
         /\ UpdateExecutionOrder(g).modules = g.modules
         /\ UpdateExecutionOrder(g).connections = g.connections
         /\ UpdateExecutionOrder(g).links = g.links
<1>1. PICK h : h = UpdateExecutionOrder(g)
    OBVIOUS
<1>2. g \in GraphType /\ Distinct(g.modules)
    BY DEF Wired
<1>3. /\ h \in GraphType /\ h.modules = g.modules /\ h.connections = g.connections
      /\ h.links = g.links /\ OrderIsSound(h)
    BY <1>1, <1>2, UpdateOrders
<1>4. Wired(h, n, d)
    BY <1>3 DEF Wired, Older, LinksListed, Carries, HasModule
<1> QED BY <1>1, <1>3, <1>4

(* Newer modules and more pairs in d do no harm.                           *)
LEMMA WiredLater ==
  ASSUME NEW g, NEW n \in Int, NEW m \in Int, NEW d, NEW e, Wired(g, n, d), n <= m, d \subseteq e,
         Ids \subseteq Int
  PROVE  Wired(g, m, e)
<1>1. /\ \A x \in ToSet(g.modules) : x \in Int
      /\ \A l \in ToSet(g.links) : l[1] \in Int /\ l[2] \in Int
  <2>1. g.modules \in Seq(Ids) /\ g.links \in Seq(Ids \X Ids)
      BY DEF Wired, GraphType
  <2>2. \A l \in ToSet(g.links) : l \in Ids \X Ids
      BY <2>1, ListOf
  <2>3. \A x \in ToSet(g.modules) : x \in Ids
      BY <2>1, ListOf
  <2> QED BY <2>2, <2>3
<1>2. Older(g, m)
    BY <1>1 DEF Wired, Older
<1>3. Carries(g, e)
    BY DEF Wired, Carries
<1> QED BY <1>2, <1>3 DEF Wired

(* The graph without modules.                                              *)
LEMMA NothingWired ==
  ASSUME NEW n, NEW d
  PROVE  /\ Wired(EmptyGraph, n, d) /\ OrderIsSound(EmptyGraph)
         /\ \A g : Grows(g, EmptyGraph, n)
<1>1. /\ EmptyGraph.modules = << >> /\ EmptyGraph.links = << >>
      /\ EmptyGraph.connections = << >> /\ EmptyGraph.order = << >>
    BY DEF EmptyGraph
<1>2. PICK A : A = Ids \X Ids
    OBVIOUS
<1>3. << >> \in Seq(Ids) /\ << >> \in Seq(A)
    BY NoItems
<1>4. EmptyGraph \in GraphType
    BY <1>2, <1>3 DEF EmptyGraph, GraphType
<1>5. Distinct(EmptyGraph.modules)
    BY <1>1 DEF Distinct
<1>6. ToSet(<< >>) = {}
    BY DEF ToSet
<1>7. Older(EmptyGraph, n) /\ Carries(EmptyGraph, d)
    BY <1>1, <1>6 DEF Older, Carries
<1>8. ToSet(EmptyGraph.links) = {}
    BY <1>1, <1>6
<1>9. LinksListed(EmptyGraph)
    BY <1>8 DEF LinksListed
<1>10. Feeding(EmptyGraph) = {}
    BY <1>1, <1>4, <1>6, EdgesType
<1>11. ~ HasCycle(EmptyGraph)
    BY <1>10 DEF HasCycle
<1>12. OrderIsSound(EmptyGraph)
    BY <1>1, <1>10, <1>11 DEF OrderIsSound
<1>13. \A g : Grows(g, EmptyGraph, n)
    BY <1>1, <1>6, <1>8 DEF Grows, Holds, TargetsOf
<1> QED BY <1>4, <1>5, <1>7, <1>9, <1>12, <1>13 DEF Wired

(* addModule: nothing is linked yet to a module that is new.               *)
LEMMA AddKeeps ==
  ASSUME NEW g, NEW n \in Ids, NEW d, Wired(g, n, d), Ids \subseteq Int
  PROVE  /\ Wired(AddModule(g, n), n + 1, d) /\ OrderIsSound(AddModule(g, n))
         /\ AddModule(g, n).modules = Append(g.modules, n)
         /\ Grows(g, AddModule(g, n), n)
<1> DEFINE q == Append(g.modules, n)
<1>1. g \in GraphType /\ Distinct(g.modules) /\ Older(g, n) /\ LinksListed(g) /\ Carries(g, d)
    BY DEF Wired
<1>2. g.modules \in Seq(Ids) /\ g.links \in Seq(Ids \X Ids)
    BY <1>1 DEF GraphType
<1>3. q \in Seq(Ids) /\ ToSet(q) = ToSet(g.modules) \cup {n}
    BY <1>2, Appended
<1>4. n \notin ToSet(g.modules) /\ \A l \in ToSet(g.links) : l[1] # n /\ l[2] # n
    BY <1>1 DEF Older
<1>5. Distinct(q)
    BY <1>1, <1>2, <1>4, Appended
<1>6. PICK h : h = [g EXCEPT !.modules = q]
    OBVIOUS
<1> HIDE DEF q
<1>7. /\ h \in GraphType /\ h.modules = q /\ h.connections = g.connections
      /\ h.links = g.links
    BY <1>1, <1>3, <1>6 DEF GraphType
<1>8. Older(h, n + 1)
  <2>1. \A m \in ToSet(g.modules) : m \in Ids
      BY <1>2, ListOf
  <2>2. \A l \in ToSet(g.links) : l \in Ids \X Ids
      BY <1>2, ListOf
  <2>3. \A l \in ToSet(g.links) : l[1] \in Int /\ l[2] \in Int
      BY <2>2
  <2>4. \A l \in ToSet(g.links) : l[1] < n + 1 /\ l[2] < n + 1
      BY <1>1, <2>3 DEF Older
  <2>5. ASSUME NEW m \in ToSet(q) PROVE m < n + 1
    <3>1. m \in Int /\ n \in Int
        BY <1>3, <2>1
    <3>2. m < n \/ m = n
        BY <1>1, <1>3 DEF Older
    <3> QED BY <3>1, <3>2
  <2> QED BY <1>7, <2>4, <2>5 DEF Older
<1>9. LinksListed(h)
  <2>1. \A m : HasModule(h, m) <=> HasModule(g, m) \/ m = n
      BY <1>3, <1>7 DEF HasModule
  <2> QED BY <1>1, <1>4, <1>7, <2>1 DEF LinksListed
<1>10. Carries(h, d)
    BY <1>1, <1>7 DEF Carries
<1>11. Wired(h, n + 1, d)
    BY <1>5, <1>7, <1>8, <1>9, <1>10 DEF Wired
<1>12. PICK r : r = AddModule(g, n)
    OBVIOUS
<1>13. r = UpdateExecutionOrder(h)
    BY <1>6, <1>12 DEF AddModule, q
<1>14. /\ Wired(r, n + 1, d) /\ OrderIsSound(r)
       /\ r.modules = h.modules /\ r.links = h.links
    BY <1>11, <1>13, OrderedAgain
<1>15. Grows(g, r, n)
    BY <1>3, <1>7, <1>14 DEF Grows, Holds, TargetsOf
<1> QED BY <1>7, <1>12, <1>14, <1>15 DEF q

(* removeModule: what does not touch the module stays as often as it was.  *)
LEMMA RemoveKeeps ==
  ASSUME NEW g, NEW n, NEW m, NEW d, Wired(g, n, d)
  PROVE  /\ Wired(RemoveModule(g, m), n, d) /\ OrderIsSound(RemoveModule(g, m))
         /\ Grows(g, RemoveModule(g, m), n)
<1> DEFINE S == ToSet(g.modules) \ {m}
           R == {c \in ToSet(g.connections) : ~ Touches(c, m)}
           q == Keep(g.modules, S)
           r == Keep(g.connections, R)
<1>1. g \in GraphType /\ Distinct(g.modules) /\ Older(g, n) /\ LinksListed(g) /\ Carries(g, d)
    BY DEF Wired
<1>2. g.modules \in Seq(Ids) /\ g.links \in Seq(Ids \X Ids) /\ g.connections \in Seq(Ids \X Ids)
    BY <1>1 DEF GraphType
<1>3. q \in Seq(Ids) /\ ToSet(q) = S /\ Distinct(q)
    BY <1>1, <1>2, KeepKeeps
<1>4. \A c : c \in R <=> c \in ToSet(g.connections) /\ ~ Touches(c, m)
    OBVIOUS
<1>5. \A x : x \in S <=> x \in ToSet(g.modules) /\ x # m
    OBVIOUS
<1> HIDE DEF R
<1>6. r \in Seq(Ids \X Ids) /\ ToSet(r) = ToSet(g.connections) \cap R
    BY <1>2, KeepKeeps
<1>7. ASSUME NEW c, ~ Touches(c, m) PROVE Count(r, c) = Count(g.connections, c)
  <2>1. PICK A : A = Ids \X Ids
      OBVIOUS
  <2>2. PICK w \in Seq(A) : w = g.connections
      BY <1>2, <2>1
  <2>3. Keep(Keep(w, R), {c}) = Keep(w, R \cap {c})
      BY KeepTwice
  <2>4. ToSet(w) \cap (R \cap {c}) = ToSet(w) \cap {c}
      BY <1>4, <1>7, <2>2
  <2>5. Keep(w, R \cap {c}) = Keep(w, {c})
      BY <2>4, KeepAlike
  <2> QED BY <2>2, <2>3, <2>5 DEF Count
<1>8. PICK h : h = [g EXCEPT !.modules = q, !.connections = r]
    OBVIOUS
<1> HIDE DEF q, r, S
<1>9. /\ h \in GraphType /\ h.modules = q /\ h.connections = r /\ h.links = g.links
    BY <1>1, <1>3, <1>6, <1>8 DEF GraphType
<1>10. Older(h, n)
    BY <1>1, <1>3, <1>5, <1>9 DEF Older
<1>11. LinksListed(h)
  <2>1. \A x : HasModule(h, x) <=> HasModule(g, x) /\ x # m
      BY <1>3, <1>5, <1>9 DEF HasModule
  <2>2. \A l : l[1] # m /\ l[2] # m => ~ Touches(l, m)
      BY DEF Touches
  <2> QED BY <1>1, <1>7, <1>9, <2>1, <2>2 DEF LinksListed
<1>12. Carries(h, d)
    BY <1>1, <1>4, <1>6, <1>7, <1>9 DEF Carries
<1>13. Wired(h, n, d)
    BY <1>3, <1>9, <1>10, <1>11, <1>12 DEF Wired
<1>14. PICK z : z = RemoveModule(g, m)
    OBVIOUS
<1>15. z = UpdateExecutionOrder(h)
    BY <1>8, <1>14 DEF RemoveModule, q, r, S, R
<1>16. /\ Wired(z, n, d) /\ OrderIsSound(z)
       /\ z.modules = h.modules /\ z.links = h.links
    BY <1>13, <1>15, OrderedAgain
<1>17. Grows(g, z, n)
    BY <1>3, <1>5, <1>9, <1>16 DEF Grows, Holds, TargetsOf
<1> QED BY <1>14, <1>16, <1>17

(* The elements of a list by how often they are in it.                     *)
LEMMA CountsTell ==
  ASSUME NEW A, NEW s \in Seq(A), NEW x
  PROVE  Count(s, x) \in Nat /\ (x \in ToSet(s) <=> Count(s, x) >= 1)
<1>1. Count(s, x) \in Nat /\ (Count(s, x) = 0 <=> ToSet(s) \cap {x} = {})
    BY KeepsSome DEF Count
<1> QED BY <1>1

(* connect: the connection and the link are added together.                *)
LEMMA ConnectKeeps ==
  ASSUME NEW g, NEW n, NEW d, Wired(g, n, d), NEW c \in Ids \X Ids,
         HasModule(g, c[1]), HasModule(g, c[2]),
         NEW e, d \subseteq e, HasConnection(g, c) => c \in e
  PROVE  /\ Wired(Connect(g, c), n, e) /\ OrderIsSound(Connect(g, c))
         /\ Connect(g, c).modules = g.modules
         /\ Grows(g, Connect(g, c), n)
<1> DEFINE q == Append(g.connections, c)
           r == Append(g.links, c)
<1>1. g \in GraphType /\ Distinct(g.modules) /\ Older(g, n) /\ LinksListed(g) /\ Carries(g, d)
    BY DEF Wired
<1>2. PICK A : A = Ids \X Ids
    OBVIOUS
<1>3. PICK w \in Seq(A) : w = g.connections
    BY <1>1, <1>2 DEF GraphType
<1>4. PICK v \in Seq(A) : v = g.links
    BY <1>1, <1>2 DEF GraphType
<1>5. /\ Append(w, c) \in Seq(A) /\ ToSet(Append(w, c)) = ToSet(w) \cup {c}
      /\ Append(v, c) \in Seq(A) /\ ToSet(Append(v, c)) = ToSet(v) \cup {c}
    BY <1>2, Appended
<1>6. \A l : /\ Count(Append(w, c), l) = IF c = l THEN Count(w, l) + 1 ELSE Count(w, l)
             /\ Count(Append(v, c), l) = IF c = l THEN Count(v, l) + 1 ELSE Count(v, l)
    BY <1>2, CountAppended DEF Count
<1>7. /\ q \in Seq(A) /\ ToSet(q) = ToSet(w) \cup {c}
      /\ r \in Seq(A) /\ ToSet(r) = ToSet(v) \cup {c}
      /\ \A l : /\ Count(q, l) = IF c = l THEN Count(w, l) + 1 ELSE Count(w, l)
                /\ Count(r, l) = IF c = l THEN Count(v, l) + 1 ELSE Count(v, l)
    BY <1>3, <1>4, <1>5, <1>6
<1>8. PICK h : h = [g EXCEPT !.connections = q, !.links = r]
    OBVIOUS
<1> HIDE DEF q, r
<1>9. /\ h \in GraphType /\ h.modules = g.modules /\ h.connections = q /\ h.links = r
    BY <1>1, <1>2, <1>7, <1>8 DEF GraphType
<1>10. Older(h, n)
    BY <1>1, <1>4, <1>7, <1>9 DEF Older, HasModule
<1>11. \A l : Count(w, l) \in Nat /\ Count(v, l) \in Nat
              /\ (l \in ToSet(w) <=> Count(w, l) >= 1) /\ (l \in ToSet(v) <=> Count(v, l) >= 1)
    BY CountsTell
<1>12. LinksListed(h)
  <2>1. ASSUME NEW l \in ToSet(h.links), HasModule(h, l[1]), HasModule(h, l[2])
        PROVE  Count(h.links, l) <= Count(h.connections, l)
    <3>1. HasModule(g, l[1]) /\ HasModule(g, l[2])
        BY <1>9, <2>1 DEF HasModule
    <3>2. l \in ToSet(v) => Count(v, l) <= Count(w, l)
        BY <1>1, <1>3, <1>4, <3>1 DEF LinksListed
    <3>3. Count(v, l) <= Count(w, l)
        BY <1>11, <3>2
    <3> QED BY <1>7, <1>9, <1>11, <3>3
  <2> QED BY <1>9, <2>1 DEF LinksListed
<1>13. Carries(h, e)
  <2>1. ASSUME NEW l \in ToSet(q), l \notin e
        PROVE  l \in ToSet(r) /\ Count(q, l) = 1
    <3>1. CASE l = c
      <4>1. Count(w, l) = 0
          BY <1>3, <1>11, <2>1, <3>1 DEF HasConnection
      <4> QED BY <1>7, <3>1, <4>1
    <3>2. CASE l # c
      <4>1. l \in ToSet(w) /\ l \notin d
          BY <1>7, <2>1, <3>2
      <4> QED BY <1>1, <1>3, <1>4, <1>7, <3>2, <4>1 DEF Carries
    <3> QED BY <3>1, <3>2
  <2> QED BY <1>9, <2>1 DEF Carries
<1>14. Wired(h, n, e)
    BY <1>1, <1>9, <1>10, <1>12, <1>13 DEF Wired
<1>15. PICK z : z = Connect(g, c)
    OBVIOUS
<1>16. z = UpdateExecutionOrder(h)
    BY <1>8, <1>15 DEF Connect, q, r
<1>17. /\ Wired(z, n, e) /\ OrderIsSound(z)
       /\ z.modules = h.modules /\ z.links = h.links
    BY <1>14, <1>16, OrderedAgain
<1>18. TargetsOf(z) \subseteq TargetsOf(g) \cup {c[2]}
    BY <1>4, <1>7, <1>9, <1>17 DEF TargetsOf
<1>19. Grows(g, z, n)
    BY <1>9, <1>17, <1>18 DEF Grows, Holds, HasModule
<1> QED BY <1>9, <1>15, <1>17, <1>19

(* disconnect: of a pair that is listed once, nothing stays.               *)
LEMMA DisconnectKeeps ==
  ASSUME NEW g, NEW n, NEW d, Wired(g, n, d), NEW c, HasConnection(g, c)
  PROVE  /\ Wired(Disconnect(g, c), n, d) /\ OrderIsSound(Disconnect(g, c))
         /\ Disconnect(g, c).modules = g.modules
         /\ Grows(g, Disconnect(g, c), n)
<1> DEFINE q == RemoveFirst(g.connections, c)
           R == ToSet(g.links) \ {c}
           r == Keep(g.links, R)
<1>1. g \in GraphType /\ Distinct(g.modules) /\ Older(g, n) /\ LinksListed(g) /\ Carries(g, d)
    BY DEF Wired
<1>2. PICK A : A = Ids \X Ids
    OBVIOUS
<1>3. PICK w \in Seq(A) : w = g.connections
    BY <1>1, <1>2 DEF GraphType
<1>4. PICK v \in Seq(A) : v = g.links
    BY <1>1, <1>2 DEF GraphType
<1>5. c \in ToSet(w)
    BY <1>3 DEF HasConnection
<1>6. \A S : /\ RemoveFirst(w, c) \in Seq(A)
             /\ Len(Keep(RemoveFirst(w, c), S)) \in Nat
             /\ Len(Keep(w, S)) = Len(Keep(RemoveFirst(w, c), S)) + (IF c \in S THEN 1 ELSE 0)
    BY <1>5, FirstGoesCounts
<1>7. /\ q \in Seq(A)
      /\ \A l : Count(q, l) \in Nat /\ Count(w, l) = Count(q, l) + (IF c = l THEN 1 ELSE 0)
    BY <1>3, <1>6 DEF Count
<1>8. \A x : x \in R <=> x \in ToSet(v) /\ x # c
    BY <1>4
<1> HIDE DEF R
<1>9. r \in Seq(A) /\ ToSet(r) = ToSet(v) \cap R
    BY <1>4, KeepKeeps
<1>10. ASSUME NEW l, l # c PROVE Count(r, l) = Count(v, l)
  <2>1. Keep(Keep(v, R), {l}) = Keep(v, R \cap {l})
      BY KeepTwice
  <2>2. ToSet(v) \cap (R \cap {l}) = ToSet(v) \cap {l}
      BY <1>8, <1>10
  <2>3. Keep(v, R \cap {l}) = Keep(v, {l})
      BY <2>2, KeepAlike
  <2> QED BY <1>4, <2>1, <2>3 DEF Count
<1>11. PICK h : h = [g EXCEPT !.connections = q, !.links = r]
    OBVIOUS
<1> HIDE DEF q, r
<1>12. /\ h \in GraphType /\ h.modules = g.modules /\ h.connections = q /\ h.links = r
    BY <1>1, <1>2, <1>7, <1>9, <1>11 DEF GraphType
<1>13. Older(h, n)
    BY <1>1, <1>4, <1>8, <1>9, <1>12 DEF Older
<1>14. \A l : (l \in ToSet(q) <=> Count(q, l) >= 1) /\ (l \in ToSet(w) <=> Count(w, l) >= 1)
    BY <1>7, CountsTell
<1>15. LinksListed(h)
  <2>1. ASSUME NEW l \in ToSet(h.links), HasModule(h, l[1]), HasModule(h, l[2])
        PROVE  Count(h.links, l) <= Count(h.connections, l)
    <3>1. HasModule(g, l[1]) /\ HasModule(g, l[2])
        BY <1>12, <2>1 DEF HasModule
    <3>2. l \in ToSet(v) /\ l # c
        BY <1>8, <1>9, <1>12, <2>1
    <3>3. Count(v, l) <= Count(w, l)
        BY <1>1, <1>3, <1>4, <3>1, <3>2 DEF LinksListed
    <3>4. Count(w, l) = Count(q, l)
        BY <1>7, <3>2
    <3> QED BY <1>10, <1>12, <3>2, <3>3, <3>4
  <2> QED BY <1>12, <2>1 DEF LinksListed
<1>16. Carries(h, d)
  <2>1. ASSUME NEW l \in ToSet(q), l \notin d
        PROVE  l \in ToSet(r) /\ Count(q, l) = 1
    <3>1. Count(q, l) \in Nat /\ Count(q, l) >= 1
        BY <1>7, <1>14, <2>1
    <3>2. l \in ToSet(w) /\ Count(w, l) = 1 /\ l \in ToSet(v)
      <4>1. Count(w, l) >= 1
          BY <1>7, <3>1
      <4>2. l \in ToSet(w)
          BY <1>14, <4>1
      <4> QED BY <1>1, <1>3, <1>4, <2>1, <4>2 DEF Carries
    <3>3. l # c
        BY <1>7, <3>1, <3>2
    <3> QED BY <1>7, <1>8, <1>9, <3>2, <3>3
  <2> QED BY <1>12, <2>1 DEF Carries
<1>17. Wired(h, n, d)
    BY <1>1, <1>12, <1>13, <1>15, <1>16 DEF Wired
<1>18. PICK z : z = Disconnect(g, c)
    OBVIOUS
<1>19. z = UpdateExecutionOrder(h)
    BY <1>11, <1>18 DEF Disconnect, q, r, R
<1>20. /\ Wired(z, n, d) /\ OrderIsSound(z)
       /\ z.modules = h.modules /\ z.links = h.links
    BY <1>17, <1>19, OrderedAgain
<1>21. TargetsOf(z) \subseteq TargetsOf(g)
    BY <1>4, <1>8, <1>9, <1>12, <1>20 DEF TargetsOf
<1>22. Grows(g, z, n)
    BY <1>12, <1>20, <1>21 DEF Grows, Holds
<1> QED BY <1>12, <1>18, <1>20, <1>22

-----------------------------------------------------------------------------
(***************************************************************************)
(* The session: its types, ids and graphs.                                 *)
(***************************************************************************)
Command ==
  [kind : {"create"}, type : {"filter", "instrument"}, scope : Scopes]
    \cup [kind : {"delete"}, id : TypedIds, scope : Scopes]
    \cup [kind : {"connect", "disconnect"}, pair : TypedPairs, scope : Scopes]
    \cup [kind : {"modules", "connections"}, scope : Scopes]

Event ==
  [kind : {"modules"}, modules : SUBSET Ids]
    \cup [kind : {"connections"}, names : SUBSET Ids, connections : Seq(Ids \X Ids)]

(* Commands to create a module.                                            *)
Creates == {c \in Command : c.kind = "create"}

(* The types; the scopes lead from the engine's graph to an instrument's.  *)
SessionTyped ==
  /\ commands \in Seq(Command) /\ events \in Seq(Event)
  /\ scopesList \in Seq(Scopes) /\ scopesList # << >> /\ scopesList[1] = 0
  /\ \A i \in 2 .. Len(scopesList) : scopesList[i] \in Ids
  /\ shown \in SUBSET Ids
  /\ widget \in [names : SUBSET Ids, connections : Seq(Ids \X Ids)]
  /\ refused \in BOOLEAN /\ hasty \in BOOLEAN /\ terminated \in BOOLEAN

(* Every command to create a module that is under way finds an id left.    *)
IdsSuffice ==
  /\ typed \in 0 .. MaxTyped
  /\ nextId \in Int /\ FirstId <= nextId
  /\ nextId + Len(Keep(commands, Creates)) <= FirstId + typed

(* No link leads from a graph to a module of another one, and no module is *)
(* in two of them.                                                         *)
Separate(gs) ==
  \A j, k \in Scopes : \A m \in Holds(gs[k]) : HasModule(gs[j], m) => j = k

(* Every graph, the engine's and those of the instruments.                 *)
AllWired(gs, n, d) ==
  /\ gs \in [Scopes -> GraphType]
  /\ \A k \in Scopes : Wired(gs[k], n, d) /\ OrderIsSound(gs[k])
  /\ Separate(gs)

(* The types of the modules made so far; first digits are no instruments.  *)
TypesKnown(gs, ty, n) ==
  /\ DOMAIN ty \subseteq Ids
  /\ \A m \in DOMAIN ty : m < n /\ (ty[m] = "instrument" => m >= 10)
  /\ ToSet(gs[0].modules) \subseteq DOMAIN ty

(* The inductive invariant.                                                *)
SessionInv ==
  /\ SessionTyped
  /\ IdsSuffice
  /\ AllWired(graphs, nextId, doubled)
  /\ TypesKnown(graphs, type, nextId)

(* What is assumed of the ids.                                             *)
LEMMA IdsType ==
  /\ Ids \subseteq Int /\ 0 \notin Ids /\ 0 \in Scopes /\ Ids \subseteq Scopes
  /\ FirstId \in Nat /\ MaxTyped \in Nat
  /\ \A i \in 0 .. MaxTyped : FirstId + i \in Ids
  /\ CommandRoom \in Nat /\ EventRoom \in Nat
  /\ FirstId >= 10 /\ Ids \subseteq 1 .. 99
<1>1. /\ Ids \subseteq 1 .. 99 /\ FirstId \in 10 .. 99 /\ MaxTyped \in Nat
      /\ {FirstId + i : i \in 0 .. MaxTyped} \subseteq Ids
      /\ CommandRoom \in Nat /\ EventRoom \in Nat
    BY EngineSessionAssumption
<1>2. Ids \subseteq Int /\ 0 \notin Ids
    BY <1>1
<1>3. \A i \in 0 .. MaxTyped : FirstId + i \in Ids
    BY <1>1
<1>4. FirstId \in Nat
    BY <1>1
<1> QED BY <1>1, <1>2, <1>3, <1>4 DEF Scopes

(* What a queue takes of what is put in.                                   *)
Takes(q, room, t, u) == Pushed(q, room, t) = q \o u
NoMore(u, t) == \A S : Len(Keep(u, S)) <= Len(Keep(t, S))

LEMMA PushedIs ==
  ASSUME NEW A, NEW q \in Seq(A), NEW t \in Seq(A), NEW room \in Nat
  PROVE  /\ \E u \in Seq(A) : Takes(q, room, t, u) /\ NoMore(u, t)
         /\ Len(q) + Len(t) <= room => Takes(q, room, t, t)
<1> DEFINE n == room - Len(q)
           u == SubSeq(t, 1, n)
<1>1. Len(q) \in Nat /\ Len(t) \in Nat /\ n \in Int
    OBVIOUS
<1>2. \A S : Len(Keep(t, S)) \in Nat
    BY KeepsSome
<1>3. CASE Len(q) + Len(t) <= room
  <2>1. Pushed(q, room, t) = q \o t
      BY <1>3 DEF Pushed
  <2>2. NoMore(t, t)
      BY <1>2 DEF NoMore
  <2> QED BY <2>1, <2>2 DEF Takes
<1>4. CASE ~ (Len(q) + Len(t) <= room)
  <2>1. Pushed(q, room, t) = q \o u
      BY <1>4 DEF Pushed
  <2>2. u \in Seq(A) /\ n < Len(t)
      BY <1>1, <1>4
  <2>3. ASSUME NEW S PROVE Len(Keep(u, S)) <= Len(Keep(t, S))
    <3>1. CASE n >= 0
      <4>1. n \in 0 .. Len(t) /\ u = FirstOf(t, n)
          BY <1>1, <2>2, <3>1 DEF FirstOf
      <4> HIDE DEF u, n
      <4> QED BY <4>1, FirstCounts
    <3>2. CASE n < 0
      <4>1. u = << >>
          BY <1>1, <2>2, <3>2
      <4>2. Keep(u, S) = << >>
          BY <4>1, KeepNothing
      <4>3. Len(Keep(u, S)) = 0
          BY <4>2
      <4> QED BY <1>2, <4>3
    <3> QED BY <1>1, <3>1, <3>2
  <2> HIDE DEF u
  <2> QED BY <1>4, <2>1, <2>2, <2>3 DEF Takes, NoMore
<1> QED BY <1>3, <1>4

(* The graph the TUI finds.                                                *)
LEMMA FirstWired == Wired(FirstGraph, FirstId, {}) /\ OrderIsSound(FirstGraph)
<1>1. PICK g : g = FirstGraph
    OBVIOUS
<1>2. /\ g \in GraphType /\ IsInjective(g.modules) /\ \A m \in ToSet(g.modules) : m < FirstId
      /\ \A c \in ToSet(g.connections) :
           Count(g.connections, c) = 1 /\ HasModule(g, c[1]) /\ HasModule(g, c[2])
      /\ g.links = g.connections /\ g = UpdateExecutionOrder(g)
    BY <1>1, EngineSessionAssumption DEF PutTogether
<1>3. Distinct(g.modules)
  <2>1. g.modules \in Seq(Ids)
      BY <1>2 DEF GraphType
  <2>2. DOMAIN g.modules = 1 .. Len(g.modules)
      BY <2>1
  <2> QED BY <1>2, <2>2 DEF IsInjective, Distinct
<1>4. Older(g, FirstId)
    BY <1>2 DEF Older, HasModule
<1>5. Carries(g, {})
    BY <1>2 DEF Carries
<1>6. LinksListed(g)
  <2>1. ASSUME NEW l \in ToSet(g.links) PROVE Count(g.links, l) <= Count(g.connections, l)
      BY <1>2
  <2> QED BY <1>2, <2>1 DEF LinksListed
<1>7. OrderIsSound(g)
    BY <1>2, <1>3, UpdateOrders
<1> QED BY <1>1, <1>2, <1>3, <1>4, <1>5, <1>6, <1>7 DEF Wired

(* The session starts in SessionInv.                                       *)
LEMMA SessionStarts == SessionInit => SessionInv
<1> SUFFICES ASSUME SessionInit PROVE SessionInv
    OBVIOUS
<1>1. SessionTyped
  <2>1. /\ [kind |-> "modules", scope |-> 0] \in Command
        /\ [kind |-> "connections", scope |-> 0] \in Command
      BY IdsType DEF Command
  <2>2. commands \in Seq(Command) /\ events \in Seq(Event) /\ scopesList \in Seq(Scopes)
      BY <2>1, IdsType DEF SessionInit
  <2>3. PICK A : A = Ids \X Ids
      OBVIOUS
  <2>4. << >> \in Seq(Ids \X Ids)
      BY <2>3, NoItems
  <2>5. widget \in [names : SUBSET Ids, connections : Seq(Ids \X Ids)] /\ shown \in SUBSET Ids
      BY <2>4 DEF SessionInit
  <2>6. /\ scopesList # << >> /\ scopesList[1] = 0
        /\ \A i \in 2 .. Len(scopesList) : scopesList[i] \in Ids
      BY DEF SessionInit
  <2>7. refused \in BOOLEAN /\ hasty \in BOOLEAN /\ terminated \in BOOLEAN
      BY DEF SessionInit
  <2> QED BY <2>2, <2>5, <2>6, <2>7 DEF SessionTyped
<1>2. IdsSuffice
  <2>1. /\ commands = << [kind |-> "modules", scope |-> 0], [kind |-> "connections", scope |-> 0] >>
        /\ nextId = FirstId /\ typed = 0
      BY DEF SessionInit
  <2>2. ToSet(commands) \cap Creates = {}
      BY <2>1 DEF ToSet, Creates
  <2>3. commands \in Seq(Command)
      BY <1>1 DEF SessionTyped
  <2>4. Len(Keep(commands, Creates)) = 0
      BY <2>2, <2>3, KeepsSome
  <2> QED BY <2>1, <2>4, IdsType DEF IdsSuffice
<1>3. AllWired(graphs, nextId, doubled)
  <2>1. graphs = [k \in Scopes |-> IF k = 0 THEN FirstGraph ELSE EmptyGraph]
        /\ nextId = FirstId /\ doubled = {}
      BY DEF SessionInit
  <2>2. ASSUME NEW k \in Scopes
        PROVE  Wired(graphs[k], FirstId, {}) /\ OrderIsSound(graphs[k])
      BY <2>1, FirstWired, NothingWired
  <2>3. \A k \in Scopes : graphs[k] \in GraphType
      BY <2>2 DEF Wired
  <2>4. graphs \in [Scopes -> GraphType]
      BY <2>1, <2>3
  <2>5. ASSUME NEW j \in Scopes, NEW k \in Scopes, NEW m \in Holds(graphs[k]),
               HasModule(graphs[j], m)
        PROVE  j = k
    <3>1. EmptyGraph.modules = << >> /\ EmptyGraph.links = << >> /\ ToSet(<< >>) = {}
        BY DEF EmptyGraph, ToSet
    <3>2. \A x : ~ HasModule(EmptyGraph, x) /\ x \notin Holds(EmptyGraph)
        BY <3>1 DEF HasModule, Holds, TargetsOf
    <3>3. j = 0 /\ k = 0
        BY <2>1, <2>5, <3>2
    <3> QED BY <3>3
  <2>6. Separate(graphs)
      BY <2>5 DEF Separate
  <2> QED BY <2>1, <2>2, <2>4, <2>6 DEF AllWired
<1>4. TypesKnown(graphs, type, nextId)
  <2>1. /\ graphs[0] = FirstGraph /\ type = FirstType /\ nextId = FirstId
      BY IdsType DEF SessionInit
  <2>2. /\ FirstType \in [ToSet(FirstGraph.modules) -> {"filter", "other"}]
        /\ FirstGraph \in GraphType /\ \A m \in ToSet(FirstGraph.modules) : m < FirstId
      BY EngineSessionAssumption DEF PutTogether
  <2>3. FirstGraph.modules \in Seq(Ids)
      BY <2>2 DEF GraphType
  <2>4. ToSet(FirstGraph.modules) \subseteq Ids
      BY <2>3, ListOf
  <2>5. DOMAIN FirstType = ToSet(FirstGraph.modules)
        /\ \A m \in DOMAIN FirstType : FirstType[m] # "instrument"
      BY <2>2
  <2> QED BY <2>1, <2>2, <2>4, <2>5 DEF TypesKnown
<1> QED BY <1>1, <1>2, <1>3, <1>4 DEF SessionInv

-----------------------------------------------------------------------------
(***************************************************************************)
(* What a command does to the graphs.                                      *)
(***************************************************************************)
(* Scope and kind of a command.                                            *)
LEMMA CommandFields ==
  ASSUME NEW c \in Command
  PROVE  /\ c.scope \in Scopes
         /\ c.kind \in {"create", "delete", "connect", "disconnect", "modules", "connections"}
BY DEF Command

(* The instruments that a scope stands for.                                *)
StandsFor(gs, ty, k, m) ==
  m \in ToSet(gs[0].modules) /\ ty[m] = "instrument" /\ StartsWith(m, k)

(* The graph a command is for: the engine's own if there are none.         *)
LEMMA ScopedIs ==
  ASSUME NEW gs \in [Scopes -> GraphType], NEW ty, NEW k
  PROVE  /\ ScopedGraph(gs, ty, k) \in Scopes
         /\ ScopedGraph(gs, ty, k) # 0 => StandsFor(gs, ty, k, ScopedGraph(gs, ty, k))
         /\ (\E m : StandsFor(gs, ty, k, m)) => ScopedGraph(gs, ty, k) # 0
<1> DEFINE S == {m \in ToSet(gs[0].modules) : ty[m] = "instrument" /\ StartsWith(m, k)}
<1>1. PICK q \in Seq(Ids) : q = gs[0].modules
    BY IdsType DEF GraphType
<1>2. PICK u : u = ScopedInstruments(gs, ty, k)
    OBVIOUS
<1>3. \A m : m \in S <=> StandsFor(gs, ty, k, m)
    BY DEF StandsFor
<1>4. u = Keep(q, S)
    BY <1>1, <1>2 DEF ScopedInstruments
<1>5. \A m : StandsFor(gs, ty, k, m) => m \in ToSet(q)
    BY <1>1 DEF StandsFor
<1> HIDE DEF S
<1>6. u \in Seq(Ids) /\ ToSet(u) = ToSet(q) \cap S
    BY <1>1, <1>4, KeepKeeps
<1>7. ScopedGraph(gs, ty, k) = IF u = << >> THEN 0 ELSE Head(u)
    BY <1>2 DEF ScopedGraph
<1>8. CASE u = << >>
  <2>1. ToSet(u) = {}
      BY <1>8 DEF ToSet
  <2> QED BY <1>3, <1>5, <1>6, <1>7, <1>8, <2>1, IdsType
<1>9. CASE u # << >>
  <2>1. Head(u) \in Ids
      BY <1>6, <1>9
  <2>2. Head(u) \in ToSet(u)
    <3>1. Head(u) = u[1] /\ 1 \in 1 .. Len(u)
        BY <1>6, <1>9
    <3> QED BY <1>6, <3>1, ListOf
  <2> QED BY <1>3, <1>6, <1>7, <1>9, <2>1, <2>2, IdsType
<1> QED BY <1>8, <1>9

(* One graph changes.                                                      *)
LEMMA OneWired ==
  ASSUME NEW gs, NEW n \in Int, NEW d, AllWired(gs, n, d), NEW m \in Int, NEW e,
         n <= m, d \subseteq e,
         NEW k \in Scopes, NEW g, Wired(g, m, e), OrderIsSound(g), Grows(gs[k], g, n)
  PROVE  AllWired([gs EXCEPT ![k] = g], m, e)
<1> DEFINE hs == [gs EXCEPT ![k] = g]
<1>1. gs \in [Scopes -> GraphType] /\ g \in GraphType
    BY DEF AllWired, Wired
<1>2. hs \in [Scopes -> GraphType] /\ \A j \in Scopes : hs[j] = IF j = k THEN g ELSE gs[j]
    BY <1>1
<1> HIDE DEF hs
<1>3. ASSUME NEW j \in Scopes PROVE Wired(hs[j], m, e) /\ OrderIsSound(hs[j])
  <2>1. Wired(gs[j], n, d) /\ OrderIsSound(gs[j])
      BY DEF AllWired
  <2>2. Wired(gs[j], m, e)
      BY <2>1, WiredLater, IdsType
  <2> QED BY <1>2, <2>1, <2>2
<1>4. \A j \in Scopes : n \notin Holds(gs[j])
  <2>1. ASSUME NEW j \in Scopes PROVE n \notin Holds(gs[j])
    <3>1. Older(gs[j], n)
        BY DEF AllWired, Wired
    <3>2. ~ (n < n)
        OBVIOUS
    <3> QED BY <3>1, <3>2 DEF Older, Holds, TargetsOf
  <2> QED BY <2>1
<1>5. ASSUME NEW j \in Scopes, NEW i \in Scopes, NEW x \in Holds(hs[i]), HasModule(hs[j], x)
      PROVE  j = i
  <2>1. \A h : HasModule(h, x) => x \in Holds(h)
      BY DEF HasModule, Holds
  <2>2. Separate(gs)
      BY DEF AllWired
  <2>3. i # k /\ j # k => j = i
      BY <1>2, <1>5, <2>2 DEF Separate
  <2>4. i # k /\ j = k => x \in Holds(gs[i]) /\ (HasModule(gs[k], x) \/ x = n)
      BY <1>2, <1>5 DEF Grows, HasModule
  <2>5. i = k /\ j # k => HasModule(gs[j], x) /\ (x \in Holds(gs[k]) \/ x = n)
      BY <1>2, <1>5 DEF Grows
  <2> QED BY <1>4, <2>1, <2>2, <2>3, <2>4, <2>5 DEF Separate
<1>6. Separate(hs)
    BY <1>5 DEF Separate
<1> QED BY <1>2, <1>3, <1>6 DEF AllWired, hs

(* A module more, in one graph.                                            *)
LEMMA Created ==
  ASSUME SessionInv, NEW c \in Command, CreateModule(c), nextId \in Ids
  PROVE  /\ AllWired(graphs', nextId', doubled') /\ nextId' = nextId + 1
         /\ TypesKnown(graphs', type', nextId')
         /\ \A m : StandsFor(graphs, type, c.scope, m) => StandsFor(graphs', type', c.scope, m)
<1>1. PICK k \in Scopes : k = ScopedGraph(graphs, type, c.scope)
    BY ScopedIs DEF SessionInv, AllWired
<1>2. PICK gs : gs = graphs
    OBVIOUS
<1>3. PICK n \in Ids : n = nextId
    OBVIOUS
<1>4. PICK d : d = doubled
    OBVIOUS
<1>5. AllWired(gs, n, d) /\ n \in Int /\ gs \in [Scopes -> GraphType] /\ Wired(gs[k], n, d)
    BY <1>2, <1>3, <1>4, IdsType DEF SessionInv, AllWired
<1>6. PICK g : g = AddModule(gs[k], n)
    OBVIOUS
<1>7. graphs' = [gs EXCEPT ![k] = g] /\ nextId' = n + 1 /\ doubled' = d
    BY <1>1, <1>2, <1>3, <1>4, <1>6 DEF CreateModule
<1>8. /\ Wired(g, n + 1, d) /\ OrderIsSound(g) /\ g.modules = Append(gs[k].modules, n)
      /\ Grows(gs[k], g, n)
    BY <1>5, <1>6, AddKeeps, IdsType
<1>9. n + 1 \in Int /\ n <= n + 1
    BY <1>5
<1>10. PICK m \in Int : m = n + 1
    BY <1>9
<1>11. PICK hs : hs = [gs EXCEPT ![k] = g]
    OBVIOUS
<1>12. AllWired(hs, m, d)
    BY <1>5, <1>8, <1>9, <1>10, <1>11, OneWired
<1>13. ToSet(g.modules) = ToSet(gs[k].modules) \cup {n}
  <2>1. gs[k].modules \in Seq(Ids)
      BY <1>5 DEF GraphType
  <2> QED BY <1>8, <2>1, Appended
<1>14. /\ ToSet(gs[0].modules) \subseteq ToSet(hs[0].modules)
       /\ ToSet(hs[0].modules) \subseteq ToSet(gs[0].modules) \cup {n}
    BY <1>5, <1>11, <1>13, IdsType
<1>15. PICK ty : ty = type
    OBVIOUS
<1>16. TypesKnown(gs, ty, n)
    BY <1>2, <1>3, <1>15 DEF SessionInv
<1>17. type' = [x \in DOMAIN ty \cup {n} |-> IF x = n THEN c.type ELSE ty[x]]
    BY <1>3, <1>15 DEF CreateModule
<1>18. PICK ny : ny = type'
    OBVIOUS
<1>19. \A x \in DOMAIN ty : x # n /\ x \in DOMAIN ny /\ ny[x] = ty[x]
  <2>1. ~ (n < n)
      BY <1>5
  <2> QED BY <1>16, <1>17, <1>18, <2>1 DEF TypesKnown
<1>20. TypesKnown(hs, ny, m)
  <2>1. DOMAIN ny = DOMAIN ty \cup {n}
      BY <1>17, <1>18
  <2>2. n >= 10 /\ n < m
      BY <1>3, <1>5, <1>10, IdsType DEF SessionInv, IdsSuffice
  <2>3. \A x \in DOMAIN ty : x \in Int /\ x < m
    <3>1. \A x \in DOMAIN ty : x \in Int /\ x < n
        BY <1>16, IdsType DEF TypesKnown
    <3> QED BY <1>5, <1>10, <3>1
  <2> QED BY <1>14, <1>16, <1>19, <2>1, <2>2, <2>3 DEF TypesKnown
<1>21. \A x : StandsFor(gs, ty, c.scope, x) => StandsFor(hs, ny, c.scope, x)
    BY <1>14, <1>16, <1>19 DEF StandsFor, TypesKnown
<1> QED BY <1>2, <1>3, <1>7, <1>10, <1>11, <1>12, <1>15, <1>18, <1>20, <1>21

(* An instrument stays while commands are for its own graph.               *)
LEMMA Deleted ==
  ASSUME SessionInv, NEW c \in Command, DeleteModule(c)
  PROVE  /\ AllWired(graphs', nextId', doubled') /\ nextId' = nextId
         /\ TypesKnown(graphs', type', nextId')
         /\ \A m : StandsFor(graphs, type, c.scope, m) => StandsFor(graphs', type', c.scope, m)
<1>1. PICK k \in Scopes : k = ScopedGraph(graphs, type, c.scope)
    BY ScopedIs DEF SessionInv, AllWired
<1>2. PICK gs : gs = graphs
    OBVIOUS
<1>3. PICK n : n = nextId
    OBVIOUS
<1>4. PICK d : d = doubled
    OBVIOUS
<1>5. /\ AllWired(gs, n, d) /\ n \in Int /\ gs \in [Scopes -> GraphType]
      /\ Wired(gs[k], n, d) /\ gs[k].modules \in Seq(Ids)
    BY <1>2, <1>3, <1>4 DEF SessionInv, AllWired, IdsSuffice, GraphType
<1>6. nextId' = n /\ doubled' = d
    BY <1>3, <1>4 DEF DeleteModule
<1>7. PICK u : u = Named(k, c.id)
    OBVIOUS
<1>8. PICK ty : ty = type
    OBVIOUS
<1>9. type' = ty /\ TypesKnown(gs, ty, n)
    BY <1>2, <1>3, <1>8 DEF DeleteModule, SessionInv
<1>10. CASE u = << >>
  <2>1. graphs' = gs
      BY <1>1, <1>2, <1>7, <1>10 DEF DeleteModule
  <2> QED BY <1>2, <1>3, <1>5, <1>6, <1>8, <1>9, <2>1
<1>11. CASE u # << >>
  <2>1. u \in Seq(Ids)
      BY <1>2, <1>5, <1>7, KeepKeeps DEF Named
  <2>2. PICK m \in Ids : m = Head(u)
      BY <1>11, <2>1
  <2>3. m \in Scopes /\ m # 0
      BY IdsType
  <2>4. PICK g : g = RemoveModule(gs[k], m)
      OBVIOUS
  <2>5. graphs' = [gs EXCEPT ![k] = g, ![m] = EmptyGraph]
      BY <1>1, <1>2, <1>7, <1>11, <2>2, <2>4 DEF DeleteModule
  <2>6. Wired(g, n, d) /\ OrderIsSound(g) /\ Grows(gs[k], g, n)
      BY <1>5, <2>4, RemoveKeeps
  <2>7. PICK hs : hs = [gs EXCEPT ![k] = g]
      OBVIOUS
  <2>8. n <= n
      BY <1>5
  <2>9. AllWired(hs, n, d)
      BY <1>5, <2>6, <2>7, <2>8, OneWired
  <2>10. PICK e : e = EmptyGraph
      OBVIOUS
  <2>11. Wired(e, n, d) /\ OrderIsSound(e) /\ Grows(hs[m], e, n)
      BY <2>10, NothingWired
  <2>12. PICK is : is = [hs EXCEPT ![m] = e]
      OBVIOUS
  <2>13. AllWired(is, n, d)
      BY <1>5, <2>3, <2>8, <2>9, <2>11, <2>12, OneWired
  <2>14. graphs' = is
      BY <2>5, <2>7, <2>10, <2>12
  <2>15. is[0] = IF k = 0 THEN g ELSE gs[0]
      BY <1>5, <2>3, <2>7, <2>12, IdsType
  <2>16. ToSet(g.modules) \subseteq ToSet(gs[k].modules)
    <3>1. Older(g, n) /\ ~ (n < n)
        BY <1>5, <2>6 DEF Wired
    <3>2. n \notin ToSet(g.modules)
        BY <3>1 DEF Older
    <3> QED BY <2>6, <3>2 DEF Grows
  <2>17. TypesKnown(is, ty, n)
      BY <1>9, <2>15, <2>16 DEF TypesKnown
  <2>18. \A x : StandsFor(gs, ty, c.scope, x) => k # 0
      BY <1>1, <1>2, <1>5, <1>8, ScopedIs
  <2>19. \A x : StandsFor(gs, ty, c.scope, x) => StandsFor(is, ty, c.scope, x)
      BY <2>15, <2>18 DEF StandsFor
  <2> QED BY <1>2, <1>3, <1>6, <1>8, <1>9, <2>13, <2>14, <2>17, <2>19
<1> QED BY <1>10, <1>11

(* Ports whose names are typed belong to modules of the graph.             *)
LEMMA PortsAre ==
  ASSUME SessionInv, NEW k \in Scopes, NEW id
  PROVE  PortNamed(k, id) \subseteq Ids /\ \A m \in PortNamed(k, id) : HasModule(graphs[k], m)
<1>1. PICK s \in Seq(Ids) : s = graphs[k].modules
    BY DEF SessionInv, AllWired, GraphType
<1>2. PICK u : u = Named(k, id)
    OBVIOUS
<1>3. u \in Seq(Ids) /\ ToSet(u) \subseteq ToSet(s)
    BY <1>1, <1>2, KeepKeeps DEF Named
<1>4. u # << >> => Last(u) \in Ids /\ Last(u) \in ToSet(u)
    BY <1>3, ListHead
<1>5. PortNamed(k, id) \subseteq {Last(u)} /\ (u = << >> => PortNamed(k, id) = {})
    BY <1>2 DEF PortNamed
<1> QED BY <1>1, <1>3, <1>4, <1>5 DEF HasModule

(* So do both ends of a pair.                                              *)
LEMMA PairsAre ==
  ASSUME SessionInv, NEW k \in Scopes, NEW pair
  PROVE  /\ PairsNamed(k, pair) \subseteq Ids \X Ids
         /\ \A p \in PairsNamed(k, pair) : HasModule(graphs[k], p[1]) /\ HasModule(graphs[k], p[2])
<1>1. /\ PortNamed(k, pair[1]) \subseteq Ids /\ PortNamed(k, pair[2]) \subseteq Ids
      /\ \A m \in PortNamed(k, pair[1]) : HasModule(graphs[k], m)
      /\ \A m \in PortNamed(k, pair[2]) : HasModule(graphs[k], m)
    BY PortsAre
<1> QED BY <1>1 DEF PairsNamed

(* Connecting leaves the modules alone.                                    *)
LEMMA Connected ==
  ASSUME SessionInv, NEW c \in Command, CreateConnection(c)
  PROVE  /\ AllWired(graphs', nextId', doubled') /\ nextId' = nextId
         /\ \A j \in Scopes : graphs'[j].modules = graphs[j].modules
<1>1. PICK k \in Scopes : k = ScopedGraph(graphs, type, c.scope)
    BY ScopedIs DEF SessionInv, AllWired
<1>2. PICK gs : gs = graphs
    OBVIOUS
<1>3. PICK n : n = nextId
    OBVIOUS
<1>4. PICK d : d = doubled
    OBVIOUS
<1>5. /\ AllWired(gs, n, d) /\ n \in Int /\ n <= n /\ gs \in [Scopes -> GraphType]
      /\ Wired(gs[k], n, d)
    BY <1>2, <1>3, <1>4 DEF SessionInv, AllWired, IdsSuffice
<1>6. PICK pairs : pairs = PairsNamed(k, c.pair)
    OBVIOUS
<1>7. nextId' = n
    BY <1>3 DEF CreateConnection
<1>8. CASE pairs = {}
  <2>1. graphs' = gs /\ doubled' = d
      BY <1>1, <1>2, <1>4, <1>6, <1>8 DEF CreateConnection
  <2> QED BY <1>2, <1>3, <1>5, <1>7, <2>1
<1>9. CASE pairs # {}
  <2>1. PICK p \in pairs :
          /\ graphs' = [graphs EXCEPT ![k] = Connect(@, p)]
          /\ doubled' = IF HasConnection(graphs[k], p) THEN doubled \cup {p} ELSE doubled
      BY <1>1, <1>6, <1>9 DEF CreateConnection
  <2>2. p \in Ids \X Ids /\ HasModule(gs[k], p[1]) /\ HasModule(gs[k], p[2])
      BY <1>2, <1>6, PairsAre
  <2>3. PICK e : e = IF HasConnection(gs[k], p) THEN d \cup {p} ELSE d
      OBVIOUS
  <2>4. PICK g : g = Connect(gs[k], p)
      OBVIOUS
  <2>5. graphs' = [gs EXCEPT ![k] = g] /\ doubled' = e
      BY <1>2, <1>4, <2>1, <2>3, <2>4
  <2>6. d \subseteq e /\ (HasConnection(gs[k], p) => p \in e)
      BY <2>3
  <2>7. Wired(g, n, e) /\ OrderIsSound(g) /\ g.modules = gs[k].modules /\ Grows(gs[k], g, n)
      BY <1>5, <2>2, <2>4, <2>6, ConnectKeeps
  <2>8. AllWired([gs EXCEPT ![k] = g], n, e)
      BY <1>5, <2>6, <2>7, OneWired
  <2>9. \A j \in Scopes : [gs EXCEPT ![k] = g][j].modules = gs[j].modules
      BY <1>5, <2>7
  <2> QED BY <1>2, <1>3, <1>7, <2>5, <2>8, <2>9
<1> QED BY <1>8, <1>9

(* So does disconnecting, also if it ends the engine.                      *)
LEMMA Disconnected ==
  ASSUME SessionInv, NEW c \in Command, RemoveConnection(c)
  PROVE  /\ AllWired(graphs', nextId', doubled') /\ nextId' = nextId
         /\ \A j \in Scopes : graphs'[j].modules = graphs[j].modules
<1>1. PICK k \in Scopes : k = ScopedGraph(graphs, type, c.scope)
    BY ScopedIs DEF SessionInv, AllWired
<1>2. PICK gs : gs = graphs
    OBVIOUS
<1>3. PICK n : n = nextId
    OBVIOUS
<1>4. PICK d : d = doubled
    OBVIOUS
<1>5. /\ AllWired(gs, n, d) /\ n \in Int /\ n <= n /\ gs \in [Scopes -> GraphType]
      /\ Wired(gs[k], n, d)
    BY <1>2, <1>3, <1>4 DEF SessionInv, AllWired, IdsSuffice
<1>6. PICK pairs : pairs = PairsNamed(k, c.pair)
    OBVIOUS
<1>7. nextId' = n /\ doubled' = d
    BY <1>3, <1>4 DEF RemoveConnection
<1>8. CASE pairs = {} \/ \E p \in pairs : ~ HasConnection(gs[k], p)
  <2>1. graphs' = gs \/ graphs' = [gs EXCEPT ![k] = gs[k]]
      BY <1>1, <1>2, <1>6, <1>8 DEF RemoveConnection
  <2>2. [gs EXCEPT ![k] = gs[k]] = gs
      BY <1>5
  <2> QED BY <1>2, <1>3, <1>5, <1>7, <2>1, <2>2
<1>9. CASE pairs # {} /\ \A p \in pairs : HasConnection(gs[k], p)
  <2>1. PICK p : p = CHOOSE q \in pairs : TRUE
      OBVIOUS
  <2>2. p \in pairs
      BY <1>9, <2>1
  <2>3. PICK g : g = Disconnect(gs[k], p)
      OBVIOUS
  <2>4. graphs' = [gs EXCEPT ![k] = g]
      BY <1>1, <1>2, <1>6, <1>9, <2>1, <2>3 DEF RemoveConnection
  <2>5. Wired(g, n, d) /\ OrderIsSound(g) /\ g.modules = gs[k].modules /\ Grows(gs[k], g, n)
      BY <1>5, <1>9, <2>2, <2>3, DisconnectKeeps
  <2>6. d \subseteq d
      OBVIOUS
  <2>7. AllWired([gs EXCEPT ![k] = g], n, d)
      BY <1>5, <2>5, <2>6, OneWired
  <2>8. \A j \in Scopes : [gs EXCEPT ![k] = g][j].modules = gs[j].modules
      BY <1>5, <2>5
  <2> QED BY <1>2, <1>3, <1>7, <2>4, <2>7, <2>8
<1> QED BY <1>8, <1>9

-----------------------------------------------------------------------------
(***************************************************************************)
(* What comes into the queues.                                             *)
(***************************************************************************)
LEMMA ListsType ==
  ASSUME NEW gs \in [Scopes -> GraphType], NEW ty, NEW k \in Scopes
  PROVE  /\ ModuleList(gs, k) \in Event /\ ConnectionList(gs, ty, k) \in Event
         /\ ScopedModules(gs, k) \in SUBSET Ids
<1>1. \A j \in Scopes : gs[j].modules \in Seq(Ids) /\ gs[j].connections \in Seq(Ids \X Ids)
    BY DEF GraphType
<1>2. \A j \in Scopes : ToSet(gs[j].modules) \subseteq Ids
    BY <1>1, ListOf
<1>3. ScopedModules(gs, k) \in SUBSET Ids
    BY <1>2, IdsType DEF ScopedModules
<1>4. ListedConnections(gs, ty, k) \in Seq(Ids \X Ids)
    BY <1>1, ScopedIs DEF ListedConnections
<1>5. ModuleList(gs, k) \in Event
    BY <1>3 DEF ModuleList, Event
<1>6. ConnectionList(gs, ty, k) \in Event
    BY <1>3, <1>4 DEF ConnectionList, Event
<1> QED BY <1>3, <1>5, <1>6

(* What a command tells the TUI.                                           *)
Tells(gs, ty, c) ==
  CASE c.kind = "modules" -> <<ModuleList(gs, c.scope)>>
    [] c.kind \in {"connections", "connect", "disconnect"} -> <<ConnectionList(gs, ty, c.scope)>>
    [] c.kind \in {"create", "delete"} ->
         <<ModuleList(gs, c.scope), ConnectionList(gs, ty, c.scope)>>

(* Those lists are events.                                                 *)
LEMMA TellsType ==
  ASSUME NEW gs \in [Scopes -> GraphType], NEW ty, NEW c \in Command
  PROVE  Tells(gs, ty, c) \in Seq(Event)
<1>1. c.scope \in Scopes
    BY CommandFields
<1>2. ModuleList(gs, c.scope) \in Event /\ ConnectionList(gs, ty, c.scope) \in Event
    BY <1>1, ListsType
<1> DEFINE m == ModuleList(gs, c.scope)
           l == ConnectionList(gs, ty, c.scope)
<1>3. <<m>> \in Seq(Event) /\ <<l>> \in Seq(Event) /\ <<m, l>> \in Seq(Event)
  <2> HIDE DEF m, l
  <2> QED BY <1>2 DEF m, l
<1>4. c.kind \in {"create", "delete", "connect", "disconnect", "modules", "connections"}
    BY CommandFields
<1> QED BY <1>3, <1>4 DEF Tells

(* What is not refused is behind the events that are there.                *)
LEMMA Emitted ==
  ASSUME events \in Seq(Event), NEW items \in Seq(Event), Emit(items)
  PROVE  /\ events' \in Seq(Event) /\ refused' \in BOOLEAN
         /\ ~ refused' => ~ refused /\ events' = events \o items
<1>1. PICK q \in Seq(Event) : q = events
    OBVIOUS
<1>2. PICK room \in Nat : room = EventRoom
    BY IdsType
<1>3. /\ \E u \in Seq(Event) : Takes(q, room, items, u) /\ NoMore(u, items)
      /\ Len(q) + Len(items) <= room => Takes(q, room, items, items)
    BY PushedIs
<1>4. events' = Pushed(q, room, items) /\ refused' = (refused \/ Len(q) + Len(items) > room)
    BY <1>1, <1>2 DEF Emit
<1>5. events' \in Seq(Event)
    BY <1>3, <1>4 DEF Takes
<1>6. refused' \in BOOLEAN /\ (~ refused' => ~ refused /\ ~ (Len(q) + Len(items) > room))
    BY <1>4
<1>7. ~ (Len(q) + Len(items) > room) => Len(q) + Len(items) <= room
    OBVIOUS
<1> QED BY <1>1, <1>3, <1>4, <1>5, <1>6, <1>7 DEF Takes

(* An answer is sent, or the engine has ended.                             *)
LEMMA Answered ==
  ASSUME NEW k, NEW lists, Answer(k, lists)
  PROVE  \/ terminated' = FALSE /\ Emit(lists)
         \/ terminated' = TRUE /\ UNCHANGED <<events, refused>>
<1>1. CastsOther(graphs', type', k) \in BOOLEAN
    BY DEF CastsOther
<1>2. terminated' = TRUE \/ terminated' = FALSE
    BY <1>1 DEF Answer
<1> QED BY <1>2 DEF Answer

(* What becomes of the lists that a command tells.                         *)
Outcome(c) ==
  \/ terminated' = FALSE /\ Emit(Tells(graphs', type', c))
  \/ terminated' = TRUE /\ UNCHANGED <<events, refused>>
  \/ /\ c.kind \notin {"modules", "connections"}
     /\ UNCHANGED <<graphs, type, terminated, events, refused>>

(* A command is applied to the graphs, and its lists are sent.             *)
LEMMA Applied ==
  ASSUME SessionInv, NEW c \in Command, Apply(c), c.kind = "create" => nextId \in Ids
  PROVE  /\ AllWired(graphs', nextId', doubled') /\ TypesKnown(graphs', type', nextId')
         /\ nextId' = IF c.kind = "create" THEN nextId + 1 ELSE nextId
         /\ c.kind \in {"modules", "connections"} => UNCHANGED <<graphs, type>>
         /\ c.kind \in {"connect", "disconnect"} =>
              \A j \in Scopes : graphs'[j].modules = graphs[j].modules
         /\ \A m : StandsFor(graphs, type, c.scope, m) => StandsFor(graphs', type', c.scope, m)
         /\ Outcome(c)
<1>1. c.kind \in {"create", "delete", "connect", "disconnect", "modules", "connections"}
    BY CommandFields
<1>2. CASE c.kind = "create"
  <2>1. CreateModule(c)
      BY <1>2 DEF Apply
  <2>2. Answer(c.scope, Tells(graphs', type', c))
      BY <1>2, <2>1 DEF CreateModule, Tells, ListsOf, BothLists
  <2>3. Outcome(c)
      BY <2>2, Answered DEF Outcome
  <2> QED BY <1>2, <2>1, <2>3, Created
<1>3. CASE c.kind = "delete"
  <2>1. DeleteModule(c)
      BY <1>3 DEF Apply
  <2>2. \/ Answer(c.scope, Tells(graphs', type', c))
        \/ UNCHANGED <<graphs, type, terminated, events, refused>>
      BY <1>3, <2>1 DEF DeleteModule, Tells, ListsOf, BothLists
  <2>3. Outcome(c)
      BY <1>3, <2>2, Answered DEF Outcome
  <2> QED BY <1>3, <2>1, <2>3, Deleted
<1>4. ASSUME c.kind \in {"connect", "disconnect"},
             \A j \in Scopes : graphs'[j].modules = graphs[j].modules,
             type' = type, nextId' = nextId
      PROVE  /\ TypesKnown(graphs', type', nextId')
             /\ \A m : StandsFor(graphs, type, c.scope, m) => StandsFor(graphs', type', c.scope, m)
    BY <1>4, IdsType DEF SessionInv, TypesKnown, StandsFor
<1>5. CASE c.kind = "connect"
  <2>1. CreateConnection(c)
      BY <1>5 DEF Apply
  <2>2. Answer(c.scope, Tells(graphs', type', c)) /\ type' = type
      BY <1>5, <2>1 DEF CreateConnection, Tells, ConnectTold
  <2>3. Outcome(c)
      BY <2>2, Answered DEF Outcome
  <2> QED BY <1>4, <1>5, <2>1, <2>2, <2>3, Connected
<1>6. CASE c.kind = "disconnect"
  <2>1. RemoveConnection(c)
      BY <1>6 DEF Apply
  <2>2. /\ \/ Answer(c.scope, Tells(graphs', type', c))
           \/ terminated' = TRUE /\ UNCHANGED <<events, refused>>
        /\ type' = type
      BY <1>6, <2>1 DEF RemoveConnection, Tells, ConnectTold
  <2>3. Outcome(c)
      BY <2>2, Answered DEF Outcome
  <2> QED BY <1>4, <1>6, <2>1, <2>2, <2>3, Disconnected
<1>7. CASE c.kind \in {"modules", "connections"}
  <2>1. /\ UNCHANGED <<graphs, type, nextId, doubled>>
        /\ Answer(c.scope, Tells(graphs', type', c))
      BY <1>7 DEF Apply, ListScope, Tells
  <2>2. Outcome(c)
      BY <2>1, Answered DEF Outcome
  <2> QED BY <1>7, <2>1, <2>2 DEF SessionInv
<1> QED BY <1>1, <1>2, <1>3, <1>5, <1>6, <1>7

-----------------------------------------------------------------------------
(***************************************************************************)
(* SessionInv is an invariant.                                             *)
(***************************************************************************)
(* The engine applies one command.                                         *)
LEMMA EngineKeeps ==
  ASSUME SessionInv, EngineApplies
  PROVE  /\ SessionInv'
         /\ Head(commands) \in Command /\ Apply(Head(commands))
         /\ Head(commands).kind = "create" => nextId \in Ids
<1>1. commands \in Seq(Command) /\ commands # << >> /\ commands' = Tail(commands) /\ UNCHANGED tuiVars
    BY DEF SessionInv, SessionTyped, EngineApplies
<1>2. PICK q \in Seq(Command) : q = commands
    BY <1>1
<1>3. PICK c : c = Head(q)
    OBVIOUS
<1>4. /\ c \in Command /\ Tail(q) \in Seq(Command)
      /\ Len(Keep(q, Creates)) \in Nat /\ Len(Keep(Tail(q), Creates)) \in Nat
      /\ Len(Keep(q, Creates)) = Len(Keep(Tail(q), Creates)) + (IF c \in Creates THEN 1 ELSE 0)
    BY <1>1, <1>2, <1>3, HeadCounts
<1>5. Apply(c)
    BY <1>2, <1>3 DEF EngineApplies
<1>6. c \in Creates <=> c.kind = "create"
    BY <1>4 DEF Creates
<1>7. /\ typed \in 0 .. MaxTyped /\ nextId \in Int /\ FirstId <= nextId
      /\ nextId + Len(Keep(q, Creates)) <= FirstId + typed
    BY <1>2 DEF SessionInv, IdsSuffice
<1>8. c.kind = "create" => nextId \in Ids
  <2>1. SUFFICES ASSUME c.kind = "create" PROVE nextId \in Ids
      OBVIOUS
  <2>2. nextId - FirstId \in 0 .. MaxTyped /\ FirstId + (nextId - FirstId) = nextId
      BY <1>4, <1>6, <1>7, <2>1, IdsType
  <2> QED BY <2>2, IdsType
<1>9. /\ AllWired(graphs', nextId', doubled') /\ TypesKnown(graphs', type', nextId')
      /\ nextId' = IF c.kind = "create" THEN nextId + 1 ELSE nextId
      /\ Outcome(c)
    BY <1>4, <1>5, <1>8, Applied
<1>10. events' \in Seq(Event) /\ refused' \in BOOLEAN /\ terminated' \in BOOLEAN
  <2>1. events \in Seq(Event) /\ refused \in BOOLEAN /\ terminated \in BOOLEAN
      BY DEF SessionInv, SessionTyped
  <2>2. CASE terminated' = FALSE /\ Emit(Tells(graphs', type', c))
    <3>1. PICK gs \in [Scopes -> GraphType] : gs = graphs'
        BY <1>9 DEF AllWired
    <3>2. PICK ty : ty = type'
        OBVIOUS
    <3>3. PICK items \in Seq(Event) : items = Tells(gs, ty, c)
        BY <1>4, TellsType
    <3> QED BY <2>1, <2>2, <3>1, <3>2, <3>3, Emitted
  <2>3. CASE UNCHANGED <<events, refused>> /\ (terminated' = TRUE \/ UNCHANGED terminated)
      BY <2>1, <2>3
  <2> QED BY <1>9, <2>2, <2>3 DEF Outcome
<1>11. SessionTyped'
    BY <1>1, <1>2, <1>4, <1>10 DEF SessionInv, SessionTyped, tuiVars
<1>12. IdsSuffice'
  <2>1. typed' = typed /\ commands' = Tail(q)
      BY <1>1, <1>2 DEF tuiVars
  <2>2. nextId' \in Int /\ FirstId <= nextId'
      BY <1>7, <1>9, IdsType
  <2>3. nextId' + Len(Keep(Tail(q), Creates)) <= FirstId + typed
      BY <1>4, <1>6, <1>7, <1>9, IdsType
  <2> QED BY <1>7, <2>1, <2>2, <2>3 DEF IdsSuffice
<1>13. SessionInv'
    BY <1>9, <1>11, <1>12 DEF SessionInv
<1> QED BY <1>2, <1>3, <1>4, <1>5, <1>8, <1>13

(* What is typed comes behind the commands that are under way.             *)
LEMMA Sent ==
  ASSUME commands \in Seq(Command), NEW items \in Seq(Command), Push(items)
  PROVE  /\ commands' \in Seq(Command) /\ refused' \in BOOLEAN
         /\ ~ refused' => ~ refused /\ commands' = commands \o items
         /\ Len(Keep(commands', Creates)) \in Nat
         /\ Len(Keep(commands', Creates))
              <= Len(Keep(commands, Creates)) + Len(Keep(items, Creates))
<1>1. PICK q \in Seq(Command) : q = commands
    OBVIOUS
<1>2. PICK room \in Nat : room = CommandRoom
    BY IdsType
<1>3. PICK u \in Seq(Command) : Takes(q, room, items, u) /\ NoMore(u, items)
    BY PushedIs
<1>4. Len(q) + Len(items) <= room => Takes(q, room, items, items)
    BY PushedIs
<1>5. commands' = Pushed(q, room, items) /\ refused' = (refused \/ Len(q) + Len(items) > room)
    BY <1>1, <1>2 DEF Push
<1>6. commands' = q \o u
    BY <1>3, <1>5 DEF Takes
<1>7. commands' \in Seq(Command)
    BY <1>6
<1>8. refused' \in BOOLEAN /\ (~ refused' => ~ refused /\ ~ (Len(q) + Len(items) > room))
    BY <1>5
<1>9. ~ (Len(q) + Len(items) > room) => Len(q) + Len(items) <= room
    OBVIOUS
<1>10. PICK p : p = q \o u
    OBVIOUS
<1>11. /\ Len(Keep(q, Creates)) \in Nat /\ Len(Keep(u, Creates)) \in Nat
       /\ Len(Keep(q \o u, Creates)) = Len(Keep(q, Creates)) + Len(Keep(u, Creates))
    BY JoinedCounts
<1>12. Len(Keep(u, Creates)) <= Len(Keep(items, Creates)) /\ Len(Keep(items, Creates)) \in Nat
    BY <1>3, KeepsSome DEF NoMore
<1>13. /\ Len(Keep(p, Creates)) \in Nat
       /\ Len(Keep(p, Creates)) <= Len(Keep(q, Creates)) + Len(Keep(items, Creates))
    BY <1>10, <1>11, <1>12
<1>14. commands' = p
    BY <1>6, <1>10
<1> QED BY <1>1, <1>4, <1>5, <1>7, <1>8, <1>9, <1>13, <1>14 DEF Takes

(* The TUI is always in some scope.                                        *)
LEMMA ScopeIs ==
  ASSUME SessionTyped
  PROVE  /\ Scope \in Scopes /\ Len(scopesList) \in Nat \ {0}
         /\ Scope = scopesList[Len(scopesList)]
         /\ Scope = 0 <=> Len(scopesList) = 1
<1>1. scopesList \in Seq(Scopes) /\ scopesList # << >> /\ scopesList[1] = 0
      /\ \A i \in 2 .. Len(scopesList) : scopesList[i] \in Ids
    BY DEF SessionTyped
<1>2. Len(scopesList) \in Nat \ {0}
    BY <1>1
<1>3. Scope \in Scopes /\ Scope = scopesList[Len(scopesList)]
    BY <1>1, ListHead DEF Scope
<1>4. Len(scopesList) # 1 => Len(scopesList) \in 2 .. Len(scopesList)
  <2>1. PICK n \in Nat \ {0} : n = Len(scopesList)
      BY <1>2
  <2>2. n # 1 => n \in 2 .. n
      OBVIOUS
  <2> QED BY <2>1, <2>2
<1> QED BY <1>1, <1>2, <1>3, <1>4, IdsType

(* What is typed is for the scope the TUI is in.                           *)
LEMMA TypedIs ==
  ASSUME SessionTyped, NEW c \in Typed
  PROVE  c \in Command /\ c.scope = Scope
<1>1. PICK k \in Scopes : k = Scope
    BY ScopeIs
<1> QED BY <1>1 DEF Typed, Command

(* A command is typed.                                                     *)
LEMMA TypeKeeps ==
  ASSUME SessionInv, TypeCommand
  PROVE  SessionInv'
<1>1. PICK c \in Typed : Push(<<c>>)
    BY DEF TypeCommand
<1>2. c \in Command
    BY <1>1, TypedIs DEF SessionInv
<1>3. PICK items \in Seq(Command) : items = <<c>>
    BY <1>2, OneItem
<1>4. commands \in Seq(Command) /\ Push(items)
    BY <1>1, <1>3 DEF SessionInv, SessionTyped
<1>5. Len(Keep(items, Creates)) \in Nat /\ Len(Keep(items, Creates)) <= 1
  <2>1. Len(Keep(<<c>>, Creates)) = IF c \in Creates THEN 1 ELSE 0
      BY <1>2, OneCounts
  <2> QED BY <1>3, <2>1
<1>6. /\ commands' \in Seq(Command) /\ refused' \in BOOLEAN
      /\ Len(Keep(commands', Creates)) \in Nat
      /\ Len(Keep(commands', Creates))
           <= Len(Keep(commands, Creates)) + Len(Keep(items, Creates))
    BY <1>4, Sent
<1>7. UNCHANGED <<engineVars, events, scopesList, shown, widget, hasty>>
    BY DEF TypeCommand
<1>8. SessionTyped'
    BY <1>6, <1>7 DEF SessionInv, SessionTyped, engineVars
<1>9. IdsSuffice'
  <2>1. typed < MaxTyped /\ typed' = typed + 1 /\ nextId' = nextId
      BY <1>7 DEF TypeCommand, TypesOne, engineVars
  <2>2. /\ typed \in 0 .. MaxTyped /\ nextId \in Int /\ FirstId <= nextId
        /\ nextId + Len(Keep(commands, Creates)) <= FirstId + typed
      BY DEF SessionInv, IdsSuffice
  <2>3. Len(Keep(commands, Creates)) \in Nat
      BY <1>4, KeepsSome
  <2>4. PICK n \in Nat : n = Len(Keep(commands', Creates))
      BY <1>6
  <2>5. nextId + n <= FirstId + (typed + 1)
      BY <1>5, <1>6, <2>2, <2>3, <2>4, IdsType
  <2>6. typed + 1 \in 0 .. MaxTyped
      BY <2>1, <2>2, IdsType
  <2> QED BY <2>1, <2>2, <2>4, <2>5, <2>6 DEF IdsSuffice
<1>10. AllWired(graphs', nextId', doubled') /\ TypesKnown(graphs', type', nextId')
    BY <1>7 DEF SessionInv, engineVars
<1> QED BY <1>8, <1>9, <1>10 DEF SessionInv

(* Requests for lists change no graph.                                     *)
LEMMA Asked ==
  ASSUME commands \in Seq(Command), NEW k \in Scopes, Ask(k)
  PROVE  /\ commands' \in Seq(Command) /\ refused' \in BOOLEAN
         /\ Len(Keep(commands', Creates)) \in Nat
         /\ Len(Keep(commands', Creates)) <= Len(Keep(commands, Creates))
         /\ ~ refused' =>
              /\ ~ refused /\ Len(commands') = Len(commands) + 2
              /\ commands'[Len(commands) + 1] = [kind |-> "modules", scope |-> k]
              /\ commands'[Len(commands) + 2] = [kind |-> "connections", scope |-> k]
<1> DEFINE m == [kind |-> "modules", scope |-> k]
           l == [kind |-> "connections", scope |-> k]
<1>1. m \in Command /\ l \in Command /\ m \notin Creates /\ l \notin Creates
    BY DEF Command, Creates
<1>2. PICK items \in Seq(Command) : items = <<m, l>>
  <2> HIDE DEF m, l
  <2> QED BY <1>1, TwoItems
<1>3. Push(items)
    BY <1>2 DEF Ask
<1> HIDE DEF m, l
<1>4. Len(items) = 2 /\ items[1] = m /\ items[2] = l
    BY <1>2
<1>5. Len(Keep(items, Creates)) = 0
  <2>1. ToSet(items) \cap Creates = {}
      BY <1>1, <1>2, <1>4 DEF ToSet
  <2> QED BY <2>1, KeepsSome
<1>6. PICK q \in Seq(Command) : q = commands
    OBVIOUS
<1>7. /\ commands' \in Seq(Command) /\ refused' \in BOOLEAN
      /\ ~ refused' => ~ refused /\ commands' = q \o items
      /\ Len(Keep(commands', Creates)) \in Nat
      /\ Len(Keep(commands', Creates)) <= Len(Keep(commands, Creates)) + Len(Keep(items, Creates))
    BY <1>3, <1>6, Sent
<1>8. /\ Len(q) \in Nat /\ Len(q \o items) = Len(q) + Len(items)
      /\ \A i \in 1 .. Len(items) : (q \o items)[Len(q) + i] = items[i]
    BY BehindAnother
<1>9. /\ Len(q \o items) = Len(q) + 2
      /\ (q \o items)[Len(q) + 1] = m /\ (q \o items)[Len(q) + 2] = l
    BY <1>4, <1>8
<1>10. Len(Keep(commands', Creates)) <= Len(Keep(commands, Creates))
  <2>1. Len(Keep(commands, Creates)) \in Nat
      BY KeepsSome
  <2>2. PICK n \in Nat : n = Len(Keep(commands', Creates))
      BY <1>7
  <2> QED BY <1>5, <1>7, <2>1, <2>2
<1> QED BY <1>6, <1>7, <1>9, <1>10 DEF m, l

(* A change of scope.                                                      *)
LEMMA MoveKeeps ==
  ASSUME SessionInv, TypesOne, NEW k \in Scopes, Ask(k),
         scopesList' \in Seq(Scopes), scopesList' # << >>, scopesList'[1] = 0,
         \A i \in 2 .. Len(scopesList') : scopesList'[i] \in Ids,
         hasty' \in BOOLEAN, UNCHANGED <<engineVars, events, shown, widget>>
  PROVE  SessionInv'
<1>1. commands \in Seq(Command)
    BY DEF SessionInv, SessionTyped
<1>2. /\ commands' \in Seq(Command) /\ refused' \in BOOLEAN
      /\ Len(Keep(commands', Creates)) \in Nat
      /\ Len(Keep(commands', Creates)) <= Len(Keep(commands, Creates))
    BY <1>1, Asked
<1>3. SessionTyped'
    BY <1>2 DEF SessionInv, SessionTyped, engineVars
<1>4. IdsSuffice'
  <2>1. typed < MaxTyped /\ typed' = typed + 1 /\ nextId' = nextId
      BY DEF TypesOne, engineVars
  <2>2. /\ typed \in 0 .. MaxTyped /\ nextId \in Int /\ FirstId <= nextId
        /\ nextId + Len(Keep(commands, Creates)) <= FirstId + typed
      BY DEF SessionInv, IdsSuffice
  <2>3. Len(Keep(commands, Creates)) \in Nat
      BY <1>1, KeepsSome
  <2>4. PICK n \in Nat : n = Len(Keep(commands', Creates))
      BY <1>2
  <2>5. nextId + n <= FirstId + (typed + 1)
      BY <1>2, <2>2, <2>3, <2>4, IdsType
  <2>6. typed + 1 \in 0 .. MaxTyped
      BY <2>1, <2>2, IdsType
  <2> QED BY <2>1, <2>2, <2>4, <2>5, <2>6 DEF IdsSuffice
<1>5. AllWired(graphs', nextId', doubled') /\ TypesKnown(graphs', type', nextId')
    BY DEF SessionInv, engineVars
<1> QED BY <1>3, <1>4, <1>5 DEF SessionInv

(* enter and exit: the scope that is asked for is the one that is entered. *)
LEMMA Entered ==
  ASSUME SessionInv, TypeEnter
  PROVE  \E k \in Ids :
           /\ \E m \in widget.names : IsInstrument(m) /\ StartsWith(m, k)
           /\ Ask(k) /\ scopesList' = Append(scopesList, k)
           /\ scopesList' \in Seq(Scopes) /\ Len(scopesList') = Len(scopesList) + 1
           /\ scopesList' # << >> /\ scopesList'[1] = 0
           /\ \A i \in 2 .. Len(scopesList') : scopesList'[i] \in Ids
           /\ Last(scopesList') = k
<1>1. PICK k \in Ids : /\ \E m \in widget.names : IsInstrument(m) /\ StartsWith(m, k)
                       /\ scopesList' = Append(scopesList, k) /\ Ask(k)
    BY DEF TypeEnter, AskFor
<1>2. k \in Scopes
    BY IdsType
<1>3. PICK s \in Seq(Scopes) : s = scopesList
    BY DEF SessionInv, SessionTyped
<1>4. s # << >> /\ s[1] = 0 /\ \A i \in 2 .. Len(s) : s[i] \in Ids
    BY <1>3 DEF SessionInv, SessionTyped
<1>5. PICK t : t = Append(s, k)
    OBVIOUS
<1>6. /\ t \in Seq(Scopes) /\ Len(t) = Len(s) + 1 /\ Len(s) \in Nat \ {0}
      /\ (\A i \in 1 .. Len(s) : t[i] = s[i]) /\ t[Len(s) + 1] = k
    BY <1>2, <1>4, <1>5, Appended
<1>7. t # << >> /\ t[1] = 0 /\ t[Len(t)] = k
    BY <1>4, <1>6
<1>8. ASSUME NEW i \in 2 .. Len(t) PROVE t[i] \in Ids
  <2>1. i \in 2 .. Len(s) \/ i = Len(s) + 1
      BY <1>6
  <2> QED BY <1>2, <1>4, <1>6, <2>1
<1> QED BY <1>1, <1>2, <1>3, <1>5, <1>6, <1>7, <1>8 DEF Last

(* exit: the scope before this one is asked for.                           *)
LEMMA Left ==
  ASSUME SessionInv, TypeExit
  PROVE  /\ Last(scopesList') \in Scopes /\ Ask(Last(scopesList'))
         /\ scopesList' \in Seq(Scopes) /\ Len(scopesList') = Len(scopesList) - 1
         /\ scopesList' # << >> /\ scopesList'[1] = 0
         /\ \A i \in 2 .. Len(scopesList') : scopesList'[i] \in Ids
<1>1. Len(scopesList) > 1 /\ scopesList' = Front(scopesList) /\ Ask(Last(scopesList'))
    BY DEF TypeExit, AskFor
<1>2. PICK s \in Seq(Scopes) : s = scopesList
    BY DEF SessionInv, SessionTyped
<1>3. s # << >> /\ s[1] = 0 /\ \A i \in 2 .. Len(s) : s[i] \in Ids
    BY <1>2 DEF SessionInv, SessionTyped
<1>4. PICK t : t = Front(s)
    OBVIOUS
<1>5. /\ t \in Seq(Scopes) /\ Len(t) + 1 = Len(s) /\ Len(t) \in Nat \ {0}
      /\ \A i \in 1 .. Len(t) : t[i] = s[i]
    BY <1>1, <1>2, <1>3, <1>4, ListHead
<1>6. t # << >> /\ t[1] = 0 /\ \A i \in 2 .. Len(t) : t[i] \in Ids
    BY <1>3, <1>5
<1>7. Last(t) \in Scopes
    BY <1>5, <1>6, ListHead
<1> QED BY <1>1, <1>2, <1>4, <1>5, <1>6, <1>7

(* A list comes.                                                           *)
LEMMA HandleKeeps ==
  ASSUME SessionInv, HandleEvent
  PROVE  SessionInv'
<1>1. PICK q \in Seq(Event) : q = events /\ q # << >> /\ events' = Tail(q)
    BY DEF SessionInv, SessionTyped, HandleEvent
<1>2. PICK e \in Event : e = Head(q)
    BY <1>1
<1>3. Tail(q) \in Seq(Event)
    BY <1>1
<1>4. UNCHANGED <<engineVars, commands, scopesList, typed, refused, hasty>>
    BY DEF HandleEvent
<1>5. /\ shown' \in SUBSET Ids
      /\ widget' \in [names : SUBSET Ids, connections : Seq(Ids \X Ids)]
  <2>1. CASE e.kind = "modules"
    <3>1. shown' = e.modules /\ widget' = widget
        BY <1>1, <1>2, <2>1 DEF HandleEvent
    <3>2. e.modules \in SUBSET Ids
        BY <2>1 DEF Event
    <3> QED BY <3>1, <3>2 DEF SessionInv, SessionTyped
  <2>2. CASE e.kind # "modules"
    <3>1. widget' = [names |-> e.names, connections |-> e.connections] /\ shown' = shown
        BY <1>1, <1>2, <2>2 DEF HandleEvent
    <3>2. e.names \in SUBSET Ids /\ e.connections \in Seq(Ids \X Ids)
        BY <2>2 DEF Event
    <3> QED BY <3>1, <3>2 DEF SessionInv, SessionTyped
  <2> QED BY <2>1, <2>2
<1>6. SessionTyped'
    BY <1>1, <1>3, <1>4, <1>5 DEF SessionInv, SessionTyped, engineVars
<1>7. IdsSuffice'
    BY <1>4 DEF SessionInv, IdsSuffice, engineVars
<1>8. AllWired(graphs', nextId', doubled') /\ TypesKnown(graphs', type', nextId')
    BY <1>4 DEF SessionInv, engineVars
<1> QED BY <1>6, <1>7, <1>8 DEF SessionInv

(* Every step keeps SessionInv.                                            *)
LEMMA SessionKeeps == SessionInv /\ [SessionNext]_sessionVars => SessionInv'
<1> SUFFICES ASSUME SessionInv, [SessionNext]_sessionVars PROVE SessionInv'
    OBVIOUS
<1>1. CASE EngineApplies
    BY <1>1, EngineKeeps
<1>2. CASE TypeCommand
    BY <1>2, TypeKeeps
<1>3. CASE TypeEnter
  <2>1. hasty' \in BOOLEAN /\ UNCHANGED <<engineVars, events, shown, widget>> /\ TypesOne
    <3>1. hasty' = (hasty \/ ~ UpToDate \/ Scope # 0)
        BY <1>3 DEF TypeEnter
    <3> QED BY <1>3, <3>1 DEF TypeEnter
  <2>2. PICK k \in Ids :
          /\ Ask(k)
          /\ scopesList' \in Seq(Scopes) /\ scopesList' # << >> /\ scopesList'[1] = 0
          /\ \A i \in 2 .. Len(scopesList') : scopesList'[i] \in Ids
      BY <1>3, Entered
  <2> QED BY <2>1, <2>2, MoveKeeps, IdsType
<1>4. CASE TypeExit
  <2>1. hasty' \in BOOLEAN /\ UNCHANGED <<engineVars, events, shown, widget>> /\ TypesOne
      BY <1>4 DEF TypeExit, SessionInv, SessionTyped
  <2> QED BY <1>4, <2>1, Left, MoveKeeps
<1>5. CASE HandleEvent
    BY <1>5, HandleKeeps
<1>6. CASE UNCHANGED sessionVars
    BY <1>6 DEF SessionInv, SessionTyped, IdsSuffice, AllWired, TypesKnown,
                sessionVars, engineVars, tuiVars
<1> QED BY <1>1, <1>2, <1>3, <1>4, <1>5, <1>6 DEF SessionNext

(* SessionInv always holds.                                                *)
LEMMA SessionInvariant == SessionSpec => []SessionInv
BY SessionStarts, SessionKeeps, PTL DEF SessionSpec

(***************************************************************************)
(* Whatever is added, removed and connected in whatever sequence, every    *)
(* graph's cached order (updateExecutionOrder) has each module once and    *)
(* after the modules that feed it, or is empty because of a cycle.         *)
(***************************************************************************)
THEOREM OrdersAlwaysSound == SessionSpec => []OrdersAreSound
<1>1. SessionInv => OrdersAreSound
    BY DEF SessionInv, AllWired, OrdersAreSound
<1> QED BY <1>1, SessionInvariant, PTL

(***************************************************************************)
(* What a module sends reaches, besides the modules that the list of       *)
(* connections names, only modules that have been deleted (removeModule    *)
(* disconnects no port); and every connection that is listed carries the   *)
(* signal, unless its pair was connected twice at a time (disconnect).     *)
(***************************************************************************)
THEOREM SignalsAlwaysFollowList == SessionSpec => []SignalsFollowList
<1>1. ASSUME SessionInv, NEW k \in Scopes, NEW l \in UnlistedLinks(graphs[k])
      PROVE  IsDeleted(l[2])
  <2>1. PICK g : g = graphs[k]
      OBVIOUS
  <2>2. Wired(g, nextId, doubled) /\ Separate(graphs)
      BY <1>1, <2>1 DEF SessionInv, AllWired
  <2>3. /\ l \in ToSet(g.links) /\ HasModule(g, l[1])
        /\ Count(g.links, l) > Count(g.connections, l)
      BY <1>1, <2>1 DEF UnlistedLinks
  <2>4. ~ HasModule(g, l[2])
    <3>1. PICK A : A = Ids \X Ids
        OBVIOUS
    <3>2. g.links \in Seq(A) /\ g.connections \in Seq(A)
        BY <2>2, <3>1 DEF Wired, GraphType
    <3>3. Count(g.links, l) \in Nat /\ Count(g.connections, l) \in Nat
        BY <3>2, CountsTell
    <3>4. ~ (Count(g.links, l) <= Count(g.connections, l))
        BY <2>3, <3>3
    <3> QED BY <2>2, <2>3, <3>4 DEF Wired, LinksListed
  <2>5. l[2] < nextId
      BY <2>2, <2>3 DEF Wired, Older
  <2>6. l[2] \in Holds(g)
      BY <2>3 DEF Holds, TargetsOf
  <2>7. ASSUME NEW j \in Scopes PROVE ~ HasModule(graphs[j], l[2])
      BY <2>1, <2>2, <2>4, <2>6 DEF Separate
  <2> QED BY <2>5, <2>7 DEF IsDeleted
<1>2. SessionInv => SignalsAreListed
    BY <1>1 DEF SignalsAreListed
<1>3. SessionInv => ListedCarriesSignal
    BY DEF SessionInv, AllWired, Wired, Carries, ListedCarriesSignal
<1>4. SessionInv => SignalsFollowList
    BY <1>2, <1>3 DEF SignalsFollowList
<1> QED BY <1>4, SessionInvariant, PTL

-----------------------------------------------------------------------------
(***************************************************************************)
(* What the TUI shows.  For each kind of list: it has been requested for   *)
(* the scope the TUI is in and nothing is under way behind the request for *)
(* another scope; or all that is under way is for this scope and the last  *)
(* list that was sent, or the one on the screen, is the current one.       *)
(***************************************************************************)
Kinds == {"modules", "connections"}
Told(K) == {e \in Event : e.kind = K}

ListNow(gs, ty, k, K) ==
  IF K = "modules" THEN ModuleList(gs, k) ELSE ConnectionList(gs, ty, k)

OnScreen(s, w, K) ==
  IF K = "modules"
  THEN [kind |-> "modules", modules |-> s]
  ELSE [kind |-> "connections", names |-> w.names, connections |-> w.connections]

Requested(cs, k, K) ==
  \E i \in 1 .. Len(cs) : cs[i].kind = K /\ \A j \in i .. Len(cs) : cs[j].scope = k

AllFor(cs, k) == \A j \in 1 .. Len(cs) : cs[j].scope = k

Known(es, o, K, l) == EndsIn(es, Told(K), {l}) /\ (None(es, Told(K)) => o = l)

Soon(cs, es, o, k, K, l) ==
  \/ Requested(cs, k, K)
  \/ AllFor(cs, k) /\ Known(es, o, K, l)

ShownInv ==
  ~ refused /\ ~ terminated =>
    \A K \in Kinds :
      Soon(commands, events, OnScreen(shown, widget, K), Scope, K, ListNow(graphs, type, Scope, K))

(* A command that does not tell a list does not change it.                 *)
LEMMA TellsEnds ==
  ASSUME NEW gs \in [Scopes -> GraphType], NEW ty, NEW c \in Command, NEW K \in Kinds
  PROVE  /\ EndsIn(Tells(gs, ty, c), Told(K), {ListNow(gs, ty, c.scope, K)})
         /\ None(Tells(gs, ty, c), Told(K)) =>
              \/ K = "modules" /\ c.kind \in {"connections", "connect", "disconnect"}
              \/ K = "connections" /\ c.kind = "modules"
<1> DEFINE m == ModuleList(gs, c.scope)
           l == ConnectionList(gs, ty, c.scope)
           T == Told(K)
           now == ListNow(gs, ty, c.scope, K)
<1>1. m \in Event /\ l \in Event /\ m.kind = "modules" /\ l.kind = "connections"
    BY CommandFields, ListsType DEF ModuleList, ConnectionList
<1>2. (m \in T <=> K = "modules") /\ (l \in T <=> K = "connections")
    BY <1>1 DEF Told
<1>3. (m \in T => m \in {now}) /\ (l \in T => l \in {now})
    BY <1>2 DEF ListNow
<1>4. K \in {"modules", "connections"}
    BY DEF Kinds
<1>5. c.kind \in {"create", "delete", "connect", "disconnect", "modules", "connections"}
    BY CommandFields
<1>6. PICK t : t = Tells(gs, ty, c)
    OBVIOUS
<1>7. /\ c.kind = "modules" => t = <<m>>
      /\ c.kind \in {"connections", "connect", "disconnect"} => t = <<l>>
      /\ c.kind \in {"create", "delete"} => t = <<m, l>>
    BY <1>6 DEF Tells
<1> HIDE DEF m, l, T, now
<1>8. CASE c.kind = "modules"
  <2>1. (None(<<m>>, T) <=> m \notin T) /\ (EndsIn(<<m>>, T, {now}) <=> m \notin T \/ m \in {now})
      BY OneEnds
  <2> QED BY <1>2, <1>3, <1>4, <1>6, <1>7, <1>8, <2>1 DEF T, now
<1>9. CASE c.kind \in {"connections", "connect", "disconnect"}
  <2>1. (None(<<l>>, T) <=> l \notin T) /\ (EndsIn(<<l>>, T, {now}) <=> l \notin T \/ l \in {now})
      BY OneEnds
  <2> QED BY <1>2, <1>3, <1>4, <1>6, <1>7, <1>9, <2>1 DEF T, now
<1>10. CASE c.kind \in {"create", "delete"}
  <2>1. t = <<m, l>> /\ Len(t) = 2 /\ t[1] = m /\ t[2] = l
      BY <1>7, <1>10
  <2>2. \A i \in 1 .. 2 : i = 1 \/ i = 2
      OBVIOUS
  <2>3. EndsIn(t, T, {now})
      BY <1>3, <2>1, <2>2 DEF EndsIn
  <2>4. 1 \in 1 .. 2 /\ 2 \in 1 .. 2
      OBVIOUS
  <2>5. ~ None(t, T)
      BY <1>2, <1>4, <2>1, <2>4 DEF None
  <2> QED BY <1>6, <2>3, <2>5 DEF T, now
<1> QED BY <1>5, <1>8, <1>9, <1>10

(* A command has been applied.                                             *)
LEMMA TailSoon ==
  ASSUME NEW q \in Seq(Command), q # << >>, NEW k, NEW K
  PROVE  /\ AllFor(q, k) => AllFor(Tail(q), k) /\ Head(q).scope = k
         /\ Requested(q, k, K) =>
              \/ Requested(Tail(q), k, K)
              \/ Head(q).kind = K /\ Head(q).scope = k /\ AllFor(Tail(q), k)
<1>1. /\ Len(q) \in Nat \ {0} /\ Len(Tail(q)) = Len(q) - 1 /\ Head(q) = q[1]
      /\ \A i \in 1 .. Len(q) - 1 : Tail(q)[i] = q[i + 1]
    OBVIOUS
<1>2. AllFor(q, k) => AllFor(Tail(q), k) /\ Head(q).scope = k
  <2>1. \A i \in 1 .. Len(q) - 1 : i + 1 \in 1 .. Len(q)
      BY <1>1
  <2>2. 1 \in 1 .. Len(q)
      BY <1>1
  <2> QED BY <1>1, <2>1, <2>2 DEF AllFor
<1>3. ASSUME NEW i \in 1 .. Len(q), q[i].kind = K, \A j \in i .. Len(q) : q[j].scope = k
      PROVE  \/ Requested(Tail(q), k, K)
             \/ Head(q).kind = K /\ Head(q).scope = k /\ AllFor(Tail(q), k)
  <2>1. CASE i = 1
    <3>1. AllFor(q, k)
        BY <1>3, <2>1 DEF AllFor
    <3> QED BY <1>1, <1>2, <1>3, <2>1, <3>1
  <2>2. CASE i # 1
    <3>1. i - 1 \in 1 .. Len(q) - 1 /\ (i - 1) + 1 = i
        BY <1>1, <2>2
    <3>2. \A j \in i - 1 .. Len(q) - 1 : j \in 1 .. Len(q) - 1 /\ j + 1 \in i .. Len(q)
        BY <1>1, <2>2
    <3>3. Tail(q)[i - 1].kind = K
        BY <1>1, <1>3, <3>1
    <3>4. \A j \in i - 1 .. Len(q) - 1 : Tail(q)[j].scope = k
        BY <1>1, <1>3, <3>2
    <3> QED BY <1>1, <3>1, <3>3, <3>4 DEF Requested
  <2> QED BY <2>1, <2>2
<1> QED BY <1>2, <1>3 DEF Requested

(* Lists behind those that are under way.                                  *)
LEMMA ListsSent ==
  ASSUME NEW es \in Seq(Event), NEW t \in Seq(Event), NEW o, NEW K, NEW l,
         EndsIn(t, Told(K), {l}), None(t, Told(K)) => Known(es, o, K, l)
  PROVE  Known(es \o t, o, K, l)
<1>1. None(es \o t, Told(K)) <=> None(es, Told(K)) /\ None(t, Told(K))
    BY BothNone
<1>2. EndsIn(es \o t, Told(K), {l})
    BY BehindEnds DEF Known
<1> QED BY <1>1, <1>2 DEF Known

(* The same lists where the modules are the same.                          *)
HasSame(gs, hs) ==
  /\ gs \in [Scopes -> GraphType] /\ hs \in [Scopes -> GraphType]
  /\ \A j \in Scopes : hs[j].modules = gs[j].modules

LEMMA SameModules ==
  ASSUME NEW gs, NEW hs, HasSame(gs, hs), NEW k \in Scopes, NEW ty, NEW uy
  PROVE  ListNow(hs, uy, k, "modules") = ListNow(gs, ty, k, "modules")
<1> USE DEF HasSame
<1>1. 0 \in Scopes
    BY IdsType
<1> DEFINE N == {n \in ToSet(gs[0].modules) : NameContains(n, k)}
<1>2. \A m \in N : m \in Scopes
  <2>1. gs[0].modules \in Seq(Ids)
      BY <1>1 DEF GraphType
  <2>2. ToSet(gs[0].modules) \subseteq Ids
      BY <2>1, ListOf
  <2> QED BY <2>2, IdsType
<1>3. hs[0].modules = gs[0].modules
    BY <1>1
<1>4. N = {n \in ToSet(hs[0].modules) : NameContains(n, k)}
    BY <1>3
<1>5. /\ ScopedModules(gs, k) = IF k = 0 THEN ToSet(gs[0].modules)
                                ELSE UNION {ToSet(gs[m].modules) : m \in N}
      /\ ScopedModules(hs, k) = IF k = 0 THEN ToSet(hs[0].modules)
                                ELSE UNION {ToSet(hs[m].modules) : m \in N}
    BY <1>4 DEF ScopedModules
<1> HIDE DEF N
<1>6. \A m \in N : ToSet(hs[m].modules) = ToSet(gs[m].modules)
    BY <1>2
<1>7. {ToSet(hs[m].modules) : m \in N} = {ToSet(gs[m].modules) : m \in N}
    BY <1>6
<1>8. ScopedModules(hs, k) = ScopedModules(gs, k)
  <2>1. CASE k = 0
      BY <1>3, <1>5, <2>1
  <2>2. CASE k # 0
      BY <1>5, <1>7, <2>2, Zenon
  <2> QED BY <2>1, <2>2
<1> QED BY <1>8 DEF ListNow, ModuleList

(* The engine applies one command.                                         *)
LEMMA EngineShows ==
  ASSUME SessionInv, ShownInv, EngineApplies
  PROVE  ShownInv'
<1>1. SUFFICES ASSUME ~ refused', ~ terminated', NEW K \in Kinds
               PROVE  Soon(commands', events', OnScreen(shown', widget', K), Last(scopesList'), K,
                           ListNow(graphs', type', Last(scopesList'), K))
    BY DEF ShownInv, Scope
<1>2. PICK q \in Seq(Command) : q = commands /\ q # << >> /\ commands' = Tail(q)
    BY DEF SessionInv, SessionTyped, EngineApplies
<1>3. PICK k \in Scopes : k = Scope /\ Last(scopesList') = k
  <2>1. Scope \in Scopes
      BY ScopeIs DEF SessionInv
  <2>2. scopesList' = scopesList
      BY DEF EngineApplies, tuiVars
  <2> QED BY <2>1, <2>2 DEF Scope
<1>4. PICK o : o = OnScreen(shown, widget, K) /\ OnScreen(shown', widget', K) = o
    BY DEF EngineApplies, tuiVars
<1>5. PICK es \in Seq(Event) : es = events
    BY DEF SessionInv, SessionTyped
<1>6. PICK gs \in [Scopes -> GraphType] : gs = graphs
    BY DEF SessionInv, AllWired
<1>7. PICK c \in Command : /\ c = Head(q) /\ Apply(c)
                           /\ c.kind = "create" => nextId \in Ids
    BY <1>2, EngineKeeps
<1>8. PICK ty : ty = type
    OBVIOUS
<1>9. /\ AllWired(graphs', nextId', doubled')
      /\ c.kind \in {"modules", "connections"} => graphs' = gs /\ type' = ty
      /\ c.kind \in {"connect", "disconnect"} =>
              \A j \in Scopes : graphs'[j].modules = gs[j].modules
      /\ \/ Emit(Tells(graphs', type', c))
         \/ /\ c.kind \notin {"modules", "connections"}
            /\ graphs' = gs /\ type' = ty /\ UNCHANGED <<events, refused>>
    BY <1>1, <1>6, <1>7, <1>8, Applied DEF Outcome
<1>10. PICK hs \in [Scopes -> GraphType] : hs = graphs'
    BY <1>9 DEF AllWired
<1>11. PICK uy : uy = type'
    OBVIOUS
<1>12. /\ AllFor(q, k) => AllFor(Tail(q), k) /\ c.scope = k
       /\ Requested(q, k, K) =>
            \/ Requested(Tail(q), k, K)
            \/ c.kind = K /\ c.scope = k /\ AllFor(Tail(q), k)
    BY <1>2, <1>7, TailSoon
<1>13. ~ refused => Soon(q, es, o, k, K, ListNow(gs, ty, k, K))
  <2>1. ~ terminated
      BY DEF EngineApplies
  <2> QED BY <1>2, <1>3, <1>4, <1>5, <1>6, <1>8, <2>1 DEF ShownInv
<1>14. K \in {"modules", "connections"}
    BY DEF Kinds
<1>15. CASE Emit(Tells(hs, uy, c))
  <2>1. PICK t \in Seq(Event) : t = Tells(hs, uy, c)
      BY TellsType
  <2>2. ~ refused /\ events' = es \o t
      BY <1>1, <1>5, <1>15, <2>1, Emitted
  <2>3. /\ EndsIn(t, Told(K), {ListNow(hs, uy, c.scope, K)})
        /\ None(t, Told(K)) =>
              \/ K = "modules" /\ c.kind \in {"connections", "connect", "disconnect"}
              \/ K = "connections" /\ c.kind = "modules"
      BY <2>1, TellsEnds
  <2>4. None(t, Told(K)) => ListNow(hs, uy, k, K) = ListNow(gs, ty, k, K) /\ c.kind # K
    <3>1. ASSUME \A j \in Scopes : hs[j].modules = gs[j].modules
          PROVE  ListNow(hs, uy, k, "modules") = ListNow(gs, ty, k, "modules")
      <4>1. HasSame(gs, hs)
          BY <3>1 DEF HasSame
      <4> QED BY <4>1, SameModules
    <3> QED BY <1>9, <1>10, <1>11, <2>3, <3>1
  <2>5. PICK l : l = ListNow(hs, uy, k, K)
      OBVIOUS
  <2>6. CASE Requested(Tail(q), k, K)
      BY <1>2, <1>3, <1>4, <1>10, <1>11, <2>6 DEF Soon
  <2>7. CASE ~ Requested(Tail(q), k, K)
    <3>1. AllFor(Tail(q), k) /\ c.scope = k
        BY <1>12, <1>13, <2>2, <2>7 DEF Soon
    <3>2. None(t, Told(K)) => Known(es, o, K, l)
        BY <1>12, <1>13, <2>2, <2>4, <2>5, <2>7 DEF Soon
    <3>3. Known(es \o t, o, K, l)
        BY <2>3, <2>5, <3>1, <3>2, ListsSent
    <3> QED BY <1>2, <1>3, <1>4, <1>10, <1>11, <2>2, <2>5, <3>1, <3>3 DEF Soon
  <2> QED BY <2>6, <2>7
<1>16. CASE /\ c.kind \notin {"modules", "connections"}
            /\ graphs' = gs /\ type' = ty /\ UNCHANGED <<events, refused>>
  <2>1. ~ refused /\ events' = es
      BY <1>1, <1>5, <1>16
  <2>2. \/ Requested(Tail(q), k, K)
        \/ AllFor(Tail(q), k) /\ Known(es, o, K, ListNow(gs, ty, k, K))
      BY <1>12, <1>13, <1>14, <1>16, <2>1 DEF Soon
  <2>3. Soon(Tail(q), es, o, k, K, ListNow(gs, ty, k, K))
      BY <2>2 DEF Soon
  <2> QED BY <1>2, <1>3, <1>4, <1>16, <2>1, <2>3
<1> QED BY <1>9, <1>10, <1>11, <1>15, <1>16

(* A command for this scope behind others for it.                          *)
LEMMA BehindAll ==
  ASSUME NEW q \in Seq(Command), NEW c \in Command, NEW k, c.scope = k, AllFor(q, k)
  PROVE  AllFor(q \o <<c>>, k)
<1>1. PICK t \in Seq(Command) : t = <<c>>
    BY OneItem
<1>2. Len(t) = 1 /\ t[1] = c
    BY <1>1
<1>3. PICK p : p = q \o t
    OBVIOUS
<1>4. /\ Len(q) \in Nat /\ Len(p) = Len(q) + 1 /\ \A i \in 1 .. Len(q) : p[i] = q[i]
      /\ \A i \in 1 .. Len(t) : p[Len(q) + i] = t[i]
  <2>1. /\ Len(q) \in Nat /\ Len(q \o t) = Len(q) + Len(t)
        /\ \A i \in 1 .. Len(q) : (q \o t)[i] = q[i]
        /\ \A i \in 1 .. Len(t) : (q \o t)[Len(q) + i] = t[i]
      BY BehindAnother
  <2>2. /\ Len(p) = Len(q) + Len(t)
        /\ \A i \in 1 .. Len(q) : p[i] = q[i]
        /\ \A i \in 1 .. Len(t) : p[Len(q) + i] = t[i]
      BY <1>3, <2>1, Zenon
  <2> QED BY <1>2, <2>1, <2>2
<1>5. p[Len(q) + 1] = c
    BY <1>2, <1>4
<1>6. \A i \in 1 .. Len(p) : i \in 1 .. Len(q) \/ i = Len(q) + 1
    BY <1>4
<1>7. AllFor(p, k)
    BY <1>4, <1>5, <1>6 DEF AllFor
<1> QED BY <1>1, <1>3, <1>7

(* It comes behind the request, or leaves the lists alone.                 *)
LEMMA BehindSoon ==
  ASSUME NEW q \in Seq(Command), NEW c \in Command, NEW k, c.scope = k, NEW K, NEW es, NEW o, NEW l,
         Soon(q, es, o, k, K, l)
  PROVE  Soon(q \o <<c>>, es, o, k, K, l)
<1>1. PICK t \in Seq(Command) : t = <<c>>
    BY OneItem
<1>2. Len(t) = 1 /\ t[1] = c
    BY <1>1
<1>3. PICK p : p = q \o t
    OBVIOUS
<1>4. /\ Len(q) \in Nat /\ Len(p) = Len(q) + 1 /\ \A i \in 1 .. Len(q) : p[i] = q[i]
      /\ \A i \in 1 .. Len(t) : p[Len(q) + i] = t[i]
  <2>1. /\ Len(q) \in Nat /\ Len(q \o t) = Len(q) + Len(t)
        /\ \A i \in 1 .. Len(q) : (q \o t)[i] = q[i]
        /\ \A i \in 1 .. Len(t) : (q \o t)[Len(q) + i] = t[i]
      BY BehindAnother
  <2>2. /\ Len(p) = Len(q) + Len(t)
        /\ \A i \in 1 .. Len(q) : p[i] = q[i]
        /\ \A i \in 1 .. Len(t) : p[Len(q) + i] = t[i]
      BY <1>3, <2>1, Zenon
  <2> QED BY <1>2, <2>1, <2>2
<1>5. p[Len(q) + 1] = c
    BY <1>2, <1>4
<1>7. AllFor(q, k) => AllFor(p, k)
    BY <1>1, <1>3, BehindAll
<1>8. ASSUME NEW i \in 1 .. Len(q), q[i].kind = K, \A j \in i .. Len(q) : q[j].scope = k
      PROVE  Requested(p, k, K)
  <2>1. i \in 1 .. Len(p) /\ p[i].kind = K
      BY <1>4, <1>8
  <2>2. ASSUME NEW j \in i .. Len(p) PROVE p[j].scope = k
    <3>1. (j \in i .. Len(q) /\ j \in 1 .. Len(q)) \/ j = Len(q) + 1
        BY <1>4
    <3> QED BY <1>4, <1>5, <1>8, <3>1
  <2> QED BY <2>1, <2>2 DEF Requested
<1>9. Requested(q, k, K) => Requested(p, k, K)
    BY <1>8 DEF Requested
<1> QED BY <1>1, <1>3, <1>7, <1>9 DEF Soon

(* A command is typed.                                                     *)
LEMMA TypeShows ==
  ASSUME SessionInv, ShownInv, TypeCommand
  PROVE  ShownInv'
<1>1. PICK c \in Typed : Push(<<c>>)
    BY DEF TypeCommand
<1>2. c \in Command /\ c.scope = Scope
    BY <1>1, TypedIs DEF SessionInv
<1>3. PICK items \in Seq(Command) : items = <<c>>
    BY <1>2, OneItem
<1>4. PICK q \in Seq(Command) : q = commands
    BY DEF SessionInv, SessionTyped
<1>5. Push(items)
    BY <1>1, <1>3
<1>6. ~ refused' => ~ refused /\ commands' = q \o items
    BY <1>4, <1>5, Sent
<1>7. UNCHANGED <<graphs, type, terminated, events, scopesList, shown, widget>>
    BY DEF TypeCommand, engineVars
<1>8. SUFFICES ASSUME ~ refused', ~ terminated', NEW K \in Kinds
               PROVE  Soon(commands', events, OnScreen(shown, widget, K), Scope, K,
                           ListNow(graphs, type, Scope, K))
    BY <1>7 DEF ShownInv, Scope
<1>9. Soon(q, events, OnScreen(shown, widget, K), Scope, K, ListNow(graphs, type, Scope, K))
    BY <1>4, <1>6, <1>7, <1>8 DEF ShownInv
<1>10. Soon(q \o <<c>>, events, OnScreen(shown, widget, K), Scope, K, ListNow(graphs, type, Scope, K))
    BY <1>2, <1>9, BehindSoon
<1> QED BY <1>3, <1>6, <1>8, <1>10

(* After a change of scope both lists are requested.                       *)
LEMMA MoveShows ==
  ASSUME SessionInv, NEW k \in Scopes, Ask(k), Last(scopesList') = k
  PROVE  ShownInv'
<1>1. PICK q \in Seq(Command) : q = commands
    BY DEF SessionInv, SessionTyped
<1>2. PICK p : p = commands'
    OBVIOUS
<1>3. ~ refused' =>
         /\ ~ refused /\ Len(p) = Len(q) + 2
         /\ p[Len(q) + 1] = [kind |-> "modules", scope |-> k]
         /\ p[Len(q) + 2] = [kind |-> "connections", scope |-> k]
    BY <1>1, <1>2, Asked
<1>4. SUFFICES ASSUME ~ refused', NEW K \in Kinds
               PROVE  Soon(p, events', OnScreen(shown', widget', K), k, K, ListNow(graphs', type', k, K))
    BY <1>2 DEF ShownInv, Scope
<1>5. PICK n \in Nat : n = Len(q)
    OBVIOUS
<1>6. /\ Len(p) = n + 2
      /\ p[n + 1].kind = "modules" /\ p[n + 1].scope = k
      /\ p[n + 2].kind = "connections" /\ p[n + 2].scope = k
    BY <1>3, <1>4, <1>5
<1>7. /\ \A j \in n + 1 .. n + 2 : j = n + 1 \/ j = n + 2
      /\ n + 1 \in 1 .. n + 2 /\ n + 2 \in 1 .. n + 2
      /\ \A j \in n + 2 .. n + 2 : j = n + 2
    OBVIOUS
<1>8. Requested(p, k, K)
  <2>1. CASE K = "modules"
    <3>1. \A j \in n + 1 .. n + 2 : p[j].scope = k
        BY <1>6, <1>7
    <3> QED BY <1>6, <1>7, <2>1, <3>1 DEF Requested
  <2>2. CASE K = "connections"
    <3>1. \A j \in n + 2 .. n + 2 : p[j].scope = k
        BY <1>6, <1>7
    <3> QED BY <1>6, <1>7, <2>2, <3>1 DEF Requested
  <2> QED BY <2>1, <2>2 DEF Kinds
<1> QED BY <1>8 DEF Soon

(* The list that is shown was the last one, or another one comes.          *)
LEMMA HandleShows ==
  ASSUME SessionInv, ShownInv, HandleEvent
  PROVE  ShownInv'
<1>1. PICK q \in Seq(Event) : q = events /\ q # << >> /\ events' = Tail(q)
    BY DEF SessionInv, SessionTyped, HandleEvent
<1>2. PICK e \in Event : e = Head(q)
    BY <1>1
<1>3. UNCHANGED <<graphs, type, terminated, commands, scopesList, refused>>
    BY DEF HandleEvent, engineVars
<1>4. SUFFICES ASSUME ~ refused', ~ terminated', NEW K \in Kinds
               PROVE  Soon(commands, Tail(q), OnScreen(shown', widget', K), Scope, K,
                           ListNow(graphs, type, Scope, K))
    BY <1>1, <1>3 DEF ShownInv, Scope
<1>5. PICK o : o = OnScreen(shown, widget, K)
    OBVIOUS
<1>6. PICK p : p = OnScreen(shown', widget', K)
    OBVIOUS
<1>7. PICK l : l = ListNow(graphs, type, Scope, K)
    OBVIOUS
<1>8. Soon(commands, q, o, Scope, K, l)
    BY <1>1, <1>3, <1>4, <1>5, <1>7 DEF ShownInv
<1>9. p = IF e \in Told(K) THEN e ELSE o
  <2>1. CASE e.kind = "modules"
    <3>1. shown' = e.modules /\ widget' = widget
        BY <1>1, <1>2, <2>1 DEF HandleEvent
    <3>2. e = [kind |-> "modules", modules |-> e.modules]
        BY <2>1 DEF Event
    <3> QED BY <1>5, <1>6, <2>1, <3>1, <3>2 DEF OnScreen, Told, Kinds
  <2>2. CASE e.kind # "modules"
    <3>1. widget' = [names |-> e.names, connections |-> e.connections] /\ shown' = shown
        BY <1>1, <1>2, <2>2 DEF HandleEvent
    <3>2. e.kind = "connections"
          /\ e = [kind |-> "connections", names |-> e.names, connections |-> e.connections]
        BY <2>2 DEF Event
    <3> QED BY <1>5, <1>6, <2>2, <3>1, <3>2 DEF OnScreen, Told, Kinds
  <2> QED BY <2>1, <2>2
<1>10. ASSUME Known(q, o, K, l) PROVE Known(Tail(q), p, K, l)
  <2>1. /\ EndsIn(Tail(q), Told(K), {l})
        /\ None(Tail(q), Told(K)) => (e \in Told(K) => e \in {l})
        /\ None(Tail(q), Told(K)) /\ e \notin Told(K) => None(q, Told(K))
      BY <1>1, <1>2, <1>10, TailEnds DEF Known
  <2> QED BY <1>9, <1>10, <2>1 DEF Known
<1> QED BY <1>6, <1>7, <1>8, <1>10 DEF Soon

(* TUI::init has requested both lists.                                     *)
LEMMA ShownStarts == SessionInit => ShownInv
<1> SUFFICES ASSUME SessionInit PROVE ShownInv
    OBVIOUS
<1>1. /\ commands = << [kind |-> "modules", scope |-> 0], [kind |-> "connections", scope |-> 0] >>
      /\ scopesList = <<0>>
    BY DEF SessionInit
<1>2. Scope = 0
    BY <1>1 DEF Scope, Last
<1>3. PICK p : p = commands
    OBVIOUS
<1>4. /\ Len(p) = 2 /\ p[1].kind = "modules" /\ p[1].scope = 0
      /\ p[2].kind = "connections" /\ p[2].scope = 0
    BY <1>1, <1>3
<1>5. /\ 1 \in 1 .. 2 /\ 2 \in 1 .. 2 /\ \A j \in 1 .. 2 : j = 1 \/ j = 2
      /\ \A j \in 2 .. 2 : j = 2
    OBVIOUS
<1>6. \A j \in 1 .. 2 : p[j].scope = 0
    BY <1>4, <1>5
<1>7. \A j \in 2 .. 2 : p[j].scope = 0
    BY <1>4, <1>5
<1>8. Requested(p, 0, "modules") /\ Requested(p, 0, "connections")
    BY <1>4, <1>5, <1>6, <1>7 DEF Requested
<1> QED BY <1>2, <1>3, <1>8 DEF ShownInv, Soon, Kinds

(* Every step keeps ShownInv.                                              *)
LEMMA ShownKeeps == SessionInv /\ ShownInv /\ [SessionNext]_sessionVars => ShownInv'
<1> SUFFICES ASSUME SessionInv, ShownInv, [SessionNext]_sessionVars PROVE ShownInv'
    OBVIOUS
<1>1. CASE EngineApplies
    BY <1>1, EngineShows
<1>2. CASE TypeCommand
    BY <1>2, TypeShows
<1>3. CASE TypeEnter
  <2>1. PICK k \in Ids : Ask(k) /\ Last(scopesList') = k
      BY <1>3, Entered
  <2> QED BY <2>1, MoveShows, IdsType
<1>4. CASE TypeExit
  <2>1. PICK k \in Scopes : k = Last(scopesList') /\ Ask(k)
      BY <1>4, Left
  <2> QED BY <2>1, MoveShows
<1>5. CASE HandleEvent
    BY <1>5, HandleShows
<1>6. CASE UNCHANGED sessionVars
  <2>1. UNCHANGED <<graphs, type, terminated, commands, events, scopesList, shown, widget, refused>>
      BY <1>6 DEF sessionVars, engineVars, tuiVars
  <2> QED BY <2>1 DEF ShownInv, Scope
<1> QED BY <1>1, <1>2, <1>3, <1>4, <1>5, <1>6 DEF SessionNext

(* ShownInv always holds.                                                  *)
LEMMA ShownInvariant == SessionSpec => []ShownInv
BY SessionInvariant, ShownStarts, ShownKeeps, PTL DEF SessionSpec

(* With nothing under way, what is on screen is current.                   *)
LEMMA ShownNow ==
  ASSUME SessionInv, ShownInv, UpToDate, ~ refused, ~ terminated
  PROVE  /\ shown = ScopedModules(graphs, Scope)
         /\ widget = [names |-> shown, connections |-> ListedConnections(graphs, type, Scope)]
<1>1. commands = << >> /\ events = << >>
    BY DEF UpToDate
<1>2. ASSUME NEW K \in Kinds PROVE OnScreen(shown, widget, K) = ListNow(graphs, type, Scope, K)
  <2>1. Soon(commands, events, OnScreen(shown, widget, K), Scope, K, ListNow(graphs, type, Scope, K))
      BY DEF ShownInv
  <2>2. Len(commands) = 0
      BY <1>1
  <2>3. ~ Requested(commands, Scope, K)
      BY <2>2 DEF Requested
  <2>4. None(events, Told(K))
      BY <1>1, NothingEnds
  <2> QED BY <2>1, <2>3, <2>4 DEF Soon, Known
<1>3. shown = ScopedModules(graphs, Scope)
  <2>1. OnScreen(shown, widget, "modules") = ListNow(graphs, type, Scope, "modules")
      BY <1>2 DEF Kinds
  <2> QED BY <2>1 DEF OnScreen, ListNow, ModuleList
<1>4. /\ widget.names = ScopedModules(graphs, Scope)
      /\ widget.connections = ListedConnections(graphs, type, Scope)
  <2>1. OnScreen(shown, widget, "connections") = ListNow(graphs, type, Scope, "connections")
      BY <1>2 DEF Kinds
  <2> QED BY <2>1 DEF OnScreen, ListNow, ConnectionList
<1>5. widget = [names |-> widget.names, connections |-> widget.connections]
    BY DEF SessionInv, SessionTyped
<1> QED BY <1>3, <1>4, <1>5

(***************************************************************************)
(* When the queues are empty, nothing was refused and the engine runs, TUI *)
(* and widget show what the engine lists for the scope that the TUI is in, *)
(* be that an instrument's id or a first digit (TUI::processEvents).       *)
(***************************************************************************)
THEOREM ShownAlwaysCurrent == SessionSpec => []ShownIsCurrent
<1>1. SessionInv /\ ShownInv => ShownIsCurrent
    BY ShownNow DEF ShownIsCurrent
<1> QED BY <1>1, SessionInvariant, ShownInvariant, PTL

-----------------------------------------------------------------------------
(***************************************************************************)
(* The scope the TUI is in.  It was entered from the engine's graph with   *)
(* nothing under way, so that all that is under way since is for a graph   *)
(* of an instrument that it stands for, and none of that deletes one.      *)
(***************************************************************************)
Stands == \E m : StandsFor(graphs, type, Scope, m)

LiveInv ==
  ~ hasty =>
    /\ Len(scopesList) <= 2
    /\ Scope # 0 /\ ~ refused /\ ~ terminated => AllFor(commands, Scope) /\ Stands

(* No command for an instrument's own graph deletes an instrument.         *)
LEMMA EngineLives ==
  ASSUME SessionInv, LiveInv, EngineApplies
  PROVE  LiveInv'
<1>1. UNCHANGED <<scopesList, hasty>> /\ ~ terminated
    BY DEF EngineApplies, tuiVars
<1>2. PICK q \in Seq(Command) : q = commands /\ q # << >> /\ commands' = Tail(q)
    BY DEF SessionInv, SessionTyped, EngineApplies
<1>3. PICK c \in Command : /\ c = Head(q) /\ Apply(c)
                           /\ c.kind = "create" => nextId \in Ids
    BY <1>2, EngineKeeps
<1>4. /\ AllWired(graphs', nextId', doubled')
      /\ \A m : StandsFor(graphs, type, c.scope, m) => StandsFor(graphs', type', c.scope, m)
      /\ Emit(Tells(graphs', type', c)) \/ UNCHANGED refused
    BY <1>3, Applied DEF Outcome
<1>5. ~ refused' => ~ refused
  <2>1. CASE Emit(Tells(graphs', type', c))
    <3>1. PICK hs \in [Scopes -> GraphType] : hs = graphs'
        BY <1>4 DEF AllWired
    <3>2. PICK ty : ty = type'
        OBVIOUS
    <3>3. PICK t \in Seq(Event) : t = Tells(hs, ty, c)
        BY TellsType
    <3>4. events \in Seq(Event) /\ Emit(t)
        BY <2>1, <3>1, <3>2, <3>3 DEF SessionInv, SessionTyped
    <3> QED BY <3>4, Emitted
  <2> QED BY <1>4, <2>1
<1>6. ASSUME ~ hasty', Scope # 0, ~ refused'
      PROVE  AllFor(Tail(q), Scope) /\ \E m : StandsFor(graphs', type', Scope, m)
  <2>1. AllFor(q, Scope) /\ \E m : StandsFor(graphs, type, Scope, m)
      BY <1>1, <1>2, <1>5, <1>6 DEF LiveInv, Stands
  <2>2. AllFor(Tail(q), Scope) /\ c.scope = Scope
      BY <1>2, <1>3, <2>1, TailSoon
  <2> QED BY <1>4, <2>1, <2>2
<1>7. Scope' = Scope
    BY <1>1 DEF Scope
<1> QED BY <1>1, <1>2, <1>6, <1>7 DEF LiveInv, Stands

(* What is typed is for this scope.                                        *)
LEMMA TypeLives ==
  ASSUME SessionInv, LiveInv, TypeCommand
  PROVE  LiveInv'
<1>1. PICK c \in Typed : Push(<<c>>)
    BY DEF TypeCommand
<1>2. c \in Command /\ c.scope = Scope
    BY <1>1, TypedIs DEF SessionInv
<1>3. PICK items \in Seq(Command) : items = <<c>>
    BY <1>2, OneItem
<1>4. PICK q \in Seq(Command) : q = commands
    BY DEF SessionInv, SessionTyped
<1>5. Push(items)
    BY <1>1, <1>3
<1>6. ~ refused' => ~ refused /\ commands' = q \o items
    BY <1>4, <1>5, Sent
<1>7. UNCHANGED <<graphs, type, terminated, scopesList, hasty>>
    BY DEF TypeCommand, engineVars
<1>8. AllFor(q, Scope) => AllFor(q \o <<c>>, Scope)
    BY <1>2, BehindAll
<1>9. Scope' = Scope
    BY <1>7 DEF Scope
<1> QED BY <1>3, <1>4, <1>6, <1>7, <1>8, <1>9 DEF LiveInv, Stands

(* enter: with nothing under way, the names shown are those there are.     *)
LEMMA EnterLives ==
  ASSUME SessionInv, ShownInv, LiveInv, TypeEnter
  PROVE  LiveInv'
<1>1. SUFFICES ASSUME ~ hasty' PROVE LiveInv'
    BY DEF LiveInv
<1>2. ~ hasty /\ UpToDate /\ Scope = 0
  <2>1. hasty' = (hasty \/ ~ UpToDate \/ Scope # 0)
      BY DEF TypeEnter
  <2> QED BY <1>1, <2>1
<1>3. Len(scopesList) = 1
    BY <1>2, ScopeIs DEF SessionInv
<1>4. PICK k \in Ids : /\ \E m \in widget.names : IsInstrument(m) /\ StartsWith(m, k)
                       /\ Ask(k)
                       /\ Len(scopesList') = Len(scopesList) + 1 /\ Last(scopesList') = k
    BY Entered
<1>5. Len(scopesList') <= 2
    BY <1>3, <1>4
<1>6. graphs' = graphs /\ type' = type /\ terminated' = terminated
    BY DEF TypeEnter, engineVars
<1>7. ASSUME ~ refused', ~ terminated
      PROVE  AllFor(commands', k) /\ \E m : StandsFor(graphs, type, k, m)
  <2>1. PICK p : p = commands'
      OBVIOUS
  <2>2. /\ ~ refused /\ Len(p) = Len(commands) + 2
        /\ p[Len(commands) + 1] = [kind |-> "modules", scope |-> k]
        /\ p[Len(commands) + 2] = [kind |-> "connections", scope |-> k]
    <3>1. commands \in Seq(Command) /\ k \in Scopes
        BY IdsType DEF SessionInv, SessionTyped
    <3> QED BY <1>4, <1>7, <2>1, <3>1, Asked
  <2>3. Len(commands) = 0
      BY <1>2 DEF UpToDate
  <2>4. Len(p) = 2 /\ p[1].scope = k /\ p[2].scope = k
      BY <2>2, <2>3
  <2>5. \A i \in 1 .. 2 : i = 1 \/ i = 2
      OBVIOUS
  <2>6. AllFor(p, k)
      BY <2>4, <2>5 DEF AllFor
  <2>7. shown = ScopedModules(graphs, Scope) /\ widget.names = shown
      BY <1>2, <1>7, <2>2, ShownNow
  <2>8. PICK m \in widget.names : IsInstrument(m) /\ StartsWith(m, k)
      BY <1>4
  <2>9. m \in ToSet(graphs[0].modules)
      BY <1>2, <2>7, <2>8 DEF ScopedModules
  <2>10. StandsFor(graphs, type, k, m)
      BY <2>8, <2>9 DEF StandsFor, IsInstrument
  <2> QED BY <2>1, <2>6, <2>10
<1>8. Scope' = k
    BY <1>4 DEF Scope
<1> QED BY <1>4, <1>5, <1>6, <1>7, <1>8 DEF LiveInv, Stands

(* exit leads back to the engine's graph.                                  *)
LEMMA ExitLives ==
  ASSUME SessionInv, LiveInv, TypeExit
  PROVE  LiveInv'
<1>1. UNCHANGED hasty
    BY DEF TypeExit
<1>2. /\ scopesList' # << >> /\ scopesList'[1] = 0 /\ scopesList' \in Seq(Scopes)
      /\ Len(scopesList') = Len(scopesList) - 1
    BY Left
<1>3. PICK s \in Seq(Scopes) : s = scopesList'
    BY <1>2
<1>4. PICK n : n = Len(scopesList)
    OBVIOUS
<1>5. s # << >> /\ s[1] = 0 /\ Len(s) = n - 1
    BY <1>2, <1>3, <1>4
<1>6. ASSUME ~ hasty PROVE Len(s) = 1 /\ Last(s) = 0
  <2>1. n <= 2 /\ n \in Nat
      BY <1>4, <1>6, ScopeIs DEF LiveInv, SessionInv
  <2>2. Len(s) \in Nat \ {0}
      BY <1>5
  <2>3. Len(s) = 1
      BY <1>5, <2>1, <2>2
  <2> QED BY <1>5, <2>3 DEF Last
<1>7. ASSUME ~ hasty' PROVE Len(scopesList') <= 2 /\ Last(scopesList') = 0
  <2>1. Len(s) = 1 /\ Last(s) = 0
      BY <1>1, <1>6, <1>7
  <2> QED BY <1>3, <2>1
<1> QED BY <1>7 DEF LiveInv, Scope

(* Every step keeps LiveInv.                                               *)
LEMMA LiveKeeps == SessionInv /\ ShownInv /\ LiveInv /\ [SessionNext]_sessionVars => LiveInv'
<1> SUFFICES ASSUME SessionInv, ShownInv, LiveInv, [SessionNext]_sessionVars PROVE LiveInv'
    OBVIOUS
<1>1. CASE EngineApplies
    BY <1>1, EngineLives
<1>2. CASE TypeCommand
    BY <1>2, TypeLives
<1>3. CASE TypeEnter
    BY <1>3, EnterLives
<1>4. CASE TypeExit
    BY <1>4, ExitLives
<1>5. CASE UNCHANGED <<graphs, type, terminated, commands, scopesList, refused, hasty>>
    BY <1>5 DEF LiveInv, Stands, Scope
<1>6. HandleEvent \/ UNCHANGED sessionVars =>
        UNCHANGED <<graphs, type, terminated, commands, scopesList, refused, hasty>>
    BY DEF HandleEvent, sessionVars, engineVars, tuiVars
<1> QED BY <1>1, <1>2, <1>3, <1>4, <1>5, <1>6 DEF SessionNext

(* The TUI starts in the engine's graph.                                   *)
LEMMA LiveStarts == SessionInit => LiveInv
<1> SUFFICES ASSUME SessionInit PROVE LiveInv
    OBVIOUS
<1>1. scopesList = <<0>>
    BY DEF SessionInit
<1>2. Scope = 0 /\ Len(scopesList) = 1
    BY <1>1 DEF Scope, Last
<1> QED BY <1>2 DEF LiveInv

(***************************************************************************)
(* What is typed in a scope goes to an instrument of the engine, never to  *)
(* the engine's own graph (getScopedAudioGraph falls back to it), and in   *)
(* the scope of an instrument's id to that instrument: unless it was       *)
(* entered too early or from inside another one, or a list was lost.       *)
(***************************************************************************)
THEOREM ScopeAlwaysLive == SessionSpec => []ScopeIsLive
<1>1. ASSUME SessionInv, LiveInv, Scope # 0, ~ hasty, ~ refused, ~ terminated
      PROVE  /\ EditedGraph # 0
             /\ Scope \in DOMAIN type /\ IsInstrument(Scope) => EditedGraph = Scope
  <2>1. PICK k : k = Scope
      OBVIOUS
  <2>2. \E m : StandsFor(graphs, type, k, m)
      BY <1>1, <2>1 DEF LiveInv, Stands
  <2>3. PICK g \in Scopes : /\ g = ScopedGraph(graphs, type, k)
                            /\ g # 0 /\ StandsFor(graphs, type, k, g)
      BY <1>1, <2>2, ScopedIs DEF SessionInv, AllWired
  <2>4. EditedGraph = g
      BY <2>1, <2>3 DEF EditedGraph
  <2>5. ASSUME k \in DOMAIN type, type[k] = "instrument" PROVE g = k
    <3>1. k >= 10 /\ k \in Ids
        BY <1>1, <2>5 DEF SessionInv, TypesKnown
    <3>2. g \in Ids
        BY <2>3 DEF Scopes
    <3>3. g \in 1 .. 99 /\ k \in 1 .. 99
        BY <3>1, <3>2, IdsType
    <3>4. k = g \/ k = g \div 10
        BY <2>3 DEF StandsFor, StartsWith
    <3>5. g \div 10 <= 9
        BY <3>3
    <3> QED BY <3>1, <3>3, <3>4, <3>5
  <2> QED BY <2>1, <2>3, <2>4, <2>5 DEF IsInstrument
<1>2. SessionInv /\ LiveInv => ScopeIsLive
    BY <1>1 DEF ScopeIsLive
<1> QED BY <1>2, SessionInvariant, ShownInvariant, LiveStarts, LiveKeeps, PTL DEF SessionSpec
=============================================================================
