---------------------------- MODULE ImageProofs ----------------------------
(***************************************************************************)
(* Theorems about GraphImage, for every set of files.                      *)
(***************************************************************************)
EXTENDS GraphImage, TLAPS, FiniteSetTheorems, WellFoundedInduction

-----------------------------------------------------------------------------
(* One pass over the edge table *)

\* Induction up to n, for a property given as a set.
LEMMA UpTo ==
  ASSUME NEW n \in Nat, NEW T, 0 \in T, \A i \in 1 .. n : i - 1 \in T => i \in T
  PROVE  \A i \in 0 .. n : i \in T
  <1> DEFINE B == {i \in 0 .. n : i \notin T}
  <1>1. SUFFICES ASSUME B # {} PROVE FALSE
    BY <1>1
  <1>2. B \subseteq Nat
    OBVIOUS
  <1>3. PICK x \in B : \A y \in B : ~(<<y, x>> \in OpToRel(<, Nat))
    BY <1>1, <1>2, WFMin, NatLessThanWellFounded
  <1>4. \A y \in B : ~(y < x)
    BY <1>2, <1>3 DEF OpToRel
  <1>5. x \in 1 .. n /\ x - 1 \in 0 .. n
    OBVIOUS
  <1>6. x - 1 \notin B
    BY <1>4, <1>5
  <1>7. QED
    BY <1>5, <1>6

\* What n operations on U, one after another, make of a.
Operations(n, U) == [1 .. n -> [U -> U]]
Runs(n, U, a, G) ==
  {f \in [0 .. n -> U] : f[0] = a /\ \A i \in 1 .. n : f[i] = G[i][f[i - 1]]}

\* A recursion over 1 .. n has a solution.
LEMMA Iterates ==
  ASSUME NEW n \in Nat, NEW U, NEW a \in U, NEW G \in Operations(n, U)
  PROVE  \E f : f \in Runs(n, U, a, G)
  <1> USE DEF Operations
  <1> DEFINE Upto(k, f) == f[0] = a /\ \A i \in 1 .. k : f[i] = G[i][f[i - 1]]
             T == {k \in 0 .. n : \E f \in [0 .. n -> U] : Upto(k, f)}
  <1>1. 0 \in T
    <2> DEFINE h == [k \in 0 .. n |-> a]
    <2>1. h \in [0 .. n -> U] /\ h[0] = a
      OBVIOUS
    <2> HIDE DEF h
    <2>2. Upto(0, h)
      BY <2>1
    <2>3. 0 \in 0 .. n
      OBVIOUS
    <2>4. QED
      BY <2>1, <2>2, <2>3
  <1>2. ASSUME NEW i \in 1 .. n, i - 1 \in T PROVE i \in T
    <2>1. PICK f \in [0 .. n -> U] : Upto(i - 1, f)
      BY <1>2
    <2> DEFINE g == [f EXCEPT ![i] = G[i][f[i - 1]]]
    <2>2. f[i - 1] \in U /\ g \in [0 .. n -> U]
      OBVIOUS
    <2>3. \A k \in 0 .. n : g[k] = IF k = i THEN G[i][f[i - 1]] ELSE f[k]
      OBVIOUS
    <2> HIDE DEF g
    <2>4. Upto(i, g)
      <3>1. g[0] = a
        BY <2>1, <2>3
      <3>2. ASSUME NEW k \in 1 .. i PROVE g[k] = G[k][g[k - 1]]
        <4>1. k \in 0 .. n /\ k - 1 \in 0 .. n /\ k - 1 # i
          OBVIOUS
        <4>2. g[k - 1] = f[k - 1]
          BY <2>3, <4>1
        <4>3. CASE k = i
          BY <2>3, <4>1, <4>2, <4>3
        <4>4. CASE k # i
          <5>1. k \in 1 .. (i - 1)
            BY <4>4
          <5>2. g[k] = f[k] /\ f[k] = G[k][f[k - 1]]
            BY <2>1, <2>3, <4>1, <4>4, <5>1
          <5>3. QED
            BY <4>2, <5>2
        <4>5. QED
          BY <4>3, <4>4
      <3>3. QED
        BY <3>1, <3>2
    <2>5. QED
      BY <2>2, <2>4
  <1>3. n \in T
    <2> HIDE DEF T
    <2>1. \A i \in 0 .. n : i \in T
      BY <1>1, <1>2, UpTo
    <2>2. QED
      BY <2>1
  <1>4. QED
    BY <1>3 DEF Runs

-----------------------------------------------------------------------------
(* The invariant *)

\* The tables that were read hold records, each of which refers to others that are
\* there.
Shape ==
  /\ file \in Files /\ at \in Nat \ {0}
  /\ pc \in {"nodes", "regions", "edges", "passes", "features", "done"}
  /\ verdict \in {"reading", "record", "duplicate", "topology", "ok", "supported", "unsupported"}
  /\ region \in [RegionKind -> Seq(RegionRecord)]
  /\ edge \in Seq(EdgeRecord)
  /\ reachable \subseteq Node
  /\ \A i \in DOMAIN Each : Each[i].template \in Actions
  /\ \A i \in DOMAIN edge : ValidEdge(edge[i])

\* The tables are read in their order.
Stage ==
  /\ pc \in {"nodes", "regions"} => edge = <<>> /\ reachable = {}
  /\ pc \in {"nodes", "regions", "edges", "passes"} => verdict = "reading"
  /\ pc = "features" => verdict = "ok"

\* While the edges are read, what is reachable is what the input enters.
Seeds ==
  /\ \A i \in DOMAIN edge : edge[i].from = "input" => GraphTarget(edge[i]) \in reachable \cup {0}
  /\ pc = "edges" => \A n \in reachable :
       \E i \in DOMAIN edge : edge[i].from = "input" /\ GraphTarget(edge[i]) = n

\* The steps of the saga come in order, the outcomes follow them.
SagaOrder ==
  /\ Len(Outcomes) <= Len(Steps)
  /\ \A i \in DOMAIN Steps : Steps[i].ordinal = i /\ Steps[i].forward \in Actions
  /\ \A i \in DOMAIN Outcomes : Outcomes[i].forward = Steps[i].forward

\* The input reaches a node of the graph that is executed.
FromInput(n) == \A S \in SUBSET Vertex : Closed(S) => <<"node", n>> \in S
AllFromInput == \A S \in SUBSET Vertex : Closed(S) => S = Vertex

\* The passes find only what is reachable, and each but the last finds something.
Passing ==
  pc = "passes" =>
    /\ Complete
    /\ Direct => (\A n \in reachable : FromInput(n)) /\ Cardinality(reachable) >= at

Walkable ==
  Accepted =>
    /\ Complete /\ (Direct => AllFromInput)
    /\ verdict = "supported" => Len(Steps) = 0 \/ ~Uses({"fork", "join"})

\* The inductive invariant.
IInv == Shape /\ Stage /\ Seeds /\ SagaOrder /\ Passing /\ Walkable

-----------------------------------------------------------------------------
(* The ends of an edge *)

\* Nodes are numbered from 1.
LEMMA NodeNumbers ==
  ASSUME Shape
  PROVE  /\ Node = 1 .. Len(file.node) /\ Len(file.node) \in Nat /\ 0 \notin Node
         /\ file.node \in Seq(NodeRecord)
         /\ Actions \subseteq Node
  BY ImageAssumption DEF Shape, Node, Actions

\* An edge of the table, for the passes and in the graph that is executed.
LEMMA EdgeEnds ==
  ASSUME Shape, NEW e \in EdgeRecord, ValidEdge(e)
  PROVE  /\ e.to = "each" => /\ HeadOf(e) = <<"each", e.target>> /\ e.target \in DOMAIN Each
                             /\ GraphTarget(e) = Each[e.target].template
         /\ e.to = "collect" => /\ HeadOf(e) = <<"collect", e.target>> /\ e.target \in DOMAIN Each
                                /\ GraphTarget(e) = 0
         /\ e.to \notin {"each", "collect"} => /\ HeadOf(e) = <<"node", e.target>> /\ e.target \in Node
                                               /\ GraphTarget(e) = e.target
         /\ e.from = "item" => /\ TailOf(e) = <<"each", e.source>> /\ e.source \in DOMAIN Each
                               /\ GraphSource(e) = 0
         /\ e.from = "collected" => /\ TailOf(e) = <<"collect", e.source>> /\ e.source \in DOMAIN Each
                                    /\ GraphSource(e) = Each[e.source].template
         /\ e.from \notin {"input", "item", "collected"} =>
              /\ TailOf(e) = <<"node", e.source>> /\ e.source \in Node
              /\ GraphSource(e) = e.source
  <1>1. ValidSource(e) /\ ValidTarget(e) /\ e.target \in Node
    BY DEF ValidEdge, ValidTarget
  <1>2. e.to \in {"each", "collect"} => e.target \in DOMAIN Each
    BY <1>1 DEF ValidTarget, RegionTarget
  <1>3. e.from \in {"item", "collected"} => e.source \in DOMAIN Each
    BY <1>1 DEF ValidSource, Exits
  <1>4. e.from \notin {"input", "item", "collected"} => e.source \in Node
    BY <1>1 DEF ValidSource, IsNode, EdgeRecord, Exits, Tagged
  <1>5. /\ e.to = "each" => HeadOf(e) = <<"each", e.target>> /\ GraphTarget(e) = Each[e.target].template
        /\ e.to = "collect" => HeadOf(e) = <<"collect", e.target>> /\ GraphTarget(e) = 0
        /\ e.to \notin {"each", "collect"} => HeadOf(e) = <<"node", e.target>> /\ GraphTarget(e) = e.target
    BY DEF HeadOf, GraphTarget
  <1>6. /\ e.from = "item" => TailOf(e) = <<"each", e.source>> /\ GraphSource(e) = 0
        /\ e.from = "collected" => /\ TailOf(e) = <<"collect", e.source>>
                                   /\ GraphSource(e) = Each[e.source].template
        /\ e.from \notin {"item", "collected"} => TailOf(e) = <<"node", e.source>> /\ GraphSource(e) = e.source
    BY DEF TailOf, GraphSource
  <1>7. QED
    BY <1>1, <1>2, <1>3, <1>4, <1>5, <1>6

\* What the passes reach are nodes.
LEMMA GraphTargetIsNode ==
  ASSUME Shape, NEW e \in EdgeRecord, ValidEdge(e)
  PROVE  GraphTarget(e) \in Node \cup {0} /\ (GraphTarget(e) = 0 <=> e.to = "collect")
  BY EdgeEnds, NodeNumbers DEF Shape

-----------------------------------------------------------------------------
(* One pass over the edge table *)

\* The edge is followed from s.
Follows(s, e) == e.from # "input" /\ GraphTarget(e) # 0 /\ GraphSource(e) \in s

\* The recursion of a pass is well defined: it goes from edge to edge.
LEMMA PassIsDefined ==
  ASSUME Shape
  PROVE  /\ Len(edge) \in Nat /\ DOMAIN edge = 1 .. Len(edge)
         /\ Reached \in [0 .. Len(edge) -> SUBSET Node]
         /\ Reached[0] = reachable
         /\ \A i \in 1 .. Len(edge) : Reached[i] = FollowEdge(Reached[i - 1], edge[i])
  <1> DEFINE n == Len(edge)
             U == SUBSET Node
             G == [i \in 1 .. n |-> [s \in U |-> FollowEdge(s, edge[i])]]
             Solves(f) == f = [i \in 0 .. n |-> IF i = 0 THEN reachable ELSE FollowEdge(f[i - 1], edge[i])]
  <1>1. n \in Nat /\ DOMAIN edge = 1 .. n /\ reachable \in U
    BY DEF Shape
  <1>2. ASSUME NEW i \in 1 .. n, NEW s \in U PROVE FollowEdge(s, edge[i]) \in U
    <2>1. edge[i] \in EdgeRecord /\ ValidEdge(edge[i])
      BY <1>1 DEF Shape
    <2>2. GraphTarget(edge[i]) \in Node \cup {0}
      BY <2>1, GraphTargetIsNode
    <2>3. QED
      BY <2>2 DEF FollowEdge
  <1>3. G \in [1 .. n -> [U -> U]]
    BY <1>2
  <1> HIDE DEF n, U
  <1>4. PICK f : f \in Runs(n, U, reachable, G)
    <2> HIDE DEF G
    <2>1. G \in Operations(n, U)
      BY <1>3 DEF Operations
    <2>2. QED
      BY <1>1, <2>1, Iterates
  <1>5. f \in [0 .. n -> U] /\ f[0] = reachable /\ \A i \in 1 .. n : f[i] = G[i][f[i - 1]]
    <2> HIDE DEF G
    <2>1. QED
      BY <1>4 DEF Runs
  <1>6. \A i \in 1 .. n : f[i] = FollowEdge(f[i - 1], edge[i])
    <2> TAKE i \in 1 .. n
    <2>1. f[i - 1] \in U
      BY <1>1, <1>5
    <2>2. G[i][f[i - 1]] = FollowEdge(f[i - 1], edge[i])
      BY <2>1
    <2>3. QED
      BY <1>5, <2>2
  <1>7. Solves(f)
    <2>1. \A i \in 0 .. n : f[i] = IF i = 0 THEN reachable ELSE FollowEdge(f[i - 1], edge[i])
      BY <1>1, <1>5, <1>6
    <2>2. QED
      BY <1>5, <2>1
  <1>8. Reached = CHOOSE g : Solves(g)
    BY DEF Reached, n
  <1>9. Solves(Reached)
    <2> HIDE DEF Solves
    <2>1. QED
      BY <1>7, <1>8
  <1>10. Reached = [i \in 0 .. n |-> IF i = 0 THEN reachable ELSE FollowEdge(Reached[i - 1], edge[i])]
    BY <1>9
  <1> HIDE DEF Solves, G
  <1>11. Reached[0] = reachable /\ \A i \in 1 .. n : Reached[i] = FollowEdge(Reached[i - 1], edge[i])
    <2>1. \A i \in 0 .. n : Reached[i] = IF i = 0 THEN reachable ELSE FollowEdge(Reached[i - 1], edge[i])
      BY <1>10
    <2>2. QED
      BY <1>1, <2>1
  <1>12. \A i \in 0 .. n : Reached[i] \in U
    <2> DEFINE T == {i \in 0 .. n : Reached[i] \in U}
    <2>1. 0 \in T
      BY <1>1, <1>11
    <2>2. \A i \in 1 .. n : i - 1 \in T => i \in T
      BY <1>1, <1>2, <1>11
    <2> HIDE DEF T
    <2>3. \A i \in 0 .. n : i \in T
      BY <1>1, <2>1, <2>2, UpTo
    <2>4. QED
      BY <2>3 DEF T
  <1>13. Reached \in [0 .. n -> U]
    <2>1. DOMAIN Reached = 0 .. n /\ Reached = [i \in 0 .. n |-> Reached[i]]
      BY <1>10
    <2>2. QED
      BY <1>12, <2>1
  <1>14. QED
    BY <1>1, <1>11, <1>13 DEF n, U

\* A pass loses nothing.
LEMMA PassGrows ==
  ASSUME Shape, NEW i \in 0 .. Len(edge)
  PROVE  Reached[i] \subseteq Follow
  <1> DEFINE n == Len(edge)
             T == {j \in 0 .. n : \A k \in 0 .. j : Reached[k] \subseteq Reached[j]}
  <1>1. n \in Nat /\ \A j \in 1 .. n : Reached[j] = FollowEdge(Reached[j - 1], edge[j])
    BY PassIsDefined
  <1> HIDE DEF n
  <1>2. 0 \in T
    BY <1>1
  <1>3. ASSUME NEW j \in 1 .. n, j - 1 \in T PROVE j \in T
    <2>1. Reached[j - 1] \subseteq Reached[j]
      BY <1>1 DEF FollowEdge
    <2>2. ASSUME NEW k \in 0 .. j PROVE Reached[k] \subseteq Reached[j]
      <3>1. CASE k = j
        BY <3>1
      <3>2. CASE k # j
        <4>1. k \in 0 .. (j - 1)
          BY <1>1, <3>2
        <4>2. Reached[k] \subseteq Reached[j - 1]
          BY <1>3, <4>1
        <4>3. QED
          BY <2>1, <4>2
      <3>3. QED
        BY <3>1, <3>2
    <2>3. j \in 0 .. n
      BY <1>1
    <2>4. QED
      BY <2>2, <2>3
  <1>4. n \in T
    <2> HIDE DEF T
    <2>1. \A j \in 0 .. n : j \in T
      BY <1>1, <1>2, <1>3, UpTo
    <2>2. QED
      BY <1>1, <2>1
  <1>5. QED
    BY <1>4 DEF Follow, n

\* A pass follows every edge from what was reachable.
LEMMA PassFollows ==
  ASSUME Shape
  PROVE  /\ reachable \subseteq Follow /\ Follow \subseteq Node
         /\ \A i \in DOMAIN edge : Follows(reachable, edge[i]) => GraphTarget(edge[i]) \in Follow
  <1>1. /\ Len(edge) \in Nat /\ DOMAIN edge = 1 .. Len(edge)
        /\ Reached \in [0 .. Len(edge) -> SUBSET Node] /\ Reached[0] = reachable
        /\ \A i \in 1 .. Len(edge) : Reached[i] = FollowEdge(Reached[i - 1], edge[i])
    BY PassIsDefined
  <1>2. reachable \subseteq Follow /\ Follow \subseteq Node
    BY <1>1, PassGrows DEF Follow
  <1>3. ASSUME NEW i \in DOMAIN edge, Follows(reachable, edge[i]) PROVE GraphTarget(edge[i]) \in Follow
    <2> DEFINE T == {j \in 0 .. Len(edge) : reachable \subseteq Reached[j]}
    <2>1. 0 \in T
      BY <1>1
    <2>2. ASSUME NEW j \in 1 .. Len(edge), j - 1 \in T PROVE j \in T
      <3>1. reachable \subseteq Reached[j - 1] /\ Reached[j] = FollowEdge(Reached[j - 1], edge[j])
        BY <1>1, <2>2
      <3>2. reachable \subseteq Reached[j]
        BY <3>1 DEF FollowEdge
      <3>3. QED
        BY <1>1, <3>2
    <2> HIDE DEF T
    <2>3. \A j \in 0 .. Len(edge) : j \in T
      BY <1>1, <2>1, <2>2, UpTo
    <2>4. i - 1 \in 0 .. Len(edge) /\ i \in 1 .. Len(edge)
      BY <1>1
    <2>5. reachable \subseteq Reached[i - 1]
      BY <2>3, <2>4 DEF T
    <2>6. GraphTarget(edge[i]) \in Reached[i]
      BY <1>1, <1>3, <2>4, <2>5 DEF Follows, FollowEdge
    <2>7. i \in 0 .. Len(edge)
      BY <2>4
    <2>8. QED
      BY <2>6, <2>7, PassGrows
  <1>4. QED
    BY <1>2, <1>3

\* A pass stays within every set that has what was reachable and is closed under
\* the edges.
LEMMA PassStaysWithin ==
  ASSUME Shape, NEW Q, reachable \subseteq Q,
         \A i \in DOMAIN edge, s \in SUBSET Q :
           s \subseteq Node /\ Follows(s, edge[i]) => GraphTarget(edge[i]) \in Q
  PROVE  Follow \subseteq Q
  <1> DEFINE T == {j \in 0 .. Len(edge) : Reached[j] \subseteq Q}
  <1>1. /\ Len(edge) \in Nat /\ DOMAIN edge = 1 .. Len(edge)
        /\ Reached \in [0 .. Len(edge) -> SUBSET Node] /\ Reached[0] = reachable
        /\ \A i \in 1 .. Len(edge) : Reached[i] = FollowEdge(Reached[i - 1], edge[i])
    BY PassIsDefined
  <1>2. 0 \in T
    BY <1>1
  <1>3. ASSUME NEW j \in 1 .. Len(edge), j - 1 \in T PROVE j \in T
    <2>1. Reached[j - 1] \subseteq Q /\ Reached[j - 1] \subseteq Node
      BY <1>1, <1>3
    <2>2. Follows(Reached[j - 1], edge[j]) => GraphTarget(edge[j]) \in Q
      BY <1>1, <2>1
    <2>3. Reached[j] \subseteq Q
      BY <1>1, <2>1, <2>2 DEF FollowEdge, Follows
    <2>4. QED
      BY <1>1, <2>3
  <1> HIDE DEF T
  <1>4. Len(edge) \in T
    <2>1. \A j \in 0 .. Len(edge) : j \in T
      BY <1>1, <1>2, <1>3, UpTo
    <2>2. QED
      BY <1>1, <2>1
  <1>5. QED
    BY <1>4 DEF T, Follow

-----------------------------------------------------------------------------
(* The graph that is executed *)

\* A set of edges with one element.
LEMMA OneEdge ==
  ASSUME Shape, NEW T \in SUBSET DOMAIN edge, Cardinality(T) = 1
  PROVE  \E i \in T : \A j \in T : j = i
  <1>1. IsFiniteSet(DOMAIN edge)
    BY FS_Interval DEF Shape
  <1>2. IsFiniteSet(T)
    BY <1>1, FS_Subset
  <1>3. \E x : T = {x}
    BY <1>2, FS_Singleton
  <1>4. QED
    BY <1>3

\* The workflow has one input.
LEMMA OneInput ==
  ASSUME Shape, Complete
  PROVE  \E i \in DOMAIN edge : edge[i].from = "input"
  <1> DEFINE T == {i \in DOMAIN edge : edge[i].from = "input"}
  <1>1. Cardinality(T) = 1
    BY DEF Complete, Once, Edges
  <1>2. T \in SUBSET DOMAIN edge
    OBVIOUS
  <1>3. \E i \in T : \A j \in T : j = i
    <2> HIDE DEF T
    <2>1. QED
      BY <1>1, <1>2, OneEdge
  <1>4. QED
    BY <1>3

\* One edge enters each side of a region, one leaves it.
LEMMA RegionEdges ==
  ASSUME Shape, Complete, NEW r \in DOMAIN Each
  PROVE  /\ \A k \in {"each", "collect"} : \E i \in DOMAIN edge :
              /\ edge[i].to = k /\ edge[i].target = r
              /\ \A j \in DOMAIN edge : edge[j].to = k /\ edge[j].target = r => j = i
         /\ \A k \in {"item", "collected"} : \E i \in DOMAIN edge :
              edge[i].from = k /\ edge[i].source = r
  <1>1. EachComplete(r)
    BY DEF Complete
  <1>2. ASSUME NEW k \in {"each", "collect"}
        PROVE  \E i \in DOMAIN edge :
                 /\ edge[i].to = k /\ edge[i].target = r
                 /\ \A j \in DOMAIN edge : edge[j].to = k /\ edge[j].target = r => j = i
    <2> DEFINE T == {i \in DOMAIN edge : edge[i].to = k /\ edge[i].target = r}
    <2>1. Cardinality(T) = 1
      BY <1>1 DEF EachComplete, Once, Edges
    <2>2. T \in SUBSET DOMAIN edge
      OBVIOUS
    <2>3. \E i \in T : \A j \in T : j = i
      <3> HIDE DEF T
      <3>1. QED
        BY <2>1, <2>2, OneEdge
    <2>4. QED
      BY <2>3
  <1>3. ASSUME NEW k \in {"item", "collected"}
        PROVE  \E i \in DOMAIN edge : edge[i].from = k /\ edge[i].source = r
    <2> DEFINE T == {i \in DOMAIN edge : edge[i].from = k /\ edge[i].source = r}
    <2>1. Cardinality(T) = 1
      BY <1>1 DEF EachComplete, Leaves, Once, Edges
    <2>2. T \in SUBSET DOMAIN edge
      OBVIOUS
    <2>3. \E i \in T : \A j \in T : j = i
      <3> HIDE DEF T
      <3>1. QED
        BY <2>1, <2>2, OneEdge
    <2>4. QED
      BY <2>3
  <1>4. QED
    BY <1>2, <1>3

\* One edge enters a node that is neither a Join nor a terminal.
LEMMA NodeEntered ==
  ASSUME Shape, Complete, NEW n \in Node, ~IsNode(n, "join"), ~IsNode(n, "terminal")
  PROVE  \E i \in DOMAIN edge : \A j \in DOMAIN edge :
           edge[j].to \in {"action", "dispatch", "fork"} /\ edge[j].target = n => j = i
  <1>1. file.node[n].kind \in {"action", "dispatch", "fork", "join", "terminal"}
    <2>1. file.node[n] \in NodeRecord
      BY NodeNumbers
    <2>2. QED
      BY <2>1 DEF NodeRecord
  <1>2. IsNode(n, "action") \/ IsNode(n, "dispatch") \/ IsNode(n, "fork")
    BY <1>1 DEF IsNode
  <1>3. NodeComplete(n)
    BY DEF Complete
  <1>4. Entered(n)
    BY <1>2, <1>3 DEF NodeComplete
  <1> DEFINE T == {i \in DOMAIN edge : InPort(edge[i]) = <<"node", n, 0>>}
  <1>5. Cardinality(T) = 1
    BY <1>4 DEF Entered, Once, Edges
  <1>6. T \in SUBSET DOMAIN edge
    OBVIOUS
  <1>7. \E i \in T : \A j \in T : j = i
    <2> HIDE DEF T
    <2>1. QED
      BY <1>5, <1>6, OneEdge
  <1>8. ASSUME NEW j \in DOMAIN edge, edge[j].to \in {"action", "dispatch", "fork"}, edge[j].target = n
        PROVE  j \in T
    BY <1>8 DEF InPort
  <1> HIDE DEF T
  <1>9. QED
    BY <1>6, <1>7, <1>8

\* What enters a closed set enters it for the passes too.
LEMMA HeadInClosed ==
  ASSUME Shape, Complete, Direct, NEW S \in SUBSET Vertex, Closed(S),
         NEW i \in DOMAIN edge, HeadOf(edge[i]) \in S, GraphTarget(edge[i]) # 0
  PROVE  <<"node", GraphTarget(edge[i])>> \in S
  <1>1. \A j \in DOMAIN edge : edge[j] \in EdgeRecord /\ ValidEdge(edge[j])
    BY DEF Shape
  <1>2. CASE edge[i].to = "each"
    <2> DEFINE r == edge[i].target
    <2>1. HeadOf(edge[i]) = <<"each", r>> /\ r \in DOMAIN Each /\ GraphTarget(edge[i]) = Each[r].template
      BY <1>1, <1>2, EdgeEnds
    <2> HIDE DEF r
    <2>2. PICK j \in DOMAIN edge : edge[j].from = "item" /\ edge[j].source = r
      BY <2>1, RegionEdges
    <2>3. TailOf(edge[j]) = <<"each", r>>
      BY <1>1, <2>2, EdgeEnds
    <2>4. HeadOf(edge[j]) \in S
      BY <2>1, <2>3 DEF Closed
    <2>5. edge[j].to = "action" /\ edge[j].target = Each[r].template
      BY <2>2 DEF Direct
    <2>6. HeadOf(edge[j]) = <<"node", Each[r].template>>
      BY <1>1, <2>5, EdgeEnds
    <2>7. QED
      BY <2>1, <2>4, <2>6
  <1>3. CASE edge[i].to # "each"
    <2>1. edge[i].to # "collect"
      BY <1>1, GraphTargetIsNode
    <2>2. HeadOf(edge[i]) = <<"node", edge[i].target>> /\ GraphTarget(edge[i]) = edge[i].target
      BY <1>1, <1>3, <2>1, EdgeEnds
    <2>3. QED
      BY <2>2
  <1>4. QED
    BY <1>2, <1>3

\* An edge that the passes follow from a closed set leaves it.
LEMMA TailInClosed ==
  ASSUME Shape, Complete, Direct, NEW S \in SUBSET Vertex, Closed(S),
         NEW i \in DOMAIN edge, edge[i].from # "input",
         GraphSource(edge[i]) \in Node, <<"node", GraphSource(edge[i])>> \in S
  PROVE  TailOf(edge[i]) \in S
  <1>1. \A j \in DOMAIN edge : edge[j] \in EdgeRecord /\ ValidEdge(edge[j])
    BY DEF Shape
  <1>2. edge[i].from # "item"
    BY <1>1, EdgeEnds, NodeNumbers
  <1>3. CASE edge[i].from = "collected"
    <2> DEFINE r == edge[i].source
    <2>1. TailOf(edge[i]) = <<"collect", r>> /\ r \in DOMAIN Each /\ GraphSource(edge[i]) = Each[r].template
      BY <1>1, <1>3, EdgeEnds
    <2> HIDE DEF r
    <2>2. PICK j \in DOMAIN edge : edge[j].to = "collect" /\ edge[j].target = r
      BY <2>1, RegionEdges
    <2>3. edge[j].from = "success" /\ edge[j].source = Each[r].template
      BY <2>2 DEF Direct
    <2>4. TailOf(edge[j]) = <<"node", Each[r].template>> /\ HeadOf(edge[j]) = <<"collect", r>>
      BY <1>1, <2>2, <2>3, EdgeEnds
    <2>5. HeadOf(edge[j]) \in S
      BY <2>1, <2>4 DEF Closed
    <2>6. QED
      BY <2>1, <2>4, <2>5
  <1>4. CASE edge[i].from # "collected"
    <2>1. TailOf(edge[i]) = <<"node", edge[i].source>> /\ GraphSource(edge[i]) = edge[i].source
      BY <1>1, <1>2, <1>4, EdgeEnds
    <2>2. QED
      BY <2>1
  <1>5. QED
    BY <1>3, <1>4

\* What the passes find lies in every closed set that has what was reachable.
LEMMA FollowInClosed ==
  ASSUME Shape, Complete, Direct, NEW S \in SUBSET Vertex, Closed(S),
         \A n \in reachable : <<"node", n>> \in S
  PROVE  \A n \in Follow : <<"node", n>> \in S
  <1> DEFINE Q == {n \in Node : <<"node", n>> \in S}
  <1>1. reachable \subseteq Q
    BY DEF Shape
  <1>2. ASSUME NEW i \in DOMAIN edge, NEW s \in SUBSET Q, Follows(s, edge[i])
        PROVE  GraphTarget(edge[i]) \in Q
    <2>1. /\ edge[i].from # "input" /\ GraphTarget(edge[i]) # 0
          /\ GraphSource(edge[i]) \in Node /\ <<"node", GraphSource(edge[i])>> \in S
      BY <1>2 DEF Follows
    <2>2. TailOf(edge[i]) \in S
      BY <2>1, TailInClosed
    <2>3. HeadOf(edge[i]) \in S
      BY <2>2 DEF Closed
    <2>4. <<"node", GraphTarget(edge[i])>> \in S
      BY <2>1, <2>3, HeadInClosed
    <2>5. edge[i] \in EdgeRecord /\ ValidEdge(edge[i])
      BY DEF Shape
    <2>6. GraphTarget(edge[i]) \in Node
      BY <2>1, <2>5, GraphTargetIsNode
    <2>7. QED
      BY <2>4, <2>6
  <1>3. Follow \subseteq Q
    <2> HIDE DEF Q
    <2>1. QED
      BY <1>1, <1>2, PassStaysWithin
  <1>4. QED
    BY <1>3

\* What the input enters is reachable in every closed set, and there is some.
LEMMA SeedsFromInput ==
  ASSUME Shape, Seeds, Complete, Direct, pc = "edges"
  PROVE  (\A n \in reachable : FromInput(n)) /\ reachable # {}
  <1>1. \A j \in DOMAIN edge : edge[j] \in EdgeRecord /\ ValidEdge(edge[j])
    BY DEF Shape
  <1>2. ASSUME NEW n \in reachable, NEW S \in SUBSET Vertex, Closed(S)
        PROVE  <<"node", n>> \in S
    <2>1. PICK i \in DOMAIN edge : edge[i].from = "input" /\ GraphTarget(edge[i]) = n
      BY DEF Seeds
    <2>2. n # 0
      BY NodeNumbers DEF Shape
    <2>3. HeadOf(edge[i]) \in S
      BY <1>2, <2>1 DEF Closed
    <2>4. QED
      BY <1>2, <2>1, <2>2, <2>3, HeadInClosed
  <1>3. PICK i \in DOMAIN edge : edge[i].from = "input"
    BY OneInput
  <1>4. edge[i].to # "collect"
    BY <1>3 DEF Direct
  <1>5. GraphTarget(edge[i]) \in reachable
    BY <1>1, <1>3, <1>4, GraphTargetIsNode DEF Seeds
  <1>6. QED
    BY <1>2, <1>5 DEF FromInput

\* A closed set with every node has both sides of every region.
LEMMA NodesSuffice ==
  ASSUME Shape, Complete, Direct, NEW S \in SUBSET Vertex, Closed(S),
         \A n \in Node : <<"node", n>> \in S
  PROVE  S = Vertex
  <1>1. \A j \in DOMAIN edge : edge[j] \in EdgeRecord /\ ValidEdge(edge[j])
    BY DEF Shape
  <1>2. ASSUME NEW r \in DOMAIN Each PROVE <<"collect", r>> \in S
    <2>1. PICK j \in DOMAIN edge : edge[j].to = "collect" /\ edge[j].target = r
      BY RegionEdges
    <2>2. edge[j].from = "success"
      BY <2>1 DEF Direct
    <2>3. /\ TailOf(edge[j]) = <<"node", edge[j].source>> /\ edge[j].source \in Node
          /\ HeadOf(edge[j]) = <<"collect", r>>
      BY <1>1, <2>1, <2>2, EdgeEnds
    <2>4. QED
      BY <2>3 DEF Closed
  <1>3. ASSUME NEW r \in DOMAIN Each PROVE <<"each", r>> \in S
    <2>1. PICK j \in DOMAIN edge : edge[j].to = "each" /\ edge[j].target = r
      BY RegionEdges
    <2>2. HeadOf(edge[j]) = <<"each", r>>
      BY <1>1, <2>1, EdgeEnds
    <2>3. edge[j].from # "item"
      BY <2>1 DEF Direct
    <2>4. edge[j].from = "input" \/ TailOf(edge[j]) \in S
      BY <1>1, <1>2, <2>3, EdgeEnds
    <2>5. QED
      BY <2>2, <2>4 DEF Closed
  <1>4. ASSUME NEW v \in Vertex PROVE v \in S
    <2>1. CASE v \in {"node"} \X Node
      BY <2>1
    <2>2. CASE v \in {"each", "collect"} \X DOMAIN Each
      BY <1>2, <1>3, <2>2
    <2>3. QED
      BY <2>1, <2>2 DEF Vertex
  <1>5. QED
    BY <1>4

\* When a pass finds nothing new, what is reachable makes a closed set, so that it
\* is all there is when the input reaches everything.
LEMMA FixpointIsAll ==
  ASSUME Shape, Seeds, Complete, Direct, Follow = reachable, AllFromInput
  PROVE  Node \subseteq reachable
  <1> DEFINE S == {v \in Vertex : IF v[1] = "node" THEN v[2] \in reachable
                                  ELSE Each[v[2]].template \in reachable}
  <1>1. \A j \in DOMAIN edge : edge[j] \in EdgeRecord /\ ValidEdge(edge[j])
    BY DEF Shape
  <1>2. /\ \A n \in Node : <<"node", n>> \in S <=> n \in reachable
        /\ \A r \in DOMAIN Each : /\ <<"each", r>> \in S <=> Each[r].template \in reachable
                                  /\ <<"collect", r>> \in S <=> Each[r].template \in reachable
    BY DEF Vertex
  <1>3. S \in SUBSET Vertex
    OBVIOUS
  <1> HIDE DEF S
  <1>4. ASSUME NEW i \in DOMAIN edge, GraphTarget(edge[i]) \in reachable
        PROVE  HeadOf(edge[i]) \in S
    <2>1. GraphTarget(edge[i]) # 0
      BY <1>4, NodeNumbers DEF Shape
    <2>2. edge[i].to # "collect"
      BY <1>1, <2>1, GraphTargetIsNode
    <2>3. QED
      BY <1>1, <1>2, <1>4, <2>2, EdgeEnds
  <1>5. ASSUME NEW i \in DOMAIN edge, edge[i].from = "input" \/ TailOf(edge[i]) \in S
        PROVE  HeadOf(edge[i]) \in S
    <2>1. CASE edge[i].from = "input"
      <3>1. edge[i].to # "collect"
        BY <2>1 DEF Direct
      <3>2. GraphTarget(edge[i]) \in reachable
        BY <1>1, <2>1, <3>1, GraphTargetIsNode DEF Seeds
      <3>3. QED
        BY <1>4, <3>2
    <2>2. CASE edge[i].from = "item"
      <3>1. /\ edge[i].source \in DOMAIN Each /\ Each[edge[i].source].template \in reachable
        BY <1>1, <1>2, <1>5, <2>2, EdgeEnds
      <3>2. edge[i].to = "action" /\ edge[i].target = Each[edge[i].source].template
        BY <2>2 DEF Direct
      <3>3. GraphTarget(edge[i]) = Each[edge[i].source].template
        BY <1>1, <3>2, EdgeEnds
      <3>4. QED
        BY <1>4, <3>1, <3>3
    <2>3. CASE edge[i].from \notin {"input", "item"} /\ edge[i].to = "collect"
      <3>1. edge[i].from = "success" /\ edge[i].source = Each[edge[i].target].template
        BY <2>3 DEF Direct
      <3>2. /\ TailOf(edge[i]) = <<"node", edge[i].source>> /\ edge[i].source \in Node
            /\ HeadOf(edge[i]) = <<"collect", edge[i].target>> /\ edge[i].target \in DOMAIN Each
        BY <1>1, <2>3, <3>1, EdgeEnds
      <3>3. Each[edge[i].target].template \in reachable
        BY <1>2, <1>5, <2>3, <3>1, <3>2
      <3>4. QED
        BY <1>2, <3>2, <3>3
    <2>4. CASE edge[i].from \notin {"input", "item"} /\ edge[i].to # "collect"
      <3>1. GraphSource(edge[i]) \in reachable
        BY <1>1, <1>2, <1>5, <2>4, EdgeEnds
      <3>2. GraphTarget(edge[i]) # 0
        BY <1>1, <2>4, GraphTargetIsNode
      <3>3. Follows(reachable, edge[i])
        BY <2>4, <3>1, <3>2 DEF Follows
      <3>4. GraphTarget(edge[i]) \in reachable
        BY <3>3, PassFollows
      <3>5. QED
        BY <1>4, <3>4
    <2>5. QED
      BY <2>1, <2>2, <2>3, <2>4
  <1>6. Closed(S)
    BY <1>5 DEF Closed
  <1>7. S = Vertex
    BY <1>3, <1>6 DEF AllFromInput
  <1>8. \A n \in Node : <<"node", n>> \in Vertex
    BY DEF Vertex
  <1>9. QED
    BY <1>2, <1>7, <1>8

-----------------------------------------------------------------------------
(* The number of passes *)

\* What is reachable is counted by a number, up to that of the nodes.
LEMMA ReachableCounted ==
  ASSUME Shape
  PROVE  /\ IsFiniteSet(Node) /\ IsFiniteSet(reachable)
         /\ Cardinality(reachable) \in Nat /\ Cardinality(reachable) <= Len(file.node)
         /\ reachable # {} => Cardinality(reachable) >= 1
  <1>1. Node = 1 .. Len(file.node) /\ Len(file.node) \in Nat
    BY NodeNumbers
  <1>2. IsFiniteSet(Node) /\ Cardinality(Node) = Len(file.node)
    BY <1>1, FS_Interval
  <1>3. reachable \in SUBSET Node
    BY DEF Shape
  <1>4. IsFiniteSet(reachable) /\ Cardinality(reachable) <= Len(file.node)
    BY <1>2, <1>3, FS_Subset
  <1>5. Cardinality(reachable) \in Nat
    BY <1>4, FS_CardinalityType
  <1>6. Cardinality(reachable) = 0 <=> reachable = {}
    BY <1>4, FS_EmptySet
  <1>7. QED
    BY <1>2, <1>4, <1>5, <1>6

\* A pass that is not the last finds a node.
LEMMA PassFinds ==
  ASSUME Shape, Follow # reachable
  PROVE  Cardinality(Follow) \in Nat /\ Cardinality(Follow) > Cardinality(reachable)
  <1>1. reachable \in SUBSET Follow /\ Follow \in SUBSET Node
    BY PassFollows
  <1>2. IsFiniteSet(Node) /\ Cardinality(reachable) \in Nat
    BY ReachableCounted
  <1>3. IsFiniteSet(Follow)
    BY <1>1, <1>2, FS_Subset
  <1>4. Cardinality(Follow) \in Nat
    BY <1>3, FS_CardinalityType
  <1>5. Cardinality(reachable) <= Cardinality(Follow) /\ Cardinality(reachable) # Cardinality(Follow)
    BY <1>1, <1>3, FS_Subset
  <1>6. QED
    BY <1>2, <1>4, <1>5

\* The passes end because one found nothing: there is one for each node.
LEMMA LastPassFindsNothing ==
  ASSUME Shape, Passing, pc = "passes", Direct, LastPass
  PROVE  Follow = reachable
  <1>1. Cardinality(reachable) >= at /\ at \in Nat
    BY DEF Passing, Shape
  <1>2. Cardinality(reachable) \in Nat /\ Cardinality(reachable) <= Len(file.node) /\ Len(file.node) \in Nat
    BY ReachableCounted, NodeNumbers
  <1>3. ~(at > Len(file.node))
    BY <1>1, <1>2
  <1>4. QED
    BY <1>3 DEF LastPass

\* When the passes have found every node, the input reaches all.
LEMMA FoundIsReached ==
  ASSUME Shape, Passing, pc = "passes", Direct, AllReached
  PROVE  AllFromInput
  <1>1. Complete /\ \A n \in Node : FromInput(n)
    BY DEF Passing, AllReached
  <1>2. ASSUME NEW S \in SUBSET Vertex, Closed(S) PROVE S = Vertex
    <2>1. \A n \in Node : <<"node", n>> \in S
      BY <1>1, <1>2 DEF FromInput
    <2>2. QED
      BY <1>1, <1>2, <2>1, NodesSuffice
  <1>3. QED
    BY <1>2 DEF AllFromInput

\* The passes decide reachability.
LEMMA PassesDecide ==
  ASSUME IInv
  PROVE  ReachesExactly
  <1>1. SUFFICES ASSUME pc = "passes", LastPass, Direct PROVE AllReached <=> AllFromInput
    BY DEF ReachesExactly, AllFromInput
  <1>2. Shape /\ Seeds /\ Passing /\ Complete
    BY <1>1 DEF IInv, Passing
  <1>3. ASSUME AllReached PROVE AllFromInput
    BY <1>1, <1>2, <1>3, FoundIsReached
  <1>4. ASSUME AllFromInput PROVE AllReached
    <2>1. Follow = reachable
      BY <1>1, <1>2, LastPassFindsNothing
    <2>2. QED
      BY <1>1, <1>2, <1>4, <2>1, FixpointIsAll DEF AllReached
  <1>5. QED
    BY <1>3, <1>4

-----------------------------------------------------------------------------
(* Cycles *)

\* The place of an execution that has one way in.
Single(v) == v \in Vertex /\ (v[1] = "node" => ~IsNode(v[2], "join") /\ ~IsNode(v[2], "terminal"))

\* One edge enters a node that is neither a Join nor a terminal, or a side of a region.
LEMMA OneWayIn ==
  ASSUME Shape, Complete, NEW i \in DOMAIN edge, NEW j \in DOMAIN edge,
         HeadOf(edge[i]) = HeadOf(edge[j]), Single(HeadOf(edge[i]))
  PROVE  i = j
  <1>1. \A k \in DOMAIN edge : edge[k] \in EdgeRecord /\ ValidEdge(edge[k])
    BY DEF Shape
  <1>2. \A k \in DOMAIN edge :
          /\ edge[k].to \in {"each", "collect"} => /\ HeadOf(edge[k]) = <<edge[k].to, edge[k].target>>
                                                   /\ edge[k].target \in DOMAIN Each
          /\ edge[k].to \notin {"each", "collect"} => /\ HeadOf(edge[k]) = <<"node", edge[k].target>>
                                                      /\ edge[k].target \in Node
    BY <1>1, EdgeEnds
  <1>3. CASE edge[i].to \in {"each", "collect"}
    <2>1. edge[j].to = edge[i].to /\ edge[j].target = edge[i].target /\ edge[i].target \in DOMAIN Each
      <3>1. HeadOf(edge[j]) = <<edge[i].to, edge[i].target>> /\ edge[i].target \in DOMAIN Each
        BY <1>2, <1>3
      <3>2. edge[j].to \in {"each", "collect"}
        BY <1>2, <1>3, <3>1
      <3>3. QED
        BY <1>2, <3>1, <3>2
    <2>2. QED
      BY <1>3, <2>1, RegionEdges
  <1>4. CASE edge[i].to \notin {"each", "collect"}
    <2> DEFINE n == edge[i].target
    <2>1. HeadOf(edge[i]) = <<"node", n>> /\ n \in Node
      BY <1>2, <1>4
    <2>2. edge[j].to \notin {"each", "collect"} /\ edge[j].target = n
      <3> HIDE DEF n
      <3>1. HeadOf(edge[j]) = <<"node", n>>
        BY <2>1
      <3>2. edge[j].to \notin {"each", "collect"}
        BY <1>2, <3>1
      <3>3. QED
        BY <1>2, <3>1, <3>2
    <2>3. ~IsNode(n, "join") /\ ~IsNode(n, "terminal")
      BY <2>1 DEF Single
    <2>4. ASSUME NEW k \in {i, j} PROVE edge[k].to \in {"action", "dispatch", "fork"} /\ edge[k].target = n
      <3>1. edge[k].target = n /\ edge[k].to \notin {"each", "collect"} /\ k \in DOMAIN edge
        BY <1>4, <2>2
      <3>2. ValidTarget(edge[k]) /\ edge[k] \in EdgeRecord
        BY <1>1, <3>1 DEF ValidEdge
      <3>3. edge[k].to # "join" /\ edge[k].to # "terminal"
        BY <2>3, <3>1, <3>2 DEF ValidTarget
      <3>4. edge[k].to \in {"action", "dispatch", "fork", "join", "terminal", "each", "collect"}
        BY <3>2 DEF EdgeRecord
      <3>5. QED
        BY <3>1, <3>3, <3>4
    <2> HIDE DEF n
    <2>5. QED
      BY <2>1, <2>3, <2>4, NodeEntered
  <1>5. QED
    BY <1>3, <1>4

\* Nothing leaves a terminal, and the input is no place of the graph.
LEMMA TailIsNoTerminal ==
  ASSUME Shape, NEW i \in DOMAIN edge, TailOf(edge[i]) \in Vertex
  PROVE  /\ edge[i].from # "input"
         /\ TailOf(edge[i])[1] = "node" => ~IsNode(TailOf(edge[i])[2], "terminal")
  <1>1. edge[i] \in EdgeRecord /\ ValidSource(edge[i])
    BY DEF Shape, ValidEdge
  <1>2. edge[i].from # "input"
    <2>1. SUFFICES ASSUME edge[i].from = "input" PROVE FALSE
      OBVIOUS
    <2>2. edge[i].source = 0
      BY <1>1, <2>1 DEF ValidSource, Exits
    <2>3. TailOf(edge[i]) = <<"node", 0>>
      BY <2>1, <2>2 DEF TailOf
    <2>4. QED
      BY <2>3, NodeNumbers DEF Vertex
  <1>3. ASSUME TailOf(edge[i])[1] = "node" PROVE ~IsNode(TailOf(edge[i])[2], "terminal")
    <2>1. edge[i].from \notin {"item", "collected"}
      BY <1>3 DEF TailOf
    <2>2. TailOf(edge[i])[2] = edge[i].source
      BY <2>1 DEF TailOf
    <2>3. edge[i].from \in Exits \cup {"case", "branch", "output"}
      BY <1>1, <1>2, <2>1 DEF EdgeRecord, Tagged
    <2>4. \E k \in {"action", "dispatch", "fork", "join"} : IsNode(edge[i].source, k)
      BY <1>1, <2>3 DEF ValidSource, Exits
    <2>5. QED
      BY <2>2, <2>4 DEF IsNode
  <1>4. QED
    BY <1>2, <1>3

\* A set of places without a Join has one that nothing of the set enters: else what
\* lies outside would be closed, and the input would not reach the set.
LEMMA NoCycle ==
  ASSUME Shape, Complete, AllFromInput,
         NEW S \in SUBSET {v \in Vertex : v[1] # "node" \/ ~IsNode(v[2], "join")}, S # {}
  PROVE  \E v \in S : \A i \in DOMAIN edge : HeadOf(edge[i]) = v => TailOf(edge[i]) \notin S
  <1>1. SUFFICES ASSUME \A v \in S : \E i \in DOMAIN edge : HeadOf(edge[i]) = v /\ TailOf(edge[i]) \in S
                 PROVE  FALSE
    OBVIOUS
  <1> DEFINE S1 == {v \in S : Single(v)}
             C == Vertex \ S1
  <1>2. ASSUME NEW v \in S PROVE \E i \in DOMAIN edge : HeadOf(edge[i]) = v /\ TailOf(edge[i]) \in S1
    <2>1. PICK i \in DOMAIN edge : HeadOf(edge[i]) = v /\ TailOf(edge[i]) \in S
      BY <1>1
    <2>2. TailOf(edge[i]) \in Vertex
      BY <2>1
    <2>3. Single(TailOf(edge[i]))
      BY <2>1, <2>2, TailIsNoTerminal DEF Single
    <2>4. QED
      BY <2>1, <2>3
  <1>3. S1 # {}
    BY <1>2
  <1>4. ASSUME NEW i \in DOMAIN edge, HeadOf(edge[i]) \in S1
        PROVE  edge[i].from # "input" /\ TailOf(edge[i]) \in S1
    <2>1. PICK j \in DOMAIN edge : HeadOf(edge[j]) = HeadOf(edge[i]) /\ TailOf(edge[j]) \in S1
      BY <1>2, <1>4
    <2>2. Single(HeadOf(edge[i]))
      BY <1>4
    <2>3. i = j
      BY <2>1, <2>2, OneWayIn
    <2>4. TailOf(edge[i]) \in S1 /\ TailOf(edge[i]) \in Vertex
      BY <2>1, <2>3
    <2>5. QED
      BY <2>4, TailIsNoTerminal
  <1>5. \A i \in DOMAIN edge : HeadOf(edge[i]) \in Vertex
    <2> TAKE i \in DOMAIN edge
    <2>1. edge[i] \in EdgeRecord /\ ValidEdge(edge[i])
      BY DEF Shape
    <2>2. edge[i].to \in {"each", "collect"} => HeadOf(edge[i]) \in {"each", "collect"} \X DOMAIN Each
      BY <2>1, EdgeEnds
    <2>3. edge[i].to \notin {"each", "collect"} => HeadOf(edge[i]) \in {"node"} \X Node
      BY <2>1, EdgeEnds
    <2>4. QED
      BY <2>2, <2>3 DEF Vertex
  <1>6. Closed(C)
    BY <1>4, <1>5 DEF Closed
  <1>7. C = Vertex
    BY <1>6 DEF AllFromInput
  <1>8. S1 \subseteq Vertex
    OBVIOUS
  <1>9. QED
    BY <1>3, <1>7, <1>8

-----------------------------------------------------------------------------
(* What the tables say stays when they stay *)

\* The test of one edge reads the nodes and the regions only.
LEMMA EdgeFrame ==
  ASSUME UNCHANGED <<file, region>>, NEW e
  PROVE  /\ Node' = Node /\ Each' = Each /\ Steps' = Steps /\ Outcomes' = Outcomes /\ Actions' = Actions
         /\ Vertex' = Vertex
         /\ \A k : Uses(k)' <=> Uses(k)
         /\ ValidEdge(e)' <=> ValidEdge(e)
         /\ GraphTarget(e)' = GraphTarget(e) /\ GraphSource(e)' = GraphSource(e)
  <1>1. /\ Node' = Node /\ Each' = Each /\ Steps' = Steps /\ Outcomes' = Outcomes
    BY DEF Node, Each, Steps, Outcomes
  <1>2. Actions' = Actions
    BY <1>1 DEF Actions, IsNode
  <1>3. Vertex' = Vertex
    BY <1>1 DEF Vertex
  <1>4. \A k : Uses(k)' <=> Uses(k)
    BY <1>1 DEF Uses
  <1>5. ValidSource(e)' <=> ValidSource(e)
    BY <1>1 DEF ValidSource, IsNode
  <1>6. ValidTarget(e)' <=> ValidTarget(e)
    BY <1>1 DEF ValidTarget, IsNode, RegionTarget
  <1>7. ValidEdge(e)' <=> ValidEdge(e)
    BY <1>5, <1>6 DEF ValidEdge
  <1>8. GraphTarget(e)' = GraphTarget(e)
    BY <1>1 DEF GraphTarget
  <1>9. GraphSource(e)' = GraphSource(e)
    BY <1>1 DEF GraphSource
  <1>10. QED
    BY <1>1, <1>2, <1>3, <1>4, <1>7, <1>8, <1>9

\* So do the completeness of the graph, its directness and its closed sets.
LEMMA GraphFrame ==
  ASSUME UNCHANGED <<file, region, edge>>
  PROVE  /\ Complete' <=> Complete
         /\ Direct' <=> Direct
         /\ AllFromInput' <=> AllFromInput
         /\ \A n : FromInput(n)' <=> FromInput(n)
  <1>1. Node' = Node /\ Each' = Each /\ Vertex' = Vertex
    BY EdgeFrame
  <1>2. Direct' <=> Direct
    BY <1>1 DEF Direct
  <1>3. \A S : Closed(S)' <=> Closed(S)
    BY DEF Closed, TailOf, HeadOf
  <1>4. AllFromInput' <=> AllFromInput
    BY <1>1, <1>3 DEF AllFromInput
  <1>5. \A n : FromInput(n)' <=> FromInput(n)
    BY <1>1, <1>3 DEF FromInput
  <1>6. Complete' <=> Complete
    BY <1>1 DEF Complete, Once, Edges, NodeComplete, Entered, Leaves, LeavesBy, SagaComplete, EachComplete,
                IsNode, InPort, Steps, Outcomes, Actions
  <1>7. QED
    BY <1>2, <1>4, <1>5, <1>6

-----------------------------------------------------------------------------
(* The steps of the validation *)

\* The tables stay well formed when the nodes and regions stay.
LEMMA ShapeKept ==
  ASSUME Shape, UNCHANGED <<file, region>>,
         edge' \in Seq(EdgeRecord), \A i \in DOMAIN edge' : ValidEdge(edge'[i]),
         at' \in Nat \ {0}, reachable' \subseteq Node,
         pc' \in {"nodes", "regions", "edges", "passes", "features", "done"},
         verdict' \in {"reading", "record", "duplicate", "topology", "ok", "supported", "unsupported"}
  PROVE  Shape'
  <1>1. Node' = Node /\ Each' = Each /\ Actions' = Actions
    BY EdgeFrame
  <1>2. ASSUME NEW i \in DOMAIN edge' PROVE ValidEdge(edge[i])'
    <2>1. ValidEdge(edge'[i])
      OBVIOUS
    <2>2. ValidSource(edge[i])'
      BY <1>1, <2>1 DEF ValidEdge, ValidSource, IsNode
    <2>3. ValidTarget(edge[i])'
      BY <1>1, <2>1 DEF ValidEdge, ValidTarget, IsNode, RegionTarget, Carries
    <2>4. ValidTag(edge[i])'
      BY <2>1 DEF ValidEdge, ValidTag
    <2>5. QED
      BY <2>2, <2>3, <2>4 DEF ValidEdge
  <1>3. file' \in Files /\ region' \in [RegionKind -> Seq(RegionRecord)]
    BY DEF Shape
  <1>4. \A i \in DOMAIN Each' : Each'[i].template \in Actions'
    BY <1>1 DEF Shape
  <1>5. QED
    BY <1>1, <1>2, <1>3, <1>4 DEF Shape

\* What the input enters stays reachable.
LEMMA SeedsKept ==
  ASSUME Seeds, UNCHANGED <<file, region, edge>>, reachable \subseteq reachable',
         pc' = "edges" => pc = "edges" /\ UNCHANGED reachable
  PROVE  Seeds'
  <1>1. Each' = Each
    BY EdgeFrame
  <1>2. \A i \in DOMAIN edge : GraphTarget(edge[i])' = GraphTarget(edge[i])
    BY <1>1 DEF GraphTarget
  <1>3. \A i \in DOMAIN edge' : edge'[i].from = "input" => GraphTarget(edge[i])' \in reachable' \cup {0}
    BY <1>2 DEF Seeds
  <1>4. ASSUME pc' = "edges", NEW n \in reachable'
        PROVE  \E i \in DOMAIN edge' : edge'[i].from = "input" /\ GraphTarget(edge[i])' = n
    BY <1>2, <1>4 DEF Seeds
  <1>5. QED
    BY <1>3, <1>4 DEF Seeds

\* The order of the saga's steps is a matter of the regions.
LEMMA SagaKept ==
  ASSUME SagaOrder, UNCHANGED <<file, region>>
  PROVE  SagaOrder'
  <1>1. Steps' = Steps /\ Outcomes' = Outcomes /\ Actions' = Actions
    BY EdgeFrame
  <1>2. QED
    BY <1>1 DEF SagaOrder

\* A refused record ends the validation.
LEMMA RejectKeeps ==
  ASSUME IInv, NEW why \in {"record", "duplicate", "topology"}, Reject(why)
  PROVE  IInv'
  <1>1. /\ verdict' = why /\ pc' = "done" /\ UNCHANGED <<file, region>> /\ UNCHANGED edge
        /\ at' = at /\ reachable' = reachable
    BY DEF Reject
  <1>2. Shape /\ Seeds /\ SagaOrder
    BY DEF IInv
  <1>3. Shape'
    BY <1>1, <1>2, ShapeKept DEF Shape
  <1>4. Stage'
    BY <1>1 DEF Stage
  <1>5. Seeds'
    BY <1>1, <1>2, SeedsKept
  <1>6. SagaOrder'
    BY <1>1, <1>2, SagaKept
  <1>7. Passing' /\ Walkable'
    BY <1>1 DEF Passing, Walkable, Accepted
  <1>8. QED
    BY <1>3, <1>4, <1>5, <1>6, <1>7 DEF IInv

\* An absent record is passed over.
LEMMA SkipKeeps ==
  ASSUME IInv, pc \in {"regions", "edges"}, Skip
  PROVE  IInv'
  <1>1. /\ UNCHANGED <<file, region>> /\ UNCHANGED edge /\ UNCHANGED pc /\ UNCHANGED verdict
        /\ at' = at + 1 /\ reachable' = reachable
    BY DEF Skip
  <1>2. Shape /\ Stage /\ Seeds /\ SagaOrder
    BY DEF IInv
  <1>3. Shape'
    BY <1>1, <1>2, ShapeKept DEF Shape
  <1>4. Stage'
    BY <1>1, <1>2 DEF Stage
  <1>5. Seeds'
    BY <1>1, <1>2, SeedsKept
  <1>6. SagaOrder'
    BY <1>1, <1>2, SagaKept
  <1>7. Passing' /\ Walkable'
    BY <1>1, <1>2 DEF Stage, Passing, Walkable, Accepted
  <1>8. QED
    BY <1>3, <1>4, <1>5, <1>6, <1>7 DEF IInv

\* The nodes are read.
LEMMA ReadNodesKeeps ==
  ASSUME IInv, ReadNodes
  PROVE  IInv'
  <1>1. CASE \E why \in {"record", "topology"} : Reject(why)
    BY <1>1, RejectKeeps
  <1>2. CASE pc' = "regions" /\ UNCHANGED <<file, at, region, edge, reachable, verdict>>
    <2>1. /\ UNCHANGED <<file, region>> /\ UNCHANGED edge /\ UNCHANGED verdict
          /\ at' = at /\ reachable' = reachable /\ pc = "nodes"
      BY <1>2 DEF ReadNodes
    <2>2. Shape /\ Stage /\ Seeds /\ SagaOrder
      BY DEF IInv
    <2>3. Shape'
      BY <1>2, <2>1, <2>2, ShapeKept DEF Shape
    <2>4. Stage'
      BY <1>2, <2>1, <2>2 DEF Stage
    <2>5. Seeds'
      BY <1>2, <2>1, <2>2, SeedsKept
    <2>6. SagaOrder'
      BY <2>1, <2>2, SagaKept
    <2>7. Passing' /\ Walkable'
      BY <1>2, <2>1, <2>2 DEF Stage, Passing, Walkable, Accepted
    <2>8. QED
      BY <2>3, <2>4, <2>5, <2>6, <2>7 DEF IInv
  <1>3. QED
    BY <1>1, <1>2 DEF ReadNodes

\* The regions are read.
LEMMA RegionsReadKeeps ==
  ASSUME IInv, RegionsRead
  PROVE  IInv'
  <1>1. /\ UNCHANGED <<file, region>> /\ UNCHANGED edge /\ UNCHANGED verdict
        /\ at' = 1 /\ reachable' = reachable /\ pc = "regions" /\ pc' = "edges"
    BY DEF RegionsRead
  <1>2. Shape /\ Stage /\ SagaOrder
    BY DEF IInv
  <1>3. edge' = <<>> /\ reachable' = {} /\ DOMAIN edge' = {}
    BY <1>1, <1>2 DEF Stage
  <1>4. Shape'
    BY <1>1, <1>2, ShapeKept DEF Shape
  <1>5. Stage'
    BY <1>1, <1>2 DEF Stage
  <1>6. Seeds'
    BY <1>3 DEF Seeds
  <1>7. SagaOrder'
    BY <1>1, <1>2, SagaKept
  <1>8. Passing' /\ Walkable'
    BY <1>1, <1>2 DEF Stage, Passing, Walkable, Accepted
  <1>9. QED
    BY <1>4, <1>5, <1>6, <1>7, <1>8 DEF IInv

\* A region that is accepted joins those of its kind: an each names an Action as its
\* template, a step is the next one, an outcome is that of the step before it.
LEMMA TakeRegionKeeps ==
  ASSUME IInv, pc = "regions", NEW r \in RegionRecord, TakeRegion(r)
  PROVE  IInv'
  <1>1. /\ ValidRegion(r) /\ region' = [region EXCEPT ![r.kind] = Append(region[r.kind], r)]
        /\ at' = at + 1 /\ file' = file /\ pc' = pc /\ edge' = edge
        /\ reachable' = reachable /\ verdict' = verdict
    BY DEF TakeRegion
  <1>2. Shape /\ Stage /\ SagaOrder
    BY DEF IInv
  <1>3. /\ r.kind \in RegionKind /\ region \in [RegionKind -> Seq(RegionRecord)]
        /\ edge = <<>> /\ reachable = {} /\ verdict = "reading"
    BY <1>2 DEF Shape, Stage, RegionRecord, RegionKind
  <1>4. /\ region' \in [RegionKind -> Seq(RegionRecord)]
        /\ \A k \in RegionKind : region'[k] = IF k = r.kind THEN Append(region[k], r) ELSE region[k]
    BY <1>1, <1>3
  <1>5. Node' = Node /\ Actions' = Actions
    BY <1>1 DEF Node, Actions, IsNode
  <1>6. /\ Each' = IF r.kind = "each" THEN Append(Each, r) ELSE Each
        /\ Steps' = IF r.kind = "step" THEN Append(Steps, r) ELSE Steps
        /\ Outcomes' = IF r.kind = "outcome" THEN Append(Outcomes, r) ELSE Outcomes
        /\ Each \in Seq(RegionRecord) /\ Steps \in Seq(RegionRecord) /\ Outcomes \in Seq(RegionRecord)
    BY <1>3, <1>4 DEF Each, Steps, Outcomes, RegionKind
  <1>7. DOMAIN edge' = {}
    BY <1>1, <1>3
  <1>8. \A i \in DOMAIN Each' : Each'[i].template \in Actions'
    <2>1. r.kind = "each" => r.template \in Actions
      BY <1>1 DEF ValidRegion, ValidEach
    <2>2. \A i \in DOMAIN Each : Each[i].template \in Actions
      BY <1>2 DEF Shape
    <2>3. QED
      BY <1>5, <1>6, <2>1, <2>2
  <1>9. Shape'
    BY <1>1, <1>2, <1>3, <1>4, <1>7, <1>8 DEF Shape
  <1>10. Stage'
    BY <1>1, <1>2 DEF Stage
  <1>11. Seeds'
    BY <1>1, <1>3, <1>7 DEF Seeds
  <1>12. SagaOrder'
    <2>1. /\ Len(Outcomes) <= Len(Steps) /\ Len(Outcomes) \in Nat /\ Len(Steps) \in Nat
          /\ \A i \in DOMAIN Steps : Steps[i].ordinal = i /\ Steps[i].forward \in Actions
          /\ \A i \in DOMAIN Outcomes : Outcomes[i].forward = Steps[i].forward
      BY <1>2, <1>6 DEF SagaOrder
    <2>2. CASE r.kind = "step"
      <3>1. r.forward \in Actions /\ r.ordinal = Len(Steps) + 1
        BY <1>1, <2>2 DEF ValidRegion, ValidStep
      <3>2. Steps' = Append(Steps, r) /\ Outcomes' = Outcomes
        BY <1>6, <2>2
      <3>3. Len(Outcomes') <= Len(Steps')
        BY <1>6, <2>1, <3>2
      <3>4. \A i \in DOMAIN Steps' : Steps'[i].ordinal = i /\ Steps'[i].forward \in Actions'
        BY <1>5, <1>6, <2>1, <3>1, <3>2
      <3>5. \A i \in DOMAIN Outcomes' : Outcomes'[i].forward = Steps'[i].forward
        BY <1>6, <2>1, <3>2
      <3>6. QED
        BY <3>3, <3>4, <3>5 DEF SagaOrder
    <2>3. CASE r.kind = "outcome"
      <3>1. Len(Steps) = Len(Outcomes) + 1 /\ r.forward = Steps[Len(Steps)].forward
        BY <1>1, <2>3 DEF ValidRegion, ValidOutcome
      <3>2. Steps' = Steps /\ Outcomes' = Append(Outcomes, r)
        BY <1>6, <2>3
      <3>3. Len(Outcomes') <= Len(Steps')
        BY <1>6, <2>1, <3>1, <3>2
      <3>4. \A i \in DOMAIN Steps' : Steps'[i].ordinal = i /\ Steps'[i].forward \in Actions'
        BY <1>5, <2>1, <3>2
      <3>5. \A i \in DOMAIN Outcomes' : Outcomes'[i].forward = Steps'[i].forward
        BY <1>6, <2>1, <3>1, <3>2
      <3>6. QED
        BY <3>3, <3>4, <3>5 DEF SagaOrder
    <2>4. CASE r.kind \notin {"step", "outcome"}
      <3>1. Steps' = Steps /\ Outcomes' = Outcomes
        BY <1>6, <2>4
      <3>2. QED
        BY <1>5, <2>1, <3>1 DEF SagaOrder
    <2>5. QED
      BY <2>2, <2>3, <2>4
  <1>13. Passing' /\ Walkable'
    BY <1>1, <1>3 DEF Passing, Walkable, Accepted
  <1>14. QED
    BY <1>9, <1>10, <1>11, <1>12, <1>13 DEF IInv

\* A place of the region table is read.
LEMMA ReadRegionKeeps ==
  ASSUME IInv, ReadRegion
  PROVE  IInv'
  <1>1. file \in Files /\ at \in Nat \ {0} /\ pc = "regions" /\ at <= Len(file.region)
    BY DEF IInv, Shape, ReadRegion
  <1>2. file.region \in Seq(SUBSET (RegionRecord \cup {Absent}))
    BY <1>1, ImageAssumption
  <1>3. file.region[at] \subseteq RegionRecord \cup {Absent}
    BY <1>1, <1>2
  <1>4. PICK r \in file.region[at] : \/ Skip
                                     \/ r # Absent /\ TakeRegion(r)
                                     \/ Reject("record")
    BY DEF ReadRegion
  <1>5. CASE Skip
    BY <1>1, <1>5, SkipKeeps
  <1>6. CASE r # Absent /\ TakeRegion(r)
    BY <1>1, <1>3, <1>6, TakeRegionKeeps
  <1>7. CASE Reject("record")
    BY <1>7, RejectKeeps
  <1>8. QED
    BY <1>4, <1>5, <1>6, <1>7

\* An edge that is accepted refers to records that are there, and what the input
\* enters becomes reachable.
LEMMA TakeEdgeKeeps ==
  ASSUME IInv, pc = "edges", NEW e \in EdgeRecord, TakeEdge(e)
  PROVE  IInv'
  <1>1. /\ ValidEdge(e) /\ edge' = Append(edge, e) /\ at' = at + 1
        /\ reachable' = IF e.from = "input" THEN reachable \cup ({GraphTarget(e)} \ {0}) ELSE reachable
        /\ UNCHANGED <<file, region>> /\ pc' = pc /\ verdict' = verdict
    BY DEF TakeEdge
  <1>2. Shape /\ Stage /\ Seeds /\ SagaOrder
    BY DEF IInv
  <1>3. edge \in Seq(EdgeRecord) /\ \A i \in DOMAIN edge : ValidEdge(edge[i])
    BY <1>2 DEF Shape
  <1>4. /\ edge' \in Seq(EdgeRecord) /\ DOMAIN edge' = DOMAIN edge \cup {Len(edge) + 1}
        /\ Len(edge) + 1 \notin DOMAIN edge
        /\ \A i \in DOMAIN edge' : edge'[i] = IF i \in DOMAIN edge THEN edge[i] ELSE e
    BY <1>1, <1>3
  <1>5. \A i \in DOMAIN edge' : ValidEdge(edge'[i])
    BY <1>1, <1>3, <1>4
  <1>6. GraphTarget(e) \in Node \cup {0}
    BY <1>1, <1>2, GraphTargetIsNode
  <1>7. reachable' \subseteq Node /\ at' \in Nat \ {0}
    BY <1>1, <1>2, <1>6 DEF Shape
  <1>8. Shape'
    BY <1>1, <1>2, <1>4, <1>5, <1>7, ShapeKept DEF Shape
  <1>9. Stage'
    BY <1>1, <1>2 DEF Stage
  <1>10. Seeds'
    <2>1. Each' = Each
      BY <1>1, EdgeFrame
    <2>2. \A i \in DOMAIN edge' : GraphTarget(edge[i])' = GraphTarget(edge'[i])
      BY <2>1 DEF GraphTarget
    <2>3. \A i \in DOMAIN edge' : edge'[i].from = "input" => GraphTarget(edge'[i]) \in reachable' \cup {0}
      BY <1>1, <1>2, <1>4 DEF Seeds
    <2>4. ASSUME NEW n \in reachable'
          PROVE  \E i \in DOMAIN edge' : edge'[i].from = "input" /\ GraphTarget(edge'[i]) = n
      <3>1. CASE n \in reachable
        BY <1>2, <1>4, <3>1 DEF Seeds
      <3>2. CASE n \notin reachable
        <4>1. e.from = "input" /\ n = GraphTarget(e)
          BY <1>1, <3>2
        <4>2. Len(edge) + 1 \in DOMAIN edge' /\ edge'[Len(edge) + 1] = e
          BY <1>4
        <4>3. QED
          BY <4>1, <4>2
      <3>3. QED
        BY <3>1, <3>2
    <2>5. QED
      BY <2>2, <2>3, <2>4 DEF Seeds
  <1>11. SagaOrder'
    BY <1>1, <1>2, SagaKept
  <1>12. Passing' /\ Walkable'
    BY <1>1, <1>2 DEF Stage, Passing, Walkable, Accepted
  <1>13. QED
    BY <1>8, <1>9, <1>10, <1>11, <1>12 DEF IInv

\* A place of the edge table is read.
LEMMA ReadEdgeKeeps ==
  ASSUME IInv, ReadEdge
  PROVE  IInv'
  <1>1. file \in Files /\ at \in Nat \ {0} /\ pc = "edges" /\ at <= Len(file.edge)
    BY DEF IInv, Shape, ReadEdge
  <1>2. file.edge \in Seq(SUBSET (EdgeRecord \cup {Absent}))
    BY <1>1, ImageAssumption
  <1>3. file.edge[at] \subseteq EdgeRecord \cup {Absent}
    BY <1>1, <1>2
  <1>4. PICK e \in file.edge[at] : \/ Skip
                                   \/ e # Absent /\ TakeEdge(e)
                                   \/ \E why \in {"record", "duplicate", "topology"} : Reject(why)
    BY DEF ReadEdge
  <1>5. CASE Skip
    BY <1>1, <1>5, SkipKeeps
  <1>6. CASE e # Absent /\ TakeEdge(e)
    BY <1>1, <1>3, <1>6, TakeEdgeKeeps
  <1>7. CASE \E why \in {"record", "duplicate", "topology"} : Reject(why)
    BY <1>7, RejectKeeps
  <1>8. QED
    BY <1>4, <1>5, <1>6, <1>7

\* The edges are read, and the graph is complete: the input reaches what it enters.
LEMMA EdgesReadKeeps ==
  ASSUME IInv, EdgesRead
  PROVE  IInv'
  <1>1. CASE Reject("topology")
    BY <1>1, RejectKeeps
  <1>2. CASE Complete /\ pc' = "passes" /\ at' = 1 /\ UNCHANGED <<file, region, edge, reachable, verdict>>
    <2>1. /\ UNCHANGED <<file, region>> /\ UNCHANGED <<file, region, edge>> /\ UNCHANGED edge
          /\ verdict' = verdict /\ reachable' = reachable /\ pc = "edges"
      BY <1>2 DEF EdgesRead
    <2>2. Shape /\ Stage /\ Seeds /\ SagaOrder
      BY DEF IInv
    <2>3. Shape'
      BY <1>2, <2>1, <2>2, ShapeKept DEF Shape
    <2>4. Stage'
      BY <1>2, <2>1, <2>2 DEF Stage
    <2>5. Seeds'
      BY <1>2, <2>1, <2>2, SeedsKept
    <2>6. SagaOrder'
      BY <2>1, <2>2, SagaKept
    <2>7. Passing'
      <3>1. Complete'
        BY <1>2, <2>1, GraphFrame
      <3>2. ASSUME Direct PROVE (\A n \in reachable : FromInput(n)) /\ Cardinality(reachable) >= 1
        BY <1>2, <2>1, <2>2, <3>2, SeedsFromInput, ReachableCounted
      <3>3. Direct' => (\A n \in reachable' : FromInput(n)') /\ Cardinality(reachable') >= at'
        BY <1>2, <2>1, <3>2, GraphFrame
      <3>4. QED
        BY <3>1, <3>3 DEF Passing
    <2>8. Walkable'
      BY <2>1, <2>2 DEF Stage, Walkable, Accepted
    <2>9. QED
      BY <2>3, <2>4, <2>5, <2>6, <2>7, <2>8 DEF IInv
  <1>3. QED
    BY <1>1, <1>2 DEF EdgesRead

\* A pass finds only what is reachable, and at least one node.
LEMMA PassKeeps ==
  ASSUME IInv, Pass
  PROVE  IInv'
  <1>1. /\ UNCHANGED <<file, region>> /\ UNCHANGED <<file, region, edge>> /\ UNCHANGED edge
        /\ pc' = pc /\ pc = "passes" /\ verdict' = verdict
        /\ reachable' = Follow /\ at' = at + 1 /\ Follow # reachable
    BY DEF Pass, LastPass
  <1>2. Shape /\ Stage /\ Seeds /\ SagaOrder /\ Passing
    BY DEF IInv
  <1>3. reachable \subseteq Follow /\ Follow \subseteq Node
    BY <1>2, PassFollows
  <1>4. Shape'
    BY <1>1, <1>2, <1>3, ShapeKept DEF Shape
  <1>5. Stage'
    BY <1>1, <1>2 DEF Stage
  <1>6. Seeds'
    BY <1>1, <1>2, <1>3, SeedsKept
  <1>7. SagaOrder'
    BY <1>1, <1>2, SagaKept
  <1>8. Passing'
    <2>1. Complete
      BY <1>1, <1>2 DEF Passing
    <2>2. ASSUME Direct PROVE (\A n \in Follow : FromInput(n)) /\ Cardinality(Follow) >= at + 1
      <3>1. (\A n \in reachable : FromInput(n)) /\ Cardinality(reachable) >= at
        BY <1>1, <1>2, <2>2 DEF Passing
      <3>2. ASSUME NEW n \in Follow, NEW S \in SUBSET Vertex, Closed(S) PROVE <<"node", n>> \in S
        <4>1. \A m \in reachable : <<"node", m>> \in S
          BY <3>1, <3>2 DEF FromInput
        <4>2. QED
          BY <1>2, <2>1, <2>2, <3>2, <4>1, FollowInClosed
      <3>3. Cardinality(Follow) > Cardinality(reachable) /\ Cardinality(Follow) \in Nat
        BY <1>1, <1>2, PassFinds
      <3>4. Cardinality(reachable) \in Nat /\ at \in Nat
        BY <1>2, ReachableCounted DEF Shape
      <3>5. Cardinality(Follow) >= at + 1
        BY <3>1, <3>3, <3>4
      <3>6. QED
        BY <3>2, <3>5 DEF FromInput
    <2>3. Direct' => (\A n \in reachable' : FromInput(n)') /\ Cardinality(reachable') >= at'
      BY <1>1, <2>2, GraphFrame
    <2>4. Complete'
      BY <1>1, <2>1, GraphFrame
    <2>5. QED
      BY <2>3, <2>4 DEF Passing
  <1>9. Walkable'
    BY <1>1, <1>2 DEF Stage, Walkable, Accepted
  <1>10. QED
    BY <1>4, <1>5, <1>6, <1>7, <1>8, <1>9 DEF IInv

\* The passes are over, and every node was found.
LEMMA PassesDoneKeeps ==
  ASSUME IInv, PassesDone
  PROVE  IInv'
  <1>1. CASE Reject("topology")
    BY <1>1, RejectKeeps
  <1>2. CASE AllReached /\ verdict' = "ok" /\ pc' = "features" /\ UNCHANGED <<file, at, region, edge, reachable>>
    <2>1. /\ UNCHANGED <<file, region>> /\ UNCHANGED <<file, region, edge>> /\ UNCHANGED edge
          /\ at' = at /\ reachable' = reachable /\ pc = "passes"
      BY <1>2 DEF PassesDone
    <2>2. Shape /\ Stage /\ Seeds /\ SagaOrder /\ Passing
      BY DEF IInv
    <2>3. Shape'
      BY <1>2, <2>1, <2>2, ShapeKept DEF Shape
    <2>4. Stage'
      BY <1>2, <2>1, <2>2 DEF Stage
    <2>5. Seeds'
      BY <1>2, <2>1, <2>2, SeedsKept
    <2>6. SagaOrder'
      BY <2>1, <2>2, SagaKept
    <2>7. Passing'
      BY <1>2 DEF Passing
    <2>8. Walkable'
      <3>1. Complete /\ (Direct => AllFromInput)
        BY <1>2, <2>1, <2>2, FoundIsReached DEF Passing
      <3>2. Complete' /\ (Direct' => AllFromInput')
        BY <2>1, <3>1, GraphFrame
      <3>3. QED
        BY <1>2, <3>2 DEF Walkable
    <2>9. QED
      BY <2>3, <2>4, <2>5, <2>6, <2>7, <2>8 DEF IInv
  <1>3. QED
    BY <1>1, <1>2 DEF PassesDone

\* The daemon takes or refuses an accepted image.
LEMMA CheckFeaturesKeeps ==
  ASSUME IInv, CheckFeatures
  PROVE  IInv'
  <1>1. /\ UNCHANGED <<file, region>> /\ UNCHANGED <<file, region, edge>> /\ UNCHANGED edge
        /\ at' = at /\ reachable' = reachable /\ pc = "features" /\ pc' = "done"
        /\ verdict' \in {"supported", "unsupported"}
        /\ verdict' = "supported" => ~(Uses({"fork", "join"}) /\ Len(Steps \o Outcomes) > 0)
    BY DEF CheckFeatures
  <1>2. Shape /\ Stage /\ Seeds /\ SagaOrder /\ Walkable
    BY DEF IInv
  <1>3. Shape'
    BY <1>1, <1>2, ShapeKept DEF Shape
  <1>4. Stage'
    BY <1>1 DEF Stage
  <1>5. Seeds'
    BY <1>1, <1>2, SeedsKept
  <1>6. SagaOrder'
    BY <1>1, <1>2, SagaKept
  <1>7. Passing'
    BY <1>1 DEF Passing
  <1>8. Walkable'
    <2>1. Complete /\ (Direct => AllFromInput)
      BY <1>1, <1>2 DEF Walkable, Accepted, Stage
    <2>2. Complete' /\ (Direct' => AllFromInput')
      BY <1>1, <2>1, GraphFrame
    <2>3. Steps \in Seq(RegionRecord) /\ Outcomes \in Seq(RegionRecord)
      BY <1>2 DEF Shape, Steps, Outcomes, RegionKind
    <2>4. Len(Steps) # 0 => Len(Steps \o Outcomes) > 0
      BY <2>3
    <2>5. verdict' = "supported" => Len(Steps) = 0 \/ ~Uses({"fork", "join"})
      BY <1>1, <2>4
    <2>6. Steps' = Steps /\ (Uses({"fork", "join"})' <=> Uses({"fork", "join"}))
      BY <1>1, EdgeFrame
    <2>7. verdict' = "supported" => Len(Steps') = 0 \/ ~Uses({"fork", "join"})'
      BY <2>5, <2>6
    <2>8. QED
      BY <2>2, <2>7 DEF Walkable
  <1>9. QED
    BY <1>3, <1>4, <1>5, <1>6, <1>7, <1>8 DEF IInv

\* The validation starts with empty tables.
LEMMA InitHolds ==
  ASSUME Init
  PROVE  IInv
  <1>1. /\ file \in Files /\ pc = "nodes" /\ at = 1 /\ edge = <<>> /\ reachable = {}
        /\ verdict = "reading" /\ DOMAIN edge = {}
        /\ \A k \in RegionKind : region[k] = <<>>
        /\ region \in [RegionKind -> Seq(RegionRecord)]
    BY DEF Init
  <1>2. Each = <<>> /\ Steps = <<>> /\ Outcomes = <<>>
    BY <1>1 DEF Each, Steps, Outcomes, RegionKind
  <1>3. Shape
    BY <1>1, <1>2 DEF Shape
  <1>4. Stage
    BY <1>1 DEF Stage
  <1>5. Seeds
    BY <1>1 DEF Seeds
  <1>6. SagaOrder
    BY <1>2 DEF SagaOrder
  <1>7. Passing /\ Walkable
    BY <1>1 DEF Passing, Walkable, Accepted
  <1>8. QED
    BY <1>3, <1>4, <1>5, <1>6, <1>7 DEF IInv

\* A step of something else changes nothing.
LEMMA StutterKeeps ==
  ASSUME IInv, UNCHANGED vars
  PROVE  IInv'
  <1>1. /\ UNCHANGED <<file, region>> /\ UNCHANGED <<file, region, edge>> /\ UNCHANGED edge
        /\ at' = at /\ reachable' = reachable /\ pc' = pc /\ verdict' = verdict
    BY DEF vars
  <1>2. Shape /\ Stage /\ Seeds /\ SagaOrder /\ Passing /\ Walkable
    BY DEF IInv
  <1>3. Shape'
    BY <1>1, <1>2, ShapeKept DEF Shape
  <1>4. Stage'
    BY <1>1, <1>2 DEF Stage
  <1>5. Seeds'
    BY <1>1, <1>2, SeedsKept
  <1>6. SagaOrder'
    BY <1>1, <1>2, SagaKept
  <1>7. Passing'
    BY <1>1, <1>2, GraphFrame DEF Passing
  <1>8. Walkable'
    BY <1>1, <1>2, GraphFrame, EdgeFrame DEF Walkable, Accepted
  <1>9. QED
    BY <1>3, <1>4, <1>5, <1>6, <1>7, <1>8 DEF IInv

-----------------------------------------------------------------------------
(* The theorems *)

\* The inductive invariant holds of every validation of every file.
THEOREM Invariance == Spec => []IInv
  <1>1. Init => IInv
    BY InitHolds
  <1>2. IInv /\ [Next]_vars => IInv'
    BY ReadNodesKeeps, ReadRegionKeeps, RegionsReadKeeps, ReadEdgeKeeps, EdgesReadKeeps, PassKeeps,
       PassesDoneKeeps, CheckFeaturesKeeps, StutterKeeps DEF Next
  <1>3. QED
    BY <1>1, <1>2, PTL DEF Spec

\* Every record that hermas_image_validate accepted refers to records that are there.
THEOREM TypeCorrect == Spec => []TypeOK
  <1>1. IInv => TypeOK
    <2> SUFFICES ASSUME IInv PROVE TypeOK
      OBVIOUS
    <2>1. Shape
      BY DEF IInv
    <2>2. ASSUME NEW i \in DOMAIN edge
          PROVE  (edge[i].from = "input" \/ TailOf(edge[i]) \in Vertex) /\ HeadOf(edge[i]) \in Vertex
      <3>1. edge[i] \in EdgeRecord /\ ValidEdge(edge[i])
        BY <2>1 DEF Shape
      <3>2. (\E r \in DOMAIN Each, k \in {"each", "collect"} : HeadOf(edge[i]) = <<k, r>>)
              \/ \E n \in Node : HeadOf(edge[i]) = <<"node", n>>
        BY <2>1, <3>1, EdgeEnds
      <3>3. edge[i].from # "input" =>
              (\E r \in DOMAIN Each, k \in {"each", "collect"} : TailOf(edge[i]) = <<k, r>>)
                \/ \E n \in Node : TailOf(edge[i]) = <<"node", n>>
        BY <2>1, <3>1, EdgeEnds
      <3>4. QED
        BY <3>2, <3>3 DEF Vertex
    <2>3. QED
      BY <2>1, <2>2 DEF TypeOK, Shape
  <1>2. QED
    BY <1>1, Invariance, PTL

\* The passes of hermas_image_validate accept a graph of direct regions exactly when
\* the input reaches every node and both sides of every region.
THEOREM PassesDecideReachability == Spec => []ReachesExactly
  <1>1. IInv => ReachesExactly
    BY PassesDecide
  <1>2. QED
    BY <1>1, Invariance, PTL

\* A cycle of an accepted graph of direct regions runs through a Join.
THEOREM CyclesRunThroughJoins == Spec => []CyclesPassJoin
  <1>1. IInv => CyclesPassJoin
    <2> SUFFICES ASSUME IInv, Accepted, Direct PROVE
          \A S \in (SUBSET {v \in Vertex : v[1] # "node" \/ ~IsNode(v[2], "join")}) \ {{}} :
            \E v \in S : \A i \in DOMAIN edge : HeadOf(edge[i]) = v => TailOf(edge[i]) \notin S
      BY DEF CyclesPassJoin
    <2>1. Shape /\ Complete /\ AllFromInput
      BY DEF IInv, Walkable
    <2>2. QED
      BY <2>1, NoCycle
  <1>2. QED
    BY <1>1, Invariance, PTL

\* An accepted saga has every Action as a step once, in the order of its ordinals, each
\* with its own outcome; a saga together with all is not supported.
THEOREM SagaCoversActions == Spec => []SagaIsTotal
  <1>1. IInv => SagaIsTotal
    <2> SUFFICES ASSUME IInv, Accepted, Len(Steps) > 0
                 PROVE  /\ {Steps[i].forward : i \in DOMAIN Steps} = Actions
                        /\ Len(Outcomes) = Cardinality(Actions)
                        /\ \A i \in DOMAIN Steps : Steps[i].ordinal = i /\ Outcomes[i].forward = Steps[i].forward
                        /\ verdict = "supported" => ~Uses({"fork", "join"})
      BY DEF SagaIsTotal
    <2>1. Shape /\ SagaOrder /\ Walkable
      BY DEF IInv
    <2>2. Steps \in Seq(RegionRecord) /\ Outcomes \in Seq(RegionRecord)
      BY <2>1 DEF Shape, Steps, Outcomes, RegionKind
    <2>3. /\ \A n \in Actions : \E i \in DOMAIN Steps : Steps[i].forward = n
          /\ Len(Steps) = Cardinality(Actions) /\ Len(Outcomes) = Len(Steps)
      BY <2>1 DEF Walkable, Complete, SagaComplete
    <2>4. DOMAIN Steps = DOMAIN Outcomes
      BY <2>2, <2>3
    <2>5. \A i \in DOMAIN Steps : /\ Steps[i].ordinal = i /\ Steps[i].forward \in Actions
                                  /\ Outcomes[i].forward = Steps[i].forward
      BY <2>1, <2>4 DEF SagaOrder
    <2>6. {Steps[i].forward : i \in DOMAIN Steps} = Actions
      BY <2>3, <2>5
    <2>7. verdict = "supported" => ~Uses({"fork", "join"})
      BY <2>1 DEF Walkable
    <2>8. QED
      BY <2>3, <2>5, <2>6, <2>7
  <1>2. QED
    BY <1>1, Invariance, PTL
=============================================================================
