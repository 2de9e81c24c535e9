----------------------------- MODULE GraphImage -----------------------------
(***************************************************************************)
(* The validator that stands between a graph image and everything that     *)
(* runs it: hermas_image_validate and hermas_image_features (src/src/      *)
(* image.c) and hermas_daemon_image_check (src/src/loop_linux.c).          *)
(*                                                                         *)
(* The tables of nodes, regions and edges are read record by record, and   *)
(* the first record that breaks a rule ends the validation.  A file is     *)
(* given by its node table and, for each place of the other two tables,    *)
(* the records that may stand there; the validation chooses one as it      *)
(* reads.  Byte layout, names and contracts are left out, and the types of *)
(* a record are those that its places ask for: what is modelled is the     *)
(* topology.                                                               *)
(***************************************************************************)
EXTENDS Naturals, FiniteSets, Sequences

CONSTANTS
  Files,       \* [node, region, edge]: a node table, and for each place of the
               \* region and the edge table the records that may stand there
  MaxBranches, \* HERMAS_MAX_ALL_BRANCHES
  MaxRegions   \* deadline regions, and each regions, of one image

\* A place that a file does not have
Absent == [kind |-> "absent"]

Exits  == {"success", "error", "not_sent", "unknown"}
Tagged == {"case", "branch", "output", "item", "collected"}

NodeRecord == [kind : {"action", "dispatch", "fork", "join", "terminal"}, size : Nat]
RegionKind == {"deadline", "each", "step", "outcome"}
RegionRecord ==
  [kind : {"deadline"}, first : Nat, count : Nat, parent : Nat]
    \cup [kind : {"each"}, template : Nat, concurrency : Nat, bound : Nat]
    \cup [kind : {"step"}, forward : Nat, ordinal : Nat]
    \cup [kind : {"outcome"}, forward : Nat]
EdgeRecord ==
  [kind : {"edge"}, from : {"input"} \cup Exits \cup Tagged, source : Nat,
   to : {"action", "dispatch", "fork", "join", "terminal", "each", "collect"}, target : Nat, tag : Nat]

ASSUME ImageAssumption ==
  /\ MaxBranches \in Nat /\ MaxRegions \in Nat
  /\ \A f \in Files : /\ f.node \in Seq(NodeRecord)
                      /\ f.region \in Seq(SUBSET (RegionRecord \cup {Absent}))
                      /\ f.edge \in Seq(SUBSET (EdgeRecord \cup {Absent}))

VARIABLES
  file,      \* the file that is validated
  pc,        \* the table that is read, or done
  at,        \* the next place of that table
  region,    \* region records that were accepted, per kind
  edge,      \* edge records that were accepted
  reachable, \* nodes that were found reachable
  verdict    \* reading, the error, ok, then supported or unsupported

vars == <<file, pc, at, region, edge, reachable, verdict>>

Init ==
  /\ file \in Files
  /\ pc = "nodes" /\ at = 1
  /\ region = [k \in RegionKind |-> <<>>] /\ edge = <<>> /\ reachable = {}
  /\ verdict = "reading"

Node == DOMAIN file.node
IsNode(n, kind) == n \in Node /\ file.node[n].kind = kind
Actions == {n \in Node : IsNode(n, "action")}

Deadlines == region["deadline"]
Each      == region["each"]
Steps     == region["step"]
Outcomes  == region["outcome"]

Reject(why) ==
  /\ verdict' = why /\ pc' = "done"
  /\ UNCHANGED <<file, at, region, edge, reachable>>

-----------------------------------------------------------------------------
(* The tables of nodes and regions                                         *)

\* size: which of the four terminals, or how many branches, tags or cases
ValidNode(n) ==
  LET size == file.node[n].size IN
  CASE IsNode(n, "terminal") ->
         size \in 1 .. 4 /\ \A m \in 1 .. n - 1 : file.node[m] # file.node[n]
    [] IsNode(n, "fork") \/ IsNode(n, "join") -> size \in 2 .. MaxBranches
    [] OTHER -> TRUE

AllTerminals == \A k \in 1 .. 4 : \E n \in Node : IsNode(n, "terminal") /\ file.node[n].size = k

ReadNodes ==
  /\ pc = "nodes"
  /\ IF \A n \in Node : ValidNode(n)
       THEN IF AllTerminals
              THEN pc' = "regions" /\ UNCHANGED <<file, at, region, edge, reachable, verdict>>
              ELSE Reject("topology")
       ELSE Reject("record")

LastNode(r) == r.first + r.count - 1

\* the first deadline covers the graph, a later one lies within its parent
ValidDeadline(r) ==
  /\ Len(Deadlines) < MaxRegions /\ Len(Each) = 0 /\ Len(Steps) = 0
  /\ r.first > 0 /\ r.count > 0 /\ LastNode(r) <= Len(file.node)
  /\ r.parent <= Len(Deadlines)
  /\ r.parent > 0 => LET p == Deadlines[r.parent] IN r.first >= p.first /\ LastNode(r) <= LastNode(p)
  /\ Len(Deadlines) = 0 => r.first = 1 /\ r.count = Len(file.node)

ValidEach(r) ==
  /\ Len(Each) < MaxRegions /\ Len(Steps) = 0
  /\ r.concurrency \in 1 .. MaxBranches /\ r.concurrency <= r.bound
  /\ r.template \in Actions

\* steps come in the order of their ordinals, each followed by its outcome
ValidStep(r) ==
  /\ r.forward \in Actions
  /\ r.ordinal = Len(Steps) + 1
  /\ \A i \in DOMAIN Steps : Steps[i].forward # r.forward

ValidOutcome(r) ==
  /\ Len(Steps) = Len(Outcomes) + 1
  /\ r.forward = Steps[Len(Steps)].forward

ValidRegion(r) ==
  CASE r.kind = "deadline" -> ValidDeadline(r)
    [] r.kind = "each"     -> ValidEach(r)
    [] r.kind = "step"     -> ValidStep(r)
    [] r.kind = "outcome"  -> ValidOutcome(r)

Skip == at' = at + 1 /\ UNCHANGED <<file, pc, region, edge, reachable, verdict>>

TakeRegion(r) ==
  /\ ValidRegion(r)
  /\ region' = [region EXCEPT ![r.kind] = Append(@, r)] /\ at' = at + 1
  /\ UNCHANGED <<file, pc, edge, reachable, verdict>>

ReadRegion ==
  /\ pc = "regions" /\ at <= Len(file.region)
  /\ \E r \in file.region[at] :
       \/ r = Absent /\ Skip
       \/ r # Absent /\ TakeRegion(r)
       \/ r # Absent /\ ~ValidRegion(r) /\ Reject("record")

RegionsRead ==
  /\ pc = "regions" /\ at > Len(file.region)
  /\ pc' = "edges" /\ at' = 1
  /\ UNCHANGED <<file, region, edge, reachable, verdict>>

-----------------------------------------------------------------------------
(* The table of edges.  from and to are the kinds of the two ends; item    *)
(* and collected leave a region, each and collect enter one; one tag       *)
(* serves as case, branch, output or Join input.                           *)

ValidSource(e) ==
  CASE e.from = "input"  -> e.source = 0
    [] e.from \in Exits  -> IsNode(e.source, "action")
    [] e.from = "case"   -> IsNode(e.source, "dispatch") /\ e.tag < file.node[e.source].size
    [] e.from = "branch" -> IsNode(e.source, "fork") /\ e.tag < file.node[e.source].size
    [] e.from = "output" -> IsNode(e.source, "join") /\ e.tag < file.node[e.source].size
    [] OTHER             -> e.source \in DOMAIN Each /\ e.tag = 0

\* NotSent and Unknown exits carry no value; only the terminals of that name,
\* either of them, take none
Carries(e) == e.from \notin {"not_sent", "unknown"}

\* Mutation of RegionTarget: the number of a region is compared with the nodes only
RegionTargetUnbounded(e) == e.tag = 0
RegionTarget(e) == e.target \in DOMAIN Each /\ e.tag = 0

ValidTarget(e) ==
  /\ e.target \in Node
  /\ CASE e.to = "terminal" -> /\ IsNode(e.target, "terminal")
                               /\ Carries(e) \/ file.node[e.target].size \in {3, 4}
       [] e.to = "join"     -> /\ IsNode(e.target, "join") /\ Carries(e)
                               /\ e.tag < file.node[e.target].size
       [] e.to \in {"each", "collect"} -> RegionTarget(e) /\ Carries(e)
       [] OTHER             -> IsNode(e.target, e.to) /\ Carries(e)

ValidTag(e) == e.from \in Tagged \/ e.to = "join" \/ e.tag = 0

\* the places of a node or region that an edge takes
InPort(e)  == <<IF e.to \in {"action", "dispatch", "fork"} THEN "node" ELSE e.to,
                e.target, IF e.to = "join" THEN e.tag ELSE 0>>
OutPort(e) == <<e.from, e.source, e.tag>>

Taken(e) == \E i \in DOMAIN edge : edge[i] = e

\* a terminal takes any number of edges; a second exit of an Action and a
\* second input of the workflow are found at the end
Crowded(e) ==
  \E i \in DOMAIN edge :
    \/ e.to # "terminal" /\ InPort(edge[i]) = InPort(e)
    \/ e.from \in Tagged /\ OutPort(edge[i]) = OutPort(e)

\* A region stands for its template here: what enters the region reaches the
\* template, what leaves it comes from there, and what runs between the two,
\* 0, is not followed
GraphSource(e) == CASE e.from = "item" -> 0
                    [] e.from = "collected" -> Each[e.source].template
                    [] OTHER -> e.source
GraphTarget(e) == CASE e.to = "each" -> Each[e.target].template
                    [] e.to = "collect" -> 0
                    [] OTHER -> e.target

ValidEdge(e) == ValidSource(e) /\ ValidTarget(e) /\ ValidTag(e)

TakeEdge(e) ==
  /\ ValidEdge(e) /\ ~Taken(e) /\ ~Crowded(e)
  /\ edge' = Append(edge, e) /\ at' = at + 1
  /\ reachable' = IF e.from = "input" THEN reachable \cup ({GraphTarget(e)} \ {0}) ELSE reachable
  /\ UNCHANGED <<file, pc, region, verdict>>

ReadEdge ==
  /\ pc = "edges" /\ at <= Len(file.edge)
  /\ \E e \in file.edge[at] :
       \/ e = Absent /\ Skip
       \/ e # Absent /\ TakeEdge(e)
       \/ e # Absent /\ ~ValidEdge(e) /\ Reject("record")
       \/ Taken(e) /\ Reject("duplicate")
       \/ e # Absent /\ ValidEdge(e) /\ ~Taken(e) /\ Crowded(e) /\ Reject("topology")

-----------------------------------------------------------------------------
(* The end of the validation: every place is taken as often as it must be, *)
(* and every node can be reached from the input.  0 is no node.             *)

Edges(P(_)) == {i \in DOMAIN edge : P(edge[i])}
Once(P(_))  == Cardinality(Edges(P)) = 1

Entered(n)     == Once(LAMBDA e : InPort(e) = <<"node", n, 0>>)
Leaves(n, k)   == Once(LAMBDA e : e.from = k /\ e.source = n)
LeavesBy(n, t) == Once(LAMBDA e : e.from \in {"case", "branch"} /\ e.source = n /\ e.tag = t)

NodeComplete(n) ==
  LET tags == 0 .. file.node[n].size - 1 IN
  CASE IsNode(n, "action") -> Entered(n) /\ \A k \in Exits : Leaves(n, k)
    [] IsNode(n, "dispatch") \/ IsNode(n, "fork") ->
         Entered(n) /\ \A t \in tags : LeavesBy(n, t)
    [] IsNode(n, "join") ->
         /\ \A t \in tags : Once(LAMBDA e : InPort(e) = <<"join", n, t>>)
         /\ Edges(LAMBDA e : e.from = "output" /\ e.source = n) # {}
    [] OTHER -> TRUE

\* Mutation of SagaComplete: the steps are compared with their outcomes, not with the Actions
SagaOutcomesOnly == Len(Outcomes) = Len(Steps)

\* every Action is a step of the saga, with an outcome
SagaComplete ==
  Len(Steps) > 0 =>
    /\ \A n \in Actions : /\ \E i \in DOMAIN Steps : Steps[i].forward = n
                          /\ \E i \in DOMAIN Outcomes : Outcomes[i].forward = n
    /\ Len(Steps) = Cardinality(Actions) /\ Len(Outcomes) = Len(Steps)

EachComplete(r) ==
  /\ \A k \in {"each", "collect"} : Once(LAMBDA e : e.to = k /\ e.target = r)
  /\ \A k \in {"item", "collected"} : Leaves(r, k)

Complete ==
  /\ Once(LAMBDA e : e.from = "input")
  /\ \A n \in Node : NodeComplete(n)
  /\ SagaComplete
  /\ \A r \in DOMAIN Each : EachComplete(r)

EdgesRead ==
  /\ pc = "edges" /\ at > Len(file.edge)
  /\ IF Complete
       THEN pc' = "passes" /\ at' = 1 /\ UNCHANGED <<file, region, edge, reachable, verdict>>
       ELSE Reject("topology")

\* one pass over the edge table, in its order
FollowEdge(s, e) == IF e.from # "input" /\ GraphTarget(e) # 0 /\ GraphSource(e) \in s
                      THEN s \cup {GraphTarget(e)} ELSE s

Reached[i \in 0 .. Len(edge)] ==
  IF i = 0 THEN reachable ELSE FollowEdge(Reached[i - 1], edge[i])

Follow == Reached[Len(edge)]

\* Mutation of LastPass: one pass, as if the edges were in topological order
LastPassIsFirst == at > 1 \/ Follow = reachable

\* at most one pass for each node, until one changes nothing
LastPass == at > Len(file.node) \/ Follow = reachable

Pass ==
  /\ pc = "passes" /\ ~LastPass
  /\ reachable' = Follow /\ at' = at + 1
  /\ UNCHANGED <<file, pc, region, edge, verdict>>

\* Mutation of AllReached: only the terminals have to be reached
TerminalsReached == {n \in Node : IsNode(n, "terminal")} \subseteq reachable
AllReached == Node \subseteq reachable

PassesDone ==
  /\ pc = "passes" /\ LastPass
  /\ IF AllReached
       THEN verdict' = "ok" /\ pc' = "features" /\ UNCHANGED <<file, at, region, edge, reachable>>
       ELSE Reject("topology")

Uses(kinds) == \E n \in Node : file.node[n].kind \in kinds

\* hermas_daemon_image_check: all of the features of an image are supported,
\* but not a saga together with all
CheckFeatures ==
  /\ pc = "features" /\ pc' = "done"
  /\ verdict' = IF Uses({"fork", "join"}) /\ Len(Steps \o Outcomes) > 0
                  THEN "unsupported" ELSE "supported"
  /\ UNCHANGED <<file, at, region, edge, reachable>>

Next == ReadNodes \/ ReadRegion \/ RegionsRead \/ ReadEdge \/ EdgesRead
        \/ Pass \/ PassesDone \/ CheckFeatures

Spec == Init /\ [][Next]_vars

-----------------------------------------------------------------------------
(* What an accepted image is                                               *)

Accepted == verdict \in {"ok", "supported", "unsupported"}

\* The graph that an execution walks: nodes, and the two sides of a region
TailOf(e) == CASE e.from = "item" -> <<"each", e.source>>
              [] e.from = "collected" -> <<"collect", e.source>>
              [] OTHER -> <<"node", e.source>>
HeadOf(e) == IF e.to \in {"each", "collect"} THEN <<e.to, e.target>> ELSE <<"node", e.target>>
Vertex == ({"node"} \X Node) \cup ({"each", "collect"} \X DOMAIN Each)

\* every region hands its items to its template and collects from it
Direct ==
  \A i \in DOMAIN edge : LET e == edge[i] IN
    /\ e.from = "item" => e.to = "action" /\ e.target = Each[e.source].template
    /\ e.to = "collect" => e.from = "success" /\ e.source = Each[e.target].template

\* S holds what the input enters, and what an edge enters that leaves S
Closed(S) == \A i \in DOMAIN edge :
               edge[i].from = "input" \/ TailOf(edge[i]) \in S => HeadOf(edge[i]) \in S

\* Every record that was accepted refers to records that are there, so that a
\* later pass, and the runtime after it, may use it as an index (src/image.c).
TypeOK ==
  /\ file \in Files /\ at \in Nat
  /\ pc \in {"nodes", "regions", "edges", "passes", "features", "done"}
  /\ reachable \subseteq Node
  /\ verdict \in {"reading", "record", "duplicate", "topology", "ok", "supported", "unsupported"}
  /\ \A i \in DOMAIN Each : Each[i].template \in Actions
  /\ \A i \in DOMAIN edge : /\ edge[i].from = "input" \/ TailOf(edge[i]) \in Vertex
                            /\ HeadOf(edge[i]) \in Vertex

\* The passes over the edge table, which let a template stand for its region
\* and stop after one pass for each node, decide reachability in the graph that
\* is executed, when regions are direct: the image is accepted exactly when the
\* input reaches every node and both sides of every region.
ReachesExactly ==
  pc = "passes" /\ LastPass /\ Direct =>
    (AllReached <=> \A S \in SUBSET Vertex : Closed(S) => S = Vertex)

\* One input for each place and reachability from one input leave no way
\* around: a cycle of an accepted graph runs through a Join, which has an
\* input for each branch.  (Through a Join there can be one: the validator has
\* no test for cycles of its own.)
CyclesPassJoin ==
  Accepted /\ Direct =>
    \A S \in (SUBSET {v \in Vertex : v[1] # "node" \/ ~IsNode(v[2], "join")}) \ {{}} :
      \E v \in S : \A i \in DOMAIN edge : HeadOf(edge[i]) = v => TailOf(edge[i]) \notin S

\* An accepted saga compensates every Action once: the steps are the Actions in
\* some order, each with its own outcome, and an image with all is refused.
SagaIsTotal ==
  Accepted /\ Len(Steps) > 0 =>
    /\ {Steps[i].forward : i \in DOMAIN Steps} = Actions
    /\ Len(Outcomes) = Cardinality(Actions)
    /\ \A i \in DOMAIN Steps : Steps[i].ordinal = i /\ Outcomes[i].forward = Steps[i].forward
    /\ verdict = "supported" => ~Uses({"fork", "join"})
=============================================================================
