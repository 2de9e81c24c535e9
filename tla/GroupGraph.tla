----------------------------- MODULE GroupGraph -----------------------------
(***************************************************************************)
(* The graphs that the theorems about GroupLoop are stated for.            *)
(*                                                                         *)
(* hermas_image_validate (src/src/image.c) admits one edge into a node and *)
(* one into each tag of a Join, and docs/GRAPH_IMAGE_V1.md rejects closed  *)
(* cycles, of which the compiler writes none.  A Join is a place per tag   *)
(* here, any other node is one place.                                      *)
(***************************************************************************)
EXTENDS GroupLoop

\* The graphs of `all`: no node starts an each region.
AllOnly == \A n \in Node : Kind[n] # "each"

\* Every branch of a Fork begins with an Action.
ForksEnterActions ==
  \A n \in Node : Kind[n] = "fork" =>
    \A k \in 1 .. Len(Branch[n]) : Kind[Branch[n][k].node] = "action"

\* The edges by which a flow can leave a node; NotSent and Unknown lead to a
\* terminal.
Exits(n) ==
  CASE Kind[n] = "action"   -> {OnSuccess[n], OnAppError[n]}
    [] Kind[n] = "fork"     -> {Branch[n][k] : k \in 1 .. Len(Branch[n])}
    [] Kind[n] = "dispatch" -> {Case[n][k] : k \in 1 .. Len(Case[n])}
    [] Kind[n] = "join"     -> {JoinOut[n][k] : k \in DOMAIN JoinOut[n]}
    [] OTHER                -> {}

\* Where an edge leads to, and the places of the graph.
Place(t) == IF Kind[t.node] = "join" THEN <<t.node, t.tag>> ELSE <<t.node, 0>>
Places   == {p \in Node \X (0 .. MaxFlows) :
               IF Kind[p[1]] = "join" THEN p[2] \in 1 .. JoinSize[p[1]] ELSE p[2] = 0}

\* An edge leads from p to q; a way of edges leads from p to q when q is in every
\* set of places that holds p and is closed under edges.
Follows(p, q) == \E t \in Exits(p[1]) : Kind[t.node] # "end" /\ q = Place(t)
Closed(S)     == \A p \in S, q \in Places : Follows(p, q) => q \in S
Leads(p, q)   == \A S \in SUBSET Places : p \in S /\ Closed(S) => q \in S

\* One edge into every node and into every tag of a Join (input_counts and
\* join_input_counts of the validator); terminals are free.
OneWayIn ==
  /\ \A n, m \in Node : \A t \in Exits(n), u \in Exits(m) :
       Kind[t.node] # "end" /\ Place(t) = Place(u) => n = m
  /\ \A n \in Node : \A t \in Exits(n) : Kind[t.node] # "end" => Place(t) # Place(Input)
  /\ \A n \in Node :
       /\ Kind[n] = "fork" => \A k, l \in 1 .. Len(Branch[n]) :
            Kind[Branch[n][k].node] # "end" /\ Place(Branch[n][k]) = Place(Branch[n][l]) => k = l
       /\ Kind[n] = "join" => \A k, l \in DOMAIN JoinOut[n] :
            Kind[JoinOut[n][k].node] # "end" /\ Place(JoinOut[n][k]) = Place(JoinOut[n][l]) => k = l
       /\ Kind[n] = "action" /\ Kind[OnSuccess[n].node] # "end" =>
            Place(OnSuccess[n]) # Place(OnAppError[n])

\* No edge leads back.
Acyclic == \A p, q \in Places : Follows(p, q) => ~Leads(q, p)

\* An edge into a Join carries one of its tags (case_tag < join_branches).
JoinTags ==
  /\ Kind[Input.node] = "join" => Input.tag \in 1 .. JoinSize[Input.node]
  /\ \A n \in Node : \A t \in Exits(n) :
       Kind[t.node] = "join" => t.tag \in 1 .. JoinSize[t.node]

\* The nodes that a branch of a Fork reaches before its first Action.  A branch
\* that entered a Join there might find it resolved by the flow of a later
\* branch: group_enter_fork keeps the state of the idle flow it takes, which may
\* still say that it waits at that Join.
BranchSet(Q) ==
  /\ \A n \in Node : Kind[n] = "fork" => \A k \in 1 .. Len(Branch[n]) : Branch[n][k].node \in Q
  /\ \A n \in Q : Kind[n] = "dispatch" => \A k \in 1 .. Len(Case[n]) : Case[n][k].node \in Q
BranchNodes == {n \in Node : \A Q \in SUBSET Node : BranchSet(Q) => n \in Q}

\* Every branch of a Fork does some work before it reaches a Join or a terminal.
BranchesDoWork == \A n \in BranchNodes : Kind[n] \notin {"join", "end"}

\* The graphs in which flows only move forward.
Ordered == AllOnly /\ OneWayIn /\ Acyclic /\ JoinTags /\ BranchesDoWork

-----------------------------------------------------------------------------
(* Graphs with an each region *)

\* The each region of a graph that has one, the node of its items and the node
\* that follows it.
Region   == CHOOSE g \in Node : Kind[g] = "each"
ItemNode == Template[Region].node
NextNode == Collected[Region].node

\* The nodes that can be reached once the region is collected.
OnwardSet(Q) ==
  NextNode \in Q /\ \A n \in Q : \A t \in Exits(n) : t.node \in Q
Onward == {n \in Node : \A Q \in SUBSET Node : OnwardSet(Q) => n \in Q}

\* The graphs of `each`: one region with one Action for its items ("exactly one
\* Action in the current slice", docs/GRAPH_IMAGE_V1.md), whose success is collected
\* and whose app error enters a terminal (docs/HSCRIPT.md); nothing but the region
\* leads to that Action and to the one that follows (input_counts and the four edge
\* counts of the validator), and no way leads back into the region.
OneRegion ==
  /\ "none" \notin Node /\ \E g \in Node : Kind[g] = "each"
  /\ \A g, h \in Node : Kind[g] = "each" /\ Kind[h] = "each" => g = h
  /\ \A n \in Node : Kind[n] \notin {"fork", "join"}
  /\ Kind[ItemNode] = "action"
  /\ Kind[OnSuccess[ItemNode].node] = "collect" /\ Kind[OnAppError[ItemNode].node] = "end"
  /\ \A t \in {Input} \cup UNION {Exits(n) : n \in Node} :
       t.node # ItemNode /\ (Kind[NextNode] = "action" => t.node # NextNode)
  /\ Region \notin Onward /\ ItemNode \notin Onward
=============================================================================
