----------------------------- MODULE GroupEach -----------------------------
(***************************************************************************)
(* The items of an each region: what follows the region is delivered only  *)
(* when every item has succeeded in one delivery of its own, no more items *)
(* run at a time than the region admits, and the loop ends only over a     *)
(* stale entry of the round.                                               *)
(*                                                                         *)
(* An execution is before its region, within it or after it (Stage).       *)
(* Before and after, one flow walks the graph (Single).  Within, the items *)
(* that have been flushed have succeeded, those not admitted yet have no   *)
(* delivery, and each of those between is with one flow (Within).  A       *)
(* failed item is with no flow any more and is never flushed, so that the  *)
(* region is not finished.                                                 *)
(***************************************************************************)
EXTENDS GroupProofs, FunctionTheorems

-----------------------------------------------------------------------------
(* The stages of an execution *)

\* The deliveries of items, the items that were delivered, and whether what
\* follows the region was delivered.
Items(e)  == {r \in Req : jdel[e][r] # "none" /\ route[e][r][1] = ItemNode}
Given(e)  == {k \in Nat : \E r \in Items(e) : route[e][r] = <<ItemNode, k>>}
Passed(e) == \E r \in Req : jdel[e][r] # "none" /\ route[e][r][1] = NextNode

\* The deliveries that have succeeded, by their closing fact or by the success
\* that is being accepted and has no closing fact yet, and their items.
Winner(e) ==
  IF /\ pc = "closing" \/ (pc = "enter" /\ after = "closing")
     /\ cur[1] = e /\ verdict = "Success"
    THEN {dlv[e][cur[2]].req} ELSE {}
Good(e) == {r \in Items(e) : jdel[e][r] = "Success" \/ r \in Winner(e)}
Won(e)  == {k \in Nat : \E r \in Good(e) : route[e][r] = <<ItemNode, k>>}

\* What the chain has still to do for an execution, and the flows it moves.
ChainOf(e)   == IF pc = "enter" /\ cur[1] = e THEN todo ELSE <<>>
EdgeFlows(s) == {s[k].i : k \in {l \in DOMAIN s : s[l].op = "edge"}}

\* The nodes before the region: all but the one of its items and the Action that
\* follows it.
Front == {n \in Node : n # ItemNode /\ (Kind[n] = "action" => n # NextNode)}

\* One flow walks the nodes of S, or none is left.
Walks(e, S, i) ==
  /\ flow[e][i].active => flow[e][i].region = "none"
  /\ Settled(e, i) =>
       /\ flow[e][i].state \in {"READY", "PREPARED", "SENT"} /\ flow[e][i].node \in S
       /\ flow[e][i].state # "READY" => route[e][dlv[e][i].req][1] = flow[e][i].node
WalkChain(e, S) ==
  \/ ChainOf(e) \in {<<>>, <<Settle>>}
  \/ \E i \in Flow, t \in Target, o \in Outcome \cup {"none"} :
       /\ ChainOf(e) = <<Enter(i, t, o)>> /\ flow[e][i].active
       /\ t.node \in S \/ Kind[t.node] = "end"
Single(e, S) ==
  /\ each[e].region = "none"
  /\ \A i, j \in Flow : flow[e][i].active /\ flow[e][j].active => i = j
  /\ \A i \in Flow : Walks(e, S, i)
  /\ WalkChain(e, S)

\* Before the region no item is delivered; after it all have succeeded.
Before(e) == Single(e, Front) /\ Items(e) = {} /\ ~Passed(e)
AllWon(e) ==
  /\ \A k \in 0 .. each[e].count - 1 : k \in Won(e)
  /\ \A r \in Items(e) : route[e][r][2] \in 0 .. each[e].count - 1
After(e) == Single(e, Onward) /\ AllWon(e)

\* Within it every running flow has an item of its own, admitted and not flushed;
\* the item is not delivered before its flow is prepared, and has succeeded when
\* its flow waits.
Has(e, i) ==
  flow[e][i].active =>
    /\ flow[e][i].region = Region /\ flow[e][i].item \in each[e].flush .. each[e].next - 1
    /\ \A j \in Flow : flow[e][j].active /\ flow[e][j].item = flow[e][i].item => i = j
Works(e, i) ==
  Settled(e, i) =>
    \/ /\ flow[e][i].state = "READY" /\ flow[e][i].node = ItemNode
       /\ flow[e][i].item \notin Given(e)
    \/ /\ flow[e][i].state \in {"PREPARED", "SENT"} /\ flow[e][i].node = ItemNode
       /\ route[e][dlv[e][i].req] = <<ItemNode, flow[e][i].item>>
    \/ /\ flow[e][i].state = "WAITING" /\ dlv[e][i].req \in Good(e)
       /\ route[e][dlv[e][i].req] = <<ItemNode, flow[e][i].item>>
ItemChain(e) ==
  \/ ChainOf(e) \in {<<>>, <<Settle>>, <<AdmitItems>>}
  \/ ChainOf(e) = <<FinishEach>> /\ each[e].flush = each[e].count
  \/ \E i \in Flow, o \in Outcome \cup {"none"} :
       /\ ChainOf(e) = <<Enter(i, Template[Region], o), AdmitItems>>
       /\ flow[e][i].active /\ flow[e][i].item \notin Given(e)
  \/ \E i \in Flow, t \in Target, o \in Outcome \cup {"none"} :
       /\ ChainOf(e) = <<Enter(i, t, o)>> /\ flow[e][i].active
       /\ \/ Kind[t.node] = "end"
          \/ /\ Kind[t.node] = "collect" /\ dlv[e][i].req \in Good(e)
             /\ route[e][dlv[e][i].req] = <<ItemNode, flow[e][i].item>>
Counted(e) ==
  /\ each[e].region = Region
  /\ each[e].flush <= each[e].next /\ each[e].next <= each[e].count
  /\ \A k \in 0 .. each[e].flush - 1 : k \in Won(e)
  /\ \A r \in Items(e) : route[e][r][2] \in 0 .. each[e].next - 1
  /\ Cardinality(LiveFlows(e)) <= Concurrency[Region]
Within(e) ==
  /\ Counted(e) /\ ~Passed(e)
  /\ \A i \in Flow : Has(e, i) /\ Works(e, i)
  /\ ItemChain(e)

Stage(e) == Before(e) \/ Within(e) \/ After(e)

\* The round is about deliveries, and not about those of items when what follows
\* the region was delivered.
RoundPassed(e) ==
  \A i \in Flow : <<e, i>> \in round =>
    /\ jdel[e][dlv[e][i].req] # "none"
    /\ Passed(e) => route[e][dlv[e][i].req][1] # ItemNode

\* Executions do not share an Action.
OwnersApart ==
  \A e, f \in Exec : e # f => \A i, j \in Flow :
    dlv[e][i].owns /\ dlv[f][j].owns => ActionAt(e, i) # ActionAt(f, j)

\* What the journal says: only Actions are delivered, no item twice, and what
\* follows the region only when the items are complete.
ItemsOnce(e) == \A r, q \in Items(e) : route[e][r] = route[e][q] => r = q
Complete(e) ==
  Passed(e) =>
    /\ \A r \in Items(e) : jdel[e][r] = "Success"
    /\ e \in used => /\ \A k \in 0 .. each[e].count - 1 : k \in Given(e)
                     /\ \A r \in Items(e) : route[e][r][2] \in 0 .. each[e].count - 1
EJournal ==
  /\ route \in [Exec -> [Req -> Node \X Nat]]
  /\ \A e \in Exec : ItemsOnce(e) /\ Complete(e)

\* An execution without an arena has no region.
Unstarted == \A e \in Exec : e \notin used => each[e].region = "none"

\* The inductive invariant, next to IInv and Unstarted.
EInv ==
  /\ EJournal
  /\ pc # "ended" => OwnersApart /\ \A e \in used : Stage(e) /\ RoundPassed(e)

-----------------------------------------------------------------------------
(* The graph *)

\* The region, its items and what follows it.
LEMMA RegionFacts ==
  ASSUME OneRegion
  PROVE  /\ Region \in Node /\ Kind[Region] = "each" /\ \A n \in Node : Kind[n] = "each" => n = Region
         /\ Template[Region] \in Target /\ Collected[Region] \in Target
         /\ ItemNode \in Node /\ NextNode \in Node /\ NextNode \in Onward /\ ItemNode # NextNode
         /\ Concurrency[Region] \in Nat \ {0} /\ Bound[Region] \in Nat
         /\ OnSuccess[ItemNode] \in Target /\ OnAppError[ItemNode] \in Target
         /\ Input \in Target /\ Input.node \in Front
  <1>1. Region \in Node /\ Kind[Region] = "each"
    BY DEF OneRegion, Region
  <1>2. \A n \in Node : Kind[n] = "each" => n = Region
    BY <1>1 DEF OneRegion
  <1>3. /\ Template[Region] \in Target /\ Collected[Region] \in Target
        /\ Concurrency[Region] \in Flow /\ Bound[Region] \in Nat
    BY <1>1, GroupAssumption
  <1>4. ItemNode \in Node /\ NextNode \in Node
    BY <1>3 DEF ItemNode, NextNode, Target
  <1>5. NextNode \in Onward /\ ItemNode # NextNode
    BY <1>4 DEF Onward, OnwardSet, OneRegion
  <1>6. Kind[ItemNode] = "action"
    BY DEF OneRegion
  <1>7. OnSuccess[ItemNode] \in Target /\ OnAppError[ItemNode] \in Target
    BY <1>4, <1>6, GroupAssumption
  <1>8. Input \in Target /\ Input.node \in Node
    BY GroupAssumption DEF Target
  <1>9. Input.node # ItemNode /\ (Kind[NextNode] = "action" => Input.node # NextNode)
    BY DEF OneRegion
  <1>10. Input.node \in Front
    BY <1>8, <1>9 DEF Front
  <1>11. Concurrency[Region] \in Nat \ {0}
    BY <1>3, GroupAssumption DEF Flow
  <1>12. QED
    BY <1>1, <1>2, <1>3, <1>4, <1>5, <1>7, <1>8, <1>10, <1>11

\* A set of nodes that no exit leaves.
Kept(S) == S \subseteq Node /\ \A n \in S : \A t \in Exits(n) : t \in Target => t.node \in S

\* The nodes before the region and those after it are such sets.
LEMMA FrontKept ==
  ASSUME OneRegion PROVE Kept(Front)
  <1> SUFFICES ASSUME NEW n \in Node, NEW t \in Exits(n), t \in Target PROVE t.node \in Front
    BY DEF Kept, Front
  <1>1. t \in UNION {Exits(m) : m \in Node}
    OBVIOUS
  <1>2. t.node # ItemNode /\ (Kind[NextNode] = "action" => t.node # NextNode)
    BY <1>1 DEF OneRegion
  <1>3. QED
    BY <1>2 DEF Front, Target

LEMMA OnwardKept ==
  Kept(Onward)
  <1> SUFFICES ASSUME NEW n \in Onward, NEW t \in Exits(n), t \in Target PROVE t.node \in Onward
    BY DEF Kept, Onward
  <1>1. ASSUME NEW Q \in SUBSET Node, OnwardSet(Q) PROVE t.node \in Q
    <2>1. n \in Q
      BY <1>1 DEF Onward
    <2>2. QED
      BY <1>1, <2>1 DEF OnwardSet
  <1>2. QED
    BY <1>1 DEF Onward, Target

\* The exits of an Action and of a Dispatch.
LEMMA ActionExits ==
  ASSUME NEW n \in Node, Kind[n] = "action", NEW o
  PROVE  ResultEdge(n, o) \in Exits(n) /\ ResultEdge(n, o) \in Target
  <1>1. Exits(n) = {OnSuccess[n], OnAppError[n]}
    BY DEF Exits
  <1>2. QED
    BY <1>1, GroupAssumption DEF ResultEdge

LEMMA CaseExits ==
  ASSUME NEW n \in Node, Kind[n] = "dispatch", NEW k \in 1 .. Len(Case[n])
  PROVE  Case[n][k] \in Exits(n) /\ Case[n][k] \in Target
  <1>1. Exits(n) = {Case[n][l] : l \in 1 .. Len(Case[n])}
    BY DEF Exits
  <1>2. Case[n] \in Seq(Target)
    BY GroupAssumption
  <1>3. QED
    BY <1>1, <1>2

-----------------------------------------------------------------------------
(* The chain *)

\* The flows that the chains of this graph move.
LEMMA ChainShapes ==
  /\ EdgeFlows(<<>>) = {} /\ EdgeFlows(<<Settle>>) = {} /\ EdgeFlows(<<AdmitItems>>) = {}
  /\ EdgeFlows(<<FinishEach>>) = {}
  /\ \A i, t, o : /\ EdgeFlows(<<Enter(i, t, o)>>) = {i}
                  /\ EdgeFlows(<<Enter(i, t, o), AdmitItems>>) = {i}
  <1>1. ASSUME NEW s \in {<<Settle>>, <<AdmitItems>>, <<FinishEach>>} PROVE EdgeFlows(s) = {}
    <2>1. DOMAIN s = {1} /\ s[1].op # "edge"
      BY DEF Settle, AdmitItems, FinishEach
    <2>2. QED
      BY <2>1 DEF EdgeFlows
  <1>2. ASSUME NEW i, NEW t, NEW o PROVE EdgeFlows(<<Enter(i, t, o)>>) = {i}
    <2> DEFINE s == <<Enter(i, t, o)>>
    <2>1. DOMAIN s = {1} /\ s[1].op = "edge" /\ s[1].i = i
      BY DEF Enter
    <2> HIDE DEF s
    <2>2. EdgeFlows(s) = {i}
      BY <2>1 DEF EdgeFlows
    <2>3. QED
      BY <2>2 DEF s
  <1>3. ASSUME NEW i, NEW t, NEW o PROVE EdgeFlows(<<Enter(i, t, o), AdmitItems>>) = {i}
    <2> DEFINE s == <<Enter(i, t, o), AdmitItems>>
    <2>1. DOMAIN s = {1, 2} /\ s[1].op = "edge" /\ s[1].i = i /\ s[2].op # "edge"
      BY DEF Enter, AdmitItems
    <2> HIDE DEF s
    <2>2. EdgeFlows(s) = {i}
      BY <2>1 DEF EdgeFlows
    <2>3. QED
      BY <2>2 DEF s
  <1>4. EdgeFlows(<<>>) = {}
    BY DEF EdgeFlows
  <1>5. QED
    BY <1>1, <1>2, <1>3, <1>4

\* The busy flows of an execution are those that its chain moves.
LEMMA BusyChain ==
  ASSUME Control, NEW e PROVE Busy(e) = EdgeFlows(ChainOf(e))
  <1>1. pc # "enter" => todo = <<>>
    BY DEF Control
  <1>2. ChainOf(e) = IF e = cur[1] THEN todo ELSE <<>>
    BY <1>1 DEF ChainOf
  <1>3. QED
    BY <1>2, ChainShapes DEF Busy, EdgesLeft, EdgeFlows

LEMMA BusyChainNext ==
  ASSUME Control', NEW e PROVE Busy(e)' = EdgeFlows(ChainOf(e)')
  <1>1. pc' # "enter" => todo' = <<>>
    BY DEF Control
  <1>2. ChainOf(e)' = IF e = cur'[1] THEN todo' ELSE <<>>
    BY <1>1 DEF ChainOf
  <1>3. QED
    BY <1>2, ChainShapes DEF Busy, EdgesLeft, EdgeFlows

\* A step of the chain leaves the deliveries alone, and goes on with its steps.
LEMMA ChainEffect ==
  ASSUME IInv, pc = "enter", NEW e, e = cur[1], NEW steps, GoOn(steps), UNCHANGED restOfEnter
  PROVE  /\ e \in used /\ e \in Exec /\ pc' # "ended"
         /\ cur' = cur /\ UNCHANGED <<jdel, route, dlv, used, round>>
         /\ ChainOf(e) = todo /\ ChainOf(e)' = steps \o Tail(todo)
         /\ \A f \in Exec : f # e => ChainOf(f) = <<>> /\ ChainOf(f)' = <<>>
         /\ \A f \in Exec : /\ Items(f)' = Items(f) /\ Given(f)' = Given(f) /\ Good(f)' = Good(f)
                            /\ Won(f)' = Won(f) /\ Passed(f)' = Passed(f)
  <1>1. e \in used /\ e \in Exec
    BY DEF IInv, Control, ArenaType
  <1>2. after \in {"idle", "started", "closing", "finish"}
    BY DEF IInv, LoopType
  <1>3. /\ cur' = cur /\ after' = after /\ verdict' = verdict /\ UNCHANGED <<jdel, route, dlv, used, round>>
        /\ todo' = steps \o Tail(todo) /\ pc' = IF steps \o Tail(todo) = <<>> THEN after ELSE "enter"
    BY DEF GoOn, restOfEnter, journalVars
  <1>4. pc' = "enter" \/ pc' = after
    BY <1>3
  <1>5. \A f : ChainOf(f) = IF cur[1] = f THEN todo ELSE <<>>
    BY DEF ChainOf
  <1>6. \A f : ChainOf(f)' = IF cur[1] = f THEN steps \o Tail(todo) ELSE <<>>
    <2>1. pc' # "enter" => steps \o Tail(todo) = <<>>
      BY <1>3
    <2>2. QED
      BY <1>3, <2>1 DEF ChainOf
  <1>7. \A f : Winner(f)' = Winner(f)
    BY <1>2, <1>3, <1>4 DEF Winner
  <1>8. \A f : Items(f)' = Items(f) /\ Passed(f)' = Passed(f)
    BY <1>3 DEF Items, Passed
  <1>9. \A f : Given(f)' = Given(f) /\ Good(f)' = Good(f)
    BY <1>3, <1>7, <1>8 DEF Given, Good
  <1>10. \A f : Won(f)' = Won(f)
    BY <1>3, <1>9 DEF Won
  <1>11. QED
    BY <1>1, <1>2, <1>3, <1>4, <1>5, <1>6, <1>8, <1>9, <1>10

\* The stage of an execution depends on its flows, its region, its chain and its
\* deliveries, and deliveries that succeed do no harm.
LEMMA StageFrame ==
  ASSUME Control, Control', NEW e \in Exec, Stage(e),
         flow'[e] = flow[e], each'[e] = each[e], route'[e] = route[e],
         \A i \in Flow : dlv'[e][i].req = dlv[e][i].req,
         ChainOf(e)' = ChainOf(e),
         \A r \in Req : jdel'[e][r] = "none" <=> jdel[e][r] = "none",
         Good(e) \subseteq Good(e)'
  PROVE  Stage(e)'
  <1>1. Busy(e)' = Busy(e)
    BY BusyChain, BusyChainNext
  <1>2. Items(e)' = Items(e) /\ Passed(e)' = Passed(e)
    BY DEF Items, Passed
  <1>3. Given(e)' = Given(e) /\ Won(e) \subseteq Won(e)'
    BY <1>2 DEF Given, Won
  <1>4. \A i : Settled(e, i)' <=> Settled(e, i)
    BY <1>1 DEF Settled
  <1>5. ASSUME NEW S, Single(e, S) PROVE Single(e, S)'
    BY <1>4, <1>5 DEF Single, Walks, WalkChain
  <1>6. Before(e) => Before(e)'
    BY <1>2, <1>5 DEF Before
  <1>7. After(e) => After(e)'
    BY <1>2, <1>3, <1>5 DEF After, AllWon
  <1>8. Within(e) => Within(e)'
    <2> SUFFICES ASSUME Within(e) PROVE Within(e)'
      OBVIOUS
    <2>1. LiveFlows(e)' = LiveFlows(e)
      BY DEF LiveFlows
    <2>2. Counted(e)' /\ ~Passed(e)'
      BY <1>2, <1>3, <2>1 DEF Within, Counted
    <2>3. ASSUME NEW i \in Flow PROVE (Has(e, i) /\ Works(e, i))'
      <3>1. /\ flow'[e][i] = flow[e][i] /\ dlv'[e][i].req = dlv[e][i].req
            /\ route'[e][dlv'[e][i].req] = route[e][dlv[e][i].req]
        OBVIOUS
      <3>2. Has(e, i)'
        BY DEF Within, Has
      <3>3. Works(e, i)
        BY DEF Within
      <3>4. Settled(e, i)' <=> Settled(e, i)
        BY <1>4
      <3> HIDE DEF Within
      <3>5. Works(e, i)'
        BY <1>3, <3>1, <3>3, <3>4 DEF Works
      <3>6. QED
        BY <3>2, <3>5
    <2>4. ItemChain(e)'
      <3> DEFINE ch == ChainOf(e)
      <3>1. ItemChain(e)
        BY DEF Within
      <3>2. ChainOf(e)' = ch /\ each'[e] = each[e]
        OBVIOUS
      <3>3. \A i \in Flow : flow'[e][i] = flow[e][i]
                /\ (dlv[e][i].req \in Good(e) => dlv'[e][i].req \in Good(e)')
                /\ route'[e][dlv'[e][i].req] = route[e][dlv[e][i].req]
        OBVIOUS
      <3>4. CASE ch \in {<<>>, <<Settle>>, <<AdmitItems>>} \/ (ch = <<FinishEach>> /\ each[e].flush = each[e].count)
        BY <3>2, <3>4 DEF ItemChain
      <3>5. CASE \E i \in Flow, o \in Outcome \cup {"none"} :
                   /\ ch = <<Enter(i, Template[Region], o), AdmitItems>>
                   /\ flow[e][i].active /\ flow[e][i].item \notin Given(e)
        BY <1>3, <3>2, <3>3, <3>5 DEF ItemChain
      <3>6. CASE \E i \in Flow, t \in Target, o \in Outcome \cup {"none"} :
                   /\ ch = <<Enter(i, t, o)>> /\ flow[e][i].active
                   /\ \/ Kind[t.node] = "end"
                      \/ /\ Kind[t.node] = "collect" /\ dlv[e][i].req \in Good(e)
                         /\ route[e][dlv[e][i].req] = <<ItemNode, flow[e][i].item>>
        <4> HIDE DEF ch
        <4>1. PICK i \in Flow, t \in Target, o \in Outcome \cup {"none"} :
                   /\ ch = <<Enter(i, t, o)>> /\ flow[e][i].active
                   /\ \/ Kind[t.node] = "end"
                      \/ /\ Kind[t.node] = "collect" /\ dlv[e][i].req \in Good(e)
                         /\ route[e][dlv[e][i].req] = <<ItemNode, flow[e][i].item>>
          BY <3>6
        <4>2. /\ ChainOf(e)' = <<Enter(i, t, o)>> /\ flow'[e][i].active
              /\ \/ Kind[t.node] = "end"
                 \/ /\ Kind[t.node] = "collect" /\ dlv'[e][i].req \in Good(e)'
                    /\ route'[e][dlv'[e][i].req] = <<ItemNode, flow'[e][i].item>>
          BY <3>2, <3>3, <4>1
        <4>3. QED
          BY <4>2 DEF ItemChain
      <3>7. QED
        BY <3>1, <3>4, <3>5, <3>6 DEF ItemChain
    <2>5. QED
      BY <2>2, <2>3, <2>4 DEF Within
  <1>9. QED
    BY <1>6, <1>7, <1>8 DEF Stage

-----------------------------------------------------------------------------
(* The steps of the chain *)

\* The first steps of short chains.
LEMMA ShortChains ==
  \A s, u : /\ Head(<<s>>) = s /\ Tail(<<s>>) = <<>> /\ <<s>> # <<>>
            /\ Head(<<s, u>>) = s /\ Tail(<<s, u>>) = <<u>> /\ <<s, u>> # <<>>
            /\ <<>> \o <<>> = <<>> /\ <<s>> \o <<>> = <<s>> /\ <<>> \o <<s>> = <<s>>
            /\ <<s, u>> \o <<>> = <<s, u>>
  OBVIOUS

\* The parts of an edge, and the other steps are no edges.
LEMMA StepParts ==
  /\ \A i, t, o : LET s == Enter(i, t, o) IN s.op = "edge" /\ s.i = i /\ s.to = t /\ s.o = o
  /\ Settle.op = "settle" /\ AdmitItems.op = "admit" /\ FinishEach.op = "collected"
  BY DEF Enter, Settle, AdmitItems, FinishEach

\* What the chain does next while one flow walks ...
LEMMA WalkHead ==
  ASSUME IInv, pc = "enter", NEW S, Single(cur[1], S)
  PROVE  \/ todo = <<Settle>> /\ Head(todo).op = "settle" /\ Tail(todo) = <<>>
         \/ \E i \in Flow, t \in Target, o \in Outcome \cup {"none"} :
              /\ todo = <<Enter(i, t, o)>> /\ flow[cur[1]][i].active
              /\ Head(todo).op = "edge" /\ Head(todo).i = i /\ Head(todo).to = t /\ Head(todo).o = o
              /\ Tail(todo) = <<>> /\ Busy(cur[1]) = {i}
              /\ t.node \in S \/ Kind[t.node] = "end"
  <1>1. ChainOf(cur[1]) = todo /\ todo # <<>>
    BY ChainHead DEF ChainOf
  <1>2. CASE todo = <<Settle>>
    BY <1>2, ShortChains, StepParts
  <1>3. CASE \E i \in Flow, t \in Target, o \in Outcome \cup {"none"} :
               /\ todo = <<Enter(i, t, o)>> /\ flow[cur[1]][i].active
               /\ t.node \in S \/ Kind[t.node] = "end"
    <2>1. PICK i \in Flow, t \in Target, o \in Outcome \cup {"none"} :
               /\ todo = <<Enter(i, t, o)>> /\ flow[cur[1]][i].active
               /\ t.node \in S \/ Kind[t.node] = "end"
      BY <1>3
    <2>2. /\ Head(todo).op = "edge" /\ Head(todo).i = i /\ Head(todo).to = t /\ Head(todo).o = o
          /\ Tail(todo) = <<>>
      BY <2>1, ShortChains, StepParts
    <2>3. Busy(cur[1]) = {i}
      BY <1>1, <2>1, BusyChain, ChainShapes DEF IInv
    <2>4. QED
      BY <2>1, <2>2, <2>3
  <1>4. QED
    BY <1>1, <1>2, <1>3 DEF Single, WalkChain

\* ... and while items run.
LEMMA ItemHead ==
  ASSUME OneRegion, IInv, pc = "enter", Within(cur[1])
  PROVE  LET e == cur[1] IN
         \/ todo = <<Settle>> /\ Head(todo).op = "settle" /\ Tail(todo) = <<>> /\ Busy(e) = {}
         \/ todo = <<AdmitItems>> /\ Head(todo).op = "admit" /\ Tail(todo) = <<>> /\ Busy(e) = {}
         \/ /\ todo = <<FinishEach>> /\ Head(todo).op = "collected" /\ Tail(todo) = <<>>
            /\ each[e].flush = each[e].count
         \/ \E i \in Flow, t \in Target, o \in Outcome \cup {"none"} :
              /\ flow[e][i].active /\ Busy(e) = {i}
              /\ Head(todo).op = "edge" /\ Head(todo).i = i /\ Head(todo).to = t /\ Head(todo).o = o
              /\ \/ /\ Tail(todo) = <<AdmitItems>> /\ t.node = ItemNode /\ Kind[t.node] = "action"
                    /\ flow[e][i].item \notin Given(e)
                 \/ Tail(todo) = <<>> /\ Kind[t.node] = "end"
                 \/ /\ Tail(todo) = <<>> /\ Kind[t.node] = "collect" /\ dlv[e][i].req \in Good(e)
                    /\ route[e][dlv[e][i].req] = <<ItemNode, flow[e][i].item>>
  <1> DEFINE e == cur[1]
  <1>1. ChainOf(e) = todo /\ todo # <<>>
    BY ChainHead DEF ChainOf
  <1>2. ItemChain(e)
    BY DEF Within
  <1>3. Busy(e) = EdgeFlows(todo)
    BY <1>1, BusyChain DEF IInv
  <1>4. CASE todo = <<Settle>>
    BY <1>3, <1>4, ShortChains, StepParts, ChainShapes
  <1>5. CASE todo = <<AdmitItems>>
    BY <1>3, <1>5, ShortChains, StepParts, ChainShapes
  <1>6. CASE todo = <<FinishEach>> /\ each[e].flush = each[e].count
    BY <1>6, ShortChains, StepParts
  <1>7. CASE \E i \in Flow, o \in Outcome \cup {"none"} :
               /\ todo = <<Enter(i, Template[Region], o), AdmitItems>>
               /\ flow[e][i].active /\ flow[e][i].item \notin Given(e)
    <2>1. PICK i \in Flow, o \in Outcome \cup {"none"} :
               /\ todo = <<Enter(i, Template[Region], o), AdmitItems>>
               /\ flow[e][i].active /\ flow[e][i].item \notin Given(e)
      BY <1>7
    <2> DEFINE t == Template[Region]
    <2>2. /\ Head(todo).op = "edge" /\ Head(todo).i = i /\ Head(todo).to = t /\ Head(todo).o = o
          /\ Tail(todo) = <<AdmitItems>>
      BY <2>1, ShortChains, StepParts
    <2>3. Busy(e) = {i}
      BY <1>3, <2>1, ChainShapes
    <2>4. t \in Target /\ t.node = ItemNode /\ Kind[t.node] = "action"
      BY RegionFacts DEF ItemNode, OneRegion
    <2> HIDE DEF t
    <2>5. QED
      BY <2>1, <2>2, <2>3, <2>4
  <1>8. CASE \E i \in Flow, t \in Target, o \in Outcome \cup {"none"} :
               /\ todo = <<Enter(i, t, o)>> /\ flow[e][i].active
               /\ \/ Kind[t.node] = "end"
                  \/ /\ Kind[t.node] = "collect" /\ dlv[e][i].req \in Good(e)
                     /\ route[e][dlv[e][i].req] = <<ItemNode, flow[e][i].item>>
    <2>1. PICK i \in Flow, t \in Target, o \in Outcome \cup {"none"} :
               /\ todo = <<Enter(i, t, o)>> /\ flow[e][i].active
               /\ \/ Kind[t.node] = "end"
                  \/ /\ Kind[t.node] = "collect" /\ dlv[e][i].req \in Good(e)
                     /\ route[e][dlv[e][i].req] = <<ItemNode, flow[e][i].item>>
      BY <1>8
    <2>2. /\ Head(todo).op = "edge" /\ Head(todo).i = i /\ Head(todo).to = t /\ Head(todo).o = o
          /\ Tail(todo) = <<>>
      BY <2>1, ShortChains, StepParts
    <2>3. Busy(e) = {i}
      BY <1>3, <2>1, ChainShapes
    <2>4. QED
      BY <2>1, <2>2, <2>3
  <1>9. QED
    BY <1>1, <1>2, <1>4, <1>5, <1>6, <1>7, <1>8 DEF ItemChain

\* The kinds of edges that the chain can meet in each stage.
LEMMA WalkMeets ==
  ASSUME IInv, pc = "enter", NEW S, Single(cur[1], S), NEW kind, Entering(kind)
  PROVE  \E i \in Flow, t \in Target, o \in Outcome \cup {"none"} :
           /\ Head(todo).i = i /\ Head(todo).to = t /\ Head(todo).o = o /\ Kind[t.node] = kind
           /\ flow[cur[1]][i].active /\ Tail(todo) = <<>> /\ Busy(cur[1]) = {i}
           /\ kind # "end" => t.node \in S
  BY WalkHead DEF Entering

LEMMA ItemMeets ==
  ASSUME OneRegion, IInv, pc = "enter", Within(cur[1]), NEW kind, Entering(kind)
  PROVE  LET e == cur[1] IN
         \E i \in Flow, t \in Target, o \in Outcome \cup {"none"} :
           /\ Head(todo).i = i /\ Head(todo).to = t /\ Head(todo).o = o /\ Kind[t.node] = kind
           /\ flow[e][i].active /\ Busy(e) = {i}
           /\ kind \in {"action", "end", "collect"}
           /\ kind = "action" => /\ Tail(todo) = <<AdmitItems>> /\ t.node = ItemNode
                                 /\ flow[e][i].item \notin Given(e)
           /\ kind # "action" => Tail(todo) = <<>>
           /\ kind = "collect" => /\ dlv[e][i].req \in Good(e)
                                  /\ route[e][dlv[e][i].req] = <<ItemNode, flow[e][i].item>>
  <1> DEFINE e == cur[1]
  <1>1. Head(todo).op = "edge" /\ Kind[Head(todo).to.node] = kind
    BY DEF Entering
  <1>2. PICK i \in Flow, t \in Target, o \in Outcome \cup {"none"} :
              /\ flow[e][i].active /\ Busy(e) = {i}
              /\ Head(todo).op = "edge" /\ Head(todo).i = i /\ Head(todo).to = t /\ Head(todo).o = o
              /\ \/ /\ Tail(todo) = <<AdmitItems>> /\ t.node = ItemNode /\ Kind[t.node] = "action"
                    /\ flow[e][i].item \notin Given(e)
                 \/ Tail(todo) = <<>> /\ Kind[t.node] = "end"
                 \/ /\ Tail(todo) = <<>> /\ Kind[t.node] = "collect" /\ dlv[e][i].req \in Good(e)
                    /\ route[e][dlv[e][i].req] = <<ItemNode, flow[e][i].item>>
    BY <1>1, ItemHead
  <1>3. Kind[t.node] = kind
    BY <1>1, <1>2
  <1>4. QED
    BY <1>2, <1>3

\* One flow that goes on with its walk: it has arrived or ended ...
LEMMA WalkRests ==
  ASSUME IInv, IInv', pc = "enter", NEW e, e = cur[1], NEW S, NEW steps, GoOn(steps),
         UNCHANGED restOfEnter, Tail(todo) = <<>>, steps \in {<<>>, <<Settle>>}, NEW i \in Flow,
         each'[e].region = "none",
         \A j \in Flow : flow'[e][j].active =>
           /\ j = i /\ flow'[e][j].region = "none"
           /\ flow'[e][j].state = "READY" /\ flow'[e][j].node \in S
  PROVE  Single(e, S)'
  <1>1. /\ e \in Exec /\ cur' = cur /\ ChainOf(e)' = steps \o <<>>
    BY ChainEffect
  <1>2. ChainOf(e)' = steps
    BY <1>1, ShortChains
  <1>3. WalkChain(e, S)'
    BY <1>2 DEF WalkChain
  <1>4. ASSUME NEW j \in Flow PROVE Walks(e, S, j)'
    BY DEF Walks, Settled
  <1>5. QED
    BY <1>1, <1>3, <1>4 DEF Single

\* ... or another edge waits for it.
LEMMA WalkMoves ==
  ASSUME IInv, IInv', pc = "enter", NEW e, e = cur[1], NEW S,
         NEW i \in Flow, NEW t \in Target, NEW o \in Outcome \cup {"none"},
         GoOn(<<Enter(i, t, o)>>), t.node \in S \/ Kind[t.node] = "end",
         UNCHANGED restOfEnter, Tail(todo) = <<>>, each'[e].region = "none",
         flow'[e][i].active,
         \A j \in Flow : flow'[e][j].active => j = i /\ flow'[e][j].region = "none"
  PROVE  Single(e, S)'
  <1> DEFINE steps == <<Enter(i, t, o)>>
  <1> HIDE DEF steps
  <1>0. GoOn(steps)
    BY DEF steps
  <1>1. /\ e \in Exec /\ cur' = cur /\ ChainOf(e)' = steps \o <<>>
    BY <1>0, ChainEffect
  <1>2. ChainOf(e)' = <<Enter(i, t, o)>>
    BY <1>1, ShortChains DEF steps
  <1>3. Busy(e)' = {i}
    BY <1>2, BusyChainNext, ChainShapes DEF IInv
  <1>4. WalkChain(e, S)'
    BY <1>2 DEF WalkChain
  <1>5. ASSUME NEW j \in Flow PROVE Walks(e, S, j)'
    BY <1>3 DEF Walks, Settled
  <1>6. QED
    BY <1>1, <1>4, <1>5 DEF Single

\* A walk within the nodes before the region or after it keeps the stage.
LEMMA WalkKeepsStage ==
  ASSUME IInv, pc = "enter", NEW e, e = cur[1], NEW steps, GoOn(steps), UNCHANGED restOfEnter,
         each'[e].count = each[e].count,
         Before(e) => Single(e, Front)',
         After(e) => Single(e, Onward)',
         Within(e) => Stage(e)',
         Stage(e)
  PROVE  Stage(e)'
  <1>1. /\ e \in Exec /\ cur' = cur /\ Items(e)' = Items(e) /\ Won(e)' = Won(e) /\ Passed(e)' = Passed(e)
        /\ route' = route
    BY ChainEffect
  <1>2. CASE Before(e)
    BY <1>1, <1>2 DEF Before, Stage
  <1>3. CASE After(e)
    <2>1. AllWon(e)'
      BY <1>1, <1>3 DEF After, AllWon
    <2>2. QED
      BY <1>1, <1>3, <2>1 DEF After, Stage
  <1>4. QED
    BY <1>2, <1>3 DEF Stage

\* The flows of a region after a step of the chain that leaves counters and
\* deliveries alone.
LEMMA ItemsGoOn ==
  ASSUME OneRegion, IInv, IInv', pc = "enter", NEW e, e = cur[1], NEW steps, GoOn(steps), UNCHANGED restOfEnter,
         Within(e), each'[e] = each[e],
         \A j \in Flow : flow'[e][j].active =>
           /\ flow[e][j].active /\ flow'[e][j].item = flow[e][j].item
           /\ flow'[e][j].region = flow[e][j].region,
         \A j \in Flow : Works(e, j)',
         ItemChain(e)'
  PROVE  Stage(e)'
  <1>1. /\ e \in Exec /\ cur' = cur /\ Items(e)' = Items(e) /\ Won(e)' = Won(e) /\ Passed(e)' = Passed(e)
        /\ route' = route
    BY ChainEffect
  <1>2. \A j \in Flow : Has(e, j)'
    BY <1>1 DEF Within, Has
  <1>3. Cardinality(LiveFlows(e)') <= Cardinality(LiveFlows(e))
    <2>1. LiveFlows(e)' \subseteq LiveFlows(e) /\ LiveFlows(e) \subseteq Flow
      BY <1>1 DEF LiveFlows
    <2>2. IsFiniteSet(Flow)
      BY FS_Interval, GroupAssumption DEF Flow
    <2>3. IsFiniteSet(LiveFlows(e))
      BY <2>1, <2>2, FS_Subset
    <2>4. QED
      BY <2>1, <2>3, FS_Subset
  <1>4. Cardinality(LiveFlows(e)') <= Concurrency[Region]
    <2>1. IsFiniteSet(LiveFlows(e)) /\ IsFiniteSet(LiveFlows(e)')
      <3>1. IsFiniteSet(Flow)
        BY FS_Interval, GroupAssumption DEF Flow
      <3>2. LiveFlows(e)' \subseteq Flow /\ LiveFlows(e) \subseteq Flow
        BY DEF LiveFlows
      <3>3. QED
        BY <3>1, <3>2, FS_Subset
    <2>2. Cardinality(LiveFlows(e)) \in Nat /\ Cardinality(LiveFlows(e)') \in Nat
      BY <2>1, FS_CardinalityType
    <2>3. Cardinality(LiveFlows(e)) <= Concurrency[Region]
      BY DEF Within, Counted
    <2>4. Concurrency[Region] \in Nat
      BY RegionFacts
    <2>5. QED
      BY <1>3, <2>2, <2>3, <2>4
  <1>5. Counted(e)' /\ ~Passed(e)'
    BY <1>1, <1>4 DEF Within, Counted
  <1>6. QED
    BY <1>1, <1>2, <1>5 DEF Within, Stage

\* A flow that the chain does not touch works on.
LEMMA WorksOn ==
  ASSUME NEW e \in Exec, NEW j \in Flow, flow'[e][j] = flow[e][j], j \notin Busy(e), Works(e, j),
         Given(e)' = Given(e), Good(e) \subseteq Good(e)', route'[e] = route[e],
         dlv'[e][j].req = dlv[e][j].req
  PROVE  Works(e, j)'
  <1>1. Settled(e, j)' => Settled(e, j)
    BY DEF Settled
  <1>2. route'[e][dlv'[e][j].req] = route[e][dlv[e][j].req]
    OBVIOUS
  <1>3. QED
    BY <1>1, <1>2 DEF Works

\* An edge into an Action: the walk goes on there, or an item is ready.
LEMMA StageEnterAction ==
  ASSUME OneRegion, IInv, IInv', NEW e, e = cur[1], Stage(e), EnterAction PROVE Stage(e)'
  <1>1. /\ pc = "enter" /\ Entering("action") /\ GoOn(<<>>) /\ UNCHANGED restOfEnter /\ each' = each
        /\ flow' = [flow EXCEPT ![cur[1]][Head(todo).i] =
                      [@ EXCEPT !.node = Head(todo).to.node, !.state = "READY", !.active = TRUE]]
    BY DEF EnterAction, Entering
  <1>2. /\ e \in Exec /\ flow \in [Exec -> [Flow -> FlowRecord]] /\ flow' \in [Exec -> [Flow -> FlowRecord]]
    BY <1>1, ChainEffect DEF IInv, ArenaType
  <1>3. ASSUME NEW i \in Flow, NEW t \in Target, Head(todo).i = i, Head(todo).to = t
        PROVE  /\ \A j \in Flow : j # i => flow'[e][j] = flow[e][j]
               /\ flow'[e][i] = [flow[e][i] EXCEPT !.node = t.node, !.state = "READY", !.active = TRUE]
    BY <1>1, <1>2, <1>3
  <1>4. ASSUME NEW i \in Flow, NEW t \in Target, Head(todo).i = i, Head(todo).to = t
        PROVE  /\ flow'[e][i].active /\ flow'[e][i].state = "READY" /\ flow'[e][i].node = t.node
               /\ flow'[e][i].region = flow[e][i].region /\ flow'[e][i].item = flow[e][i].item
    <2>1. flow[e][i] \in FlowRecord
      BY <1>2
    <2>2. flow'[e][i] = [flow[e][i] EXCEPT !.node = t.node, !.state = "READY", !.active = TRUE]
      BY <1>3, <1>4
    <2>3. QED
      BY <2>1, <2>2 DEF FlowRecord
  <1>5. ASSUME NEW S, Single(e, S) PROVE Single(e, S)'
    <2>1. PICK i \in Flow, t \in Target, o \in Outcome \cup {"none"} :
            /\ Head(todo).i = i /\ Head(todo).to = t /\ t.node \in S
            /\ flow[e][i].active /\ Tail(todo) = <<>>
      BY <1>1, <1>5, WalkMeets
    <2>2. \A j \in Flow : flow'[e][j].active => j = i
      BY <1>3, <1>5, <2>1 DEF Single
    <2>3. flow'[e][i].region = "none" /\ flow'[e][i].state = "READY" /\ flow'[e][i].node \in S
      BY <1>4, <1>5, <2>1 DEF Single, Walks
    <2>4. each'[e].region = "none"
      BY <1>1, <1>5 DEF Single
    <2>5. QED
      BY <1>1, <2>1, <2>2, <2>3, <2>4, WalkRests
  <1>6. ASSUME Within(e) PROVE Stage(e)'
    <2>1. PICK i \in Flow, t \in Target, o \in Outcome \cup {"none"} :
            /\ Head(todo).i = i /\ Head(todo).to = t /\ flow[e][i].active /\ Busy(e) = {i}
            /\ Tail(todo) = <<AdmitItems>> /\ t.node = ItemNode /\ flow[e][i].item \notin Given(e)
      BY <1>1, <1>6, ItemMeets
    <2>2. /\ ChainOf(e)' = <<AdmitItems>> /\ Given(e)' = Given(e) /\ Good(e)' = Good(e)
          /\ route' = route /\ dlv' = dlv
      <3>1. /\ ChainOf(e)' = <<>> \o Tail(todo) /\ Given(e)' = Given(e) /\ Good(e)' = Good(e)
            /\ route' = route /\ dlv' = dlv
        BY <1>1, <1>2, ChainEffect
      <3>2. QED
        BY <2>1, <3>1, ShortChains
    <2>3. ItemChain(e)'
      BY <2>2 DEF ItemChain
    <2>4. ASSUME NEW j \in Flow PROVE Works(e, j)'
      <3>1. CASE j = i
        BY <1>4, <2>1, <2>2, <3>1 DEF Works
      <3>2. CASE j # i
        BY <1>2, <1>3, <1>6, <2>1, <2>2, <3>2, WorksOn DEF Within
      <3>3. QED
        BY <3>1, <3>2
    <2>5. \A j \in Flow : flow'[e][j].active => flow[e][j].active /\ flow'[e][j].item = flow[e][j].item
                                                /\ flow'[e][j].region = flow[e][j].region
      BY <1>3, <1>4, <2>1
    <2>6. QED
      BY <1>1, <1>2, <1>6, <2>3, <2>4, <2>5, ItemsGoOn
  <1>7. QED
    BY <1>1, <1>5, <1>6, WalkKeepsStage DEF Before, After

\* An edge into a Dispatch: the walk goes on along one of its cases.
LEMMA StageEnterDispatch ==
  ASSUME OneRegion, IInv, IInv', NEW e, e = cur[1], Stage(e), EnterDispatch PROVE Stage(e)'
  <1>1. /\ pc = "enter" /\ Entering("dispatch") /\ UNCHANGED restOfEnter /\ each' = each
        /\ flow' = [flow EXCEPT ![cur[1]][Head(todo).i].node = Head(todo).to.node]
    BY DEF EnterDispatch, Entering
  <1>2. PICK k \in 1 .. Len(Case[Head(todo).to.node]) :
          GoOn(<<Enter(Head(todo).i, Case[Head(todo).to.node][k], Head(todo).o)>>)
    BY DEF EnterDispatch
  <1> DEFINE steps == <<Enter(Head(todo).i, Case[Head(todo).to.node][k], Head(todo).o)>>
  <1>3. /\ e \in Exec /\ flow \in [Exec -> [Flow -> FlowRecord]] /\ flow' \in [Exec -> [Flow -> FlowRecord]]
    BY <1>1, <1>2, ChainEffect DEF IInv, ArenaType
  <1>4. ASSUME NEW S, Kept(S), Single(e, S) PROVE Single(e, S)'
    <2>1. PICK i \in Flow, t \in Target, o \in Outcome \cup {"none"} :
            /\ Head(todo).i = i /\ Head(todo).to = t /\ Head(todo).o = o /\ t.node \in S
            /\ Kind[t.node] = "dispatch" /\ flow[e][i].active /\ Tail(todo) = <<>>
      BY <1>1, <1>4, WalkMeets
    <2>2. flow'[e] = [flow[e] EXCEPT ![i].node = t.node]
      BY <1>1, <1>3, <2>1
    <2>3. \A j \in Flow : flow'[e][j].active <=> flow[e][j].active
      BY <1>3, <2>1, <2>2 DEF FlowRecord
    <2>4. flow'[e][i].region = flow[e][i].region
      BY <1>3, <2>1, <2>2 DEF FlowRecord
    <2>5. \A j \in Flow : flow'[e][j].active => j = i
      BY <1>4, <2>1, <2>3 DEF Single
    <2>6. flow'[e][i].active /\ flow'[e][i].region = "none"
      BY <1>4, <2>1, <2>3, <2>4 DEF Single, Walks
    <2>7. t.node \in Node /\ k \in 1 .. Len(Case[t.node])
      BY <2>1 DEF Target
    <2>8. Case[t.node][k] \in Target /\ Case[t.node][k].node \in S
      BY <1>4, <2>1, <2>7, CaseExits DEF Kept
    <2>9. each'[e].region = "none"
      BY <1>1, <1>4 DEF Single
    <2>10. GoOn(<<Enter(i, Case[t.node][k], o)>>)
      BY <1>2, <2>1
    <2>11. QED
      BY <1>1, <2>1, <2>5, <2>6, <2>8, <2>9, <2>10, WalkMoves
  <1>5. ~Within(e)
    BY <1>1, ItemMeets
  <1> HIDE DEF steps
  <1>6. GoOn(steps)
    BY <1>2 DEF steps
  <1>7. QED
    BY <1>1, <1>4, <1>5, <1>6, WalkKeepsStage, FrontKept, OnwardKept DEF Before, After

\* A terminal ends the walk; within a region a failure ends every item that is
\* not sent, and the others work on.
LEMMA StageEnterTerminal ==
  ASSUME OneRegion, IInv, IInv', NEW e, e = cur[1], Stage(e), EnterTerminal PROVE Stage(e)'
  <1>1. /\ pc = "enter" /\ Entering("end") /\ GoOn(<<Settle>>) /\ UNCHANGED restOfEnter /\ each' = each
        /\ flow' = [flow EXCEPT ![cur[1]] = [i \in Flow |->
             IF i = Head(todo).i THEN [@[i] EXCEPT !.active = FALSE, !.node = Head(todo).to.node]
             ELSE IF Head(todo).o # "Success" /\ @[i].state # "SENT"
                  THEN [@[i] EXCEPT !.active = FALSE] ELSE @[i]]]
    BY DEF EnterTerminal, Entering
  <1>2. /\ e \in Exec /\ flow \in [Exec -> [Flow -> FlowRecord]] /\ flow' \in [Exec -> [Flow -> FlowRecord]]
    BY <1>1, ChainEffect DEF IInv, ArenaType
  <1>3. ASSUME NEW j \in Flow
        PROVE  flow'[e][j].active => j # Head(todo).i /\ flow'[e][j] = flow[e][j]
    <2>1. flow'[e][j] = IF j = Head(todo).i
                          THEN [flow[e][j] EXCEPT !.active = FALSE, !.node = Head(todo).to.node]
                          ELSE IF Head(todo).o # "Success" /\ flow[e][j].state # "SENT"
                                 THEN [flow[e][j] EXCEPT !.active = FALSE] ELSE flow[e][j]
      BY <1>1, <1>2
    <2>2. flow[e][j] \in FlowRecord
      BY <1>2
    <2>3. QED
      BY <2>1, <2>2 DEF FlowRecord
  <1>4. ASSUME NEW S, Single(e, S) PROVE Single(e, S)'
    <2>1. PICK i \in Flow, t \in Target, o \in Outcome \cup {"none"} :
            Head(todo).i = i /\ flow[e][i].active /\ Tail(todo) = <<>>
      BY <1>1, <1>4, WalkMeets
    <2>2. \A j \in Flow : ~flow'[e][j].active
      BY <1>3, <1>4, <2>1 DEF Single
    <2>3. each'[e].region = "none"
      BY <1>1, <1>4 DEF Single
    <2>4. QED
      BY <1>1, <2>1, <2>2, <2>3, WalkRests
  <1>5. ASSUME Within(e) PROVE Stage(e)'
    <2>1. PICK i \in Flow, t \in Target, o \in Outcome \cup {"none"} :
            Head(todo).i = i /\ Busy(e) = {i} /\ ("end" # "action" => Tail(todo) = <<>>)
      BY <1>1, <1>5, ItemMeets
    <2>2. /\ ChainOf(e)' = <<Settle>> \o Tail(todo) /\ Given(e)' = Given(e) /\ Good(e)' = Good(e)
          /\ route' = route /\ dlv' = dlv
      BY <1>1, <1>2, ChainEffect
    <2>3. ChainOf(e)' = <<Settle>>
      BY <2>1, <2>2, ShortChains
    <2>4. ItemChain(e)'
      BY <2>3 DEF ItemChain
    <2>5. ASSUME NEW j \in Flow PROVE Works(e, j)'
      <3>1. CASE flow'[e][j].active
        BY <1>2, <1>3, <1>5, <2>1, <2>2, <3>1, WorksOn DEF Within
      <3>2. CASE ~flow'[e][j].active
        BY <3>2 DEF Works, Settled
      <3>3. QED
        BY <3>1, <3>2
    <2>6. QED
      BY <1>1, <1>2, <1>3, <1>5, <2>4, <2>5, ItemsGoOn
  <1>6. QED
    BY <1>1, <1>4, <1>5, WalkKeepsStage DEF Before, After

\* The test for completion moves no flow.
LEMMA StageMaybeComplete ==
  ASSUME OneRegion, IInv, IInv', NEW e, e = cur[1], Stage(e), MaybeComplete PROVE Stage(e)'
  <1>1. /\ pc = "enter" /\ Head(todo).op = "settle" /\ GoOn(<<>>) /\ UNCHANGED restOfEnter
        /\ each' = each /\ flow' = flow
    BY DEF MaybeComplete
  <1>2. /\ e \in Exec /\ ChainOf(e) = todo /\ ChainOf(e)' = <<>> \o Tail(todo)
        /\ Given(e)' = Given(e) /\ Good(e)' = Good(e) /\ route' = route /\ dlv' = dlv /\ cur' = cur
    BY <1>1, ChainEffect
  <1>3. ASSUME NEW S, Single(e, S) PROVE Single(e, S)'
    <2>1. todo = <<Settle>> /\ Tail(todo) = <<>>
      BY <1>1, <1>3, WalkHead
    <2>2. ChainOf(e)' = <<>>
      BY <1>2, <2>1, ShortChains
    <2>3. Busy(e) = {}
      BY <1>2, <2>1, BusyChain, ChainShapes DEF IInv
    <2>4. WalkChain(e, S)'
      BY <2>2 DEF WalkChain
    <2>5. ASSUME NEW j \in Flow PROVE Walks(e, S, j)'
      BY <1>1, <1>2, <1>3, <2>3 DEF Single, Walks, Settled
    <2>6. QED
      BY <1>1, <1>3, <2>4, <2>5 DEF Single
  <1>4. ASSUME Within(e) PROVE Stage(e)'
    <2>1. Busy(e) = {} /\ Tail(todo) = <<>>
      BY <1>1, <1>4, ItemHead
    <2>2. ChainOf(e)' = <<>>
      BY <1>2, <2>1, ShortChains
    <2>3. ItemChain(e)'
      BY <2>2 DEF ItemChain
    <2>4. ASSUME NEW j \in Flow PROVE Works(e, j)'
      BY <1>1, <1>2, <1>4, <2>1, WorksOn DEF Within
    <2>5. QED
      BY <1>1, <1>4, <2>3, <2>4, ItemsGoOn
  <1>5. QED
    BY <1>1, <1>3, <1>4, WalkKeepsStage DEF Before, After

\* An edge into the region: the walk rests, and nothing is delivered yet.
LEMMA StageEnterEach ==
  ASSUME OneRegion, IInv, IInv', NEW e, e = cur[1], Stage(e), EnterEach PROVE Stage(e)'
  <1>1. /\ pc = "enter" /\ Entering("each") /\ each[cur[1]].region = "none" /\ UNCHANGED restOfEnter
        /\ flow' = [flow EXCEPT ![cur[1]][Head(todo).i] =
                      [@ EXCEPT !.active = FALSE, !.region = "none", !.node = Head(todo).to.node]]
    BY DEF EnterEach, Entering
  <1>2. PICK n \in 0 .. Bound[Head(todo).to.node] :
          /\ each' = [each EXCEPT ![cur[1]] = [region |-> Head(todo).to.node, coord |-> Head(todo).i,
                                               count |-> n, next |-> 0, flush |-> 0]]
          /\ GoOn(<<IF n = 0 THEN FinishEach ELSE AdmitItems>>)
    BY DEF EnterEach
  <1>3. /\ e \in Exec /\ flow \in [Exec -> [Flow -> FlowRecord]] /\ each \in [Exec -> EachRecord]
    BY <1>1, <1>2, ChainEffect DEF IInv, ArenaType
  <1>4. Head(todo).to.node = Region
    BY <1>1, ChainHead, RegionFacts DEF Entering
  <1>5. ~Within(e)
    BY <1>1, ItemMeets
  <1>6. ~After(e)
    <2>1. Region \notin Onward
      BY DEF OneRegion
    <2>2. QED
      BY <1>1, <1>4, <2>1, WalkMeets DEF After
  <1>7. Before(e) /\ Single(e, Front)
    BY <1>5, <1>6 DEF Stage, Before
  <1>8. PICK i \in Flow : Head(todo).i = i /\ flow[e][i].active /\ Tail(todo) = <<>>
    BY <1>1, <1>7, WalkMeets
  <1>9. ASSUME NEW j \in Flow PROVE ~flow'[e][j].active
    <2>1. CASE j = i
      BY <1>1, <1>3, <1>8, <2>1 DEF FlowRecord
    <2>2. CASE j # i
      <3>1. flow'[e][j] = flow[e][j]
        BY <1>1, <1>3, <1>8, <2>2
      <3>2. QED
        BY <1>7, <1>8, <2>2, <3>1 DEF Single
    <2>3. QED
      BY <2>1, <2>2
  <1>10. each'[e] = [region |-> Region, coord |-> i, count |-> n, next |-> 0, flush |-> 0]
    BY <1>2, <1>3, <1>4, <1>8
  <1>11. /\ ChainOf(e)' = <<IF n = 0 THEN FinishEach ELSE AdmitItems>> \o Tail(todo)
         /\ Items(e)' = Items(e) /\ Passed(e)' = Passed(e)
    BY <1>1, <1>2, <1>3, ChainEffect
  <1>12. ChainOf(e)' = <<IF n = 0 THEN FinishEach ELSE AdmitItems>>
    BY <1>8, <1>11, ShortChains
  <1>13. ItemChain(e)'
    BY <1>10, <1>12 DEF ItemChain
  <1>14. ASSUME NEW j \in Flow PROVE (Has(e, j) /\ Works(e, j))'
    BY <1>9 DEF Has, Works, Settled
  <1>15. Cardinality(LiveFlows(e)') <= Concurrency[Region]
    <2>1. LiveFlows(e)' = {}
      BY <1>9 DEF LiveFlows
    <2>2. QED
      BY <2>1, FS_EmptySet, RegionFacts
  <1>16. n \in Nat
    BY <1>4, RegionFacts
  <1>17. Counted(e)' /\ ~Passed(e)'
    BY <1>7, <1>10, <1>11, <1>15, <1>16 DEF Before, Counted
  <1>18. QED
    BY <1>13, <1>14, <1>17 DEF Within, Stage

\* One more item is admitted while there is room: it was not delivered before.
LEMMA StageAdmitItem ==
  ASSUME OneRegion, IInv, IInv', NEW e, e = cur[1], Stage(e), AdmitItem PROVE Stage(e)'
  <1>1. /\ pc = "enter" /\ Head(todo).op = "admit" /\ each[e].region # "none" /\ UNCHANGED restOfEnter
    BY DEF AdmitItem
  <1>2. Within(e)
    BY <1>1 DEF Stage, Before, After, Single
  <1>3. Busy(e) = {} /\ Tail(todo) = <<>>
    BY <1>1, <1>2, ItemHead
  <1>4. CASE ~RoomForItem(e) /\ GoOn(<<>>) /\ UNCHANGED <<flow, each>>
    <2>1. /\ e \in Exec /\ ChainOf(e)' = <<>> \o Tail(todo)
          /\ Given(e)' = Given(e) /\ Good(e)' = Good(e) /\ route' = route /\ dlv' = dlv
      BY <1>1, <1>4, ChainEffect
    <2>2. ChainOf(e)' = <<>>
      BY <1>3, <2>1, ShortChains
    <2>3. ItemChain(e)'
      BY <2>2 DEF ItemChain
    <2>4. ASSUME NEW j \in Flow PROVE Works(e, j)'
      BY <1>2, <1>3, <1>4, <2>1, WorksOn DEF Within
    <2>5. QED
      BY <1>1, <1>2, <1>4, <2>3, <2>4, ItemsGoOn
  <1>5. CASE /\ RoomForItem(e) /\ Idle(e) # {}
             /\ flow' = [flow EXCEPT ![e][Lowest(Idle(e), 1)] =
                           [@ EXCEPT !.active = TRUE, !.region = each[e].region, !.item = each[e].next]]
             /\ each' = [each EXCEPT ![e].next = @ + 1]
             /\ GoOn(<<Enter(Lowest(Idle(e), 1), Template[each[e].region], "none"), AdmitItems>>)
    <2> DEFINE i == Lowest(Idle(e), 1)
               steps == <<Enter(i, Template[each[e].region], "none"), AdmitItems>>
    <2>1. /\ e \in Exec /\ ChainOf(e)' = steps \o Tail(todo) /\ cur' = cur
          /\ Given(e)' = Given(e) /\ Good(e)' = Good(e) /\ route' = route /\ dlv' = dlv
          /\ Items(e)' = Items(e) /\ Won(e)' = Won(e) /\ Passed(e)' = Passed(e)
      BY <1>1, <1>5, ChainEffect
    <2>2. /\ flow \in [Exec -> [Flow -> FlowRecord]] /\ each \in [Exec -> EachRecord]
      BY DEF IInv, ArenaType
    <2>3. i \in Flow /\ ~flow[e][i].active
      <3>1. Idle(e) \subseteq Flow
        BY DEF Idle
      <3>2. i \in Idle(e)
        BY <1>5, <3>1, LowestFlow
      <3>3. QED
        BY <3>2 DEF Idle
    <2>4. each[e].region = Region
      BY <1>2 DEF Within, Counted
    <2>5. ChainOf(e)' = <<Enter(i, Template[Region], "none"), AdmitItems>>
      BY <1>3, <2>1, <2>4, ShortChains
    <2> HIDE DEF steps, i
    <2>6. Busy(e)' = {i}
      BY <2>5, BusyChainNext, ChainShapes DEF IInv
    <2>7. /\ each[e].flush \in Nat /\ each[e].next \in Nat /\ each[e].count \in Nat
      BY <2>1, <2>2 DEF EachRecord
    <2>8. /\ each'[e].next = each[e].next + 1 /\ each'[e].flush = each[e].flush
          /\ each'[e].count = each[e].count /\ each'[e].region = Region
      BY <1>5, <2>1, <2>2, <2>4 DEF EachRecord
    <2>9. /\ flow'[e][i].active /\ flow'[e][i].region = Region /\ flow'[e][i].item = each[e].next
          /\ \A j \in Flow : j # i => flow'[e][j] = flow[e][j]
      <3>1. flow'[e] = [flow[e] EXCEPT ![i] =
                           [@ EXCEPT !.active = TRUE, !.region = each[e].region, !.item = each[e].next]]
        BY <1>5, <2>1, <2>2 DEF i
      <3>2. flow'[e][i] = [flow[e][i] EXCEPT !.active = TRUE, !.region = each[e].region, !.item = each[e].next]
        BY <2>1, <2>2, <2>3, <3>1
      <3>3. flow[e][i] \in FlowRecord
        BY <2>1, <2>2, <2>3
      <3>4. flow'[e][i].active /\ flow'[e][i].region = Region /\ flow'[e][i].item = each[e].next
        BY <2>4, <3>2, <3>3 DEF FlowRecord
      <3>5. QED
        BY <2>1, <2>2, <2>3, <3>1, <3>4
    <2>10. each[e].next \notin Given(e)
      <3>1. ASSUME NEW r \in Items(e), route[e][r] = <<ItemNode, each[e].next>> PROVE FALSE
        <4>1. route[e][r][2] = each[e].next
          BY <3>1
        <4>2. route[e][r][2] \in 0 .. each[e].next - 1
          BY <1>2 DEF Within, Counted
        <4>3. QED
          BY <2>7, <4>1, <4>2
      <3>2. QED
        BY <3>1 DEF Given
    <2>11. each[e].flush <= each[e].next /\ each[e].next < each[e].count
      BY <1>2, <1>5 DEF Within, Counted, RoomForItem
    <2>12. ASSUME NEW j \in Flow PROVE Has(e, j)'
      <3>1. \A l \in Flow : l # i /\ flow[e][l].active =>
              flow[e][l].region = Region /\ flow[e][l].item \in each[e].flush .. each[e].next - 1
        BY <1>2 DEF Within, Has
      <3>2. CASE j = i
        <4>1. each[e].next \in each'[e].flush .. each'[e].next - 1
          BY <2>7, <2>8, <2>11
        <4>2. \A l \in Flow : l # i /\ flow'[e][l].active => flow'[e][l].item # each[e].next
          BY <2>7, <2>9, <3>1
        <4>3. QED
          BY <2>9, <3>2, <4>1, <4>2 DEF Has
      <3>3. CASE j # i
        <4>1. CASE flow[e][j].active
          <5>1. flow[e][j].item \in each'[e].flush .. each'[e].next - 1 /\ flow[e][j].item # each[e].next
            BY <2>7, <2>8, <3>1, <3>3, <4>1
          <5>2. \A l \in Flow : flow[e][l].active /\ flow[e][l].item = flow[e][j].item => j = l
            BY <1>2, <4>1 DEF Within, Has
          <5>3. QED
            BY <2>9, <3>1, <3>3, <4>1, <5>1, <5>2 DEF Has
        <4>2. CASE ~flow[e][j].active
          BY <2>9, <3>3, <4>2 DEF Has
        <4>3. QED
          BY <4>1, <4>2
      <3>4. QED
        BY <3>2, <3>3
    <2>13. ASSUME NEW j \in Flow PROVE Works(e, j)'
      <3>1. CASE j = i
        BY <2>6, <3>1 DEF Works, Settled
      <3>2. CASE j # i
        BY <1>2, <1>3, <2>1, <2>9, <3>2, WorksOn DEF Within
      <3>3. QED
        BY <3>1, <3>2
    <2>14. Cardinality(LiveFlows(e)') <= Concurrency[Region]
      <3>1. LiveFlows(e)' = LiveFlows(e) \cup {i} /\ i \notin LiveFlows(e)
        BY <2>3, <2>9 DEF LiveFlows
      <3>2. InRegion(e) = LiveFlows(e)
        BY <1>2, <2>4 DEF InRegion, LiveFlows, Within, Has
      <3>3. Cardinality(LiveFlows(e)) < Concurrency[Region]
        BY <1>5, <2>4, <3>2 DEF RoomForItem
      <3>4. IsFiniteSet(LiveFlows(e))
        <4>1. IsFiniteSet(Flow)
          BY FS_Interval, GroupAssumption DEF Flow
        <4>2. LiveFlows(e) \subseteq Flow
          BY DEF LiveFlows
        <4>3. QED
          BY <4>1, <4>2, FS_Subset
      <3>5. Cardinality(LiveFlows(e)) \in Nat /\ Cardinality(LiveFlows(e)') = Cardinality(LiveFlows(e)) + 1
        BY <3>1, <3>4, FS_AddElement, FS_CardinalityType
      <3>6. QED
        BY <3>3, <3>5, RegionFacts
    <2>15. Counted(e)' /\ ~Passed(e)'
      <3>1. \A r \in Items(e) : route[e][r][2] \in 0 .. each'[e].next - 1
        BY <1>2, <2>7, <2>8 DEF Within, Counted
      <3>2. each'[e].flush <= each'[e].next /\ each'[e].next <= each'[e].count
        BY <2>7, <2>8, <2>11
      <3>3. QED
        BY <1>2, <2>1, <2>8, <2>14, <3>1, <3>2 DEF Within, Counted
    <2>16. ItemChain(e)'
      BY <2>1, <2>3, <2>5, <2>9, <2>10 DEF ItemChain
    <2>17. QED
      BY <2>12, <2>13, <2>15, <2>16 DEF Within, Stage
  <1>6. QED
    BY <1>4, <1>5 DEF AdmitItem

\* S is the initial part of an interval that lies in Q, and how long it is.
PartOf(S, a, b, Q) == \A k : k \in S <=> k \in a .. b - 1 /\ \A j \in a .. k : j \in Q

LEMMA InitialPart ==
  ASSUME NEW a \in Nat, NEW b \in Nat, a <= b, NEW Q, NEW S, PartOf(S, a, b, Q)
  PROVE  Cardinality(S) \in Nat /\ S = a .. a + Cardinality(S) - 1 /\ a + Cardinality(S) <= b
  <1> DEFINE D == (a .. b) \ S
  <1> USE DEF PartOf
  <1>1. b \in D /\ D \subseteq Nat
    OBVIOUS
  <1>2. PICK c \in D : \A d \in D : ~(d < c)
    <2> HIDE DEF D
    <2>1. QED
      BY <1>1, SmallestMember
  <1>3. c \in a .. b /\ c \notin S
    OBVIOUS
  <1>4. S = a .. c - 1
    <2>1. ASSUME NEW k \in a .. c - 1 PROVE k \in S
      BY <1>2, <1>3, <2>1
    <2>2. ASSUME NEW k \in S PROVE k \in a .. c - 1
      <3>1. CASE k < c
        BY <1>3, <3>1
      <3>2. CASE c <= k
        <4>1. c \in a .. b - 1 /\ \A j \in a .. c : j \in Q
          BY <1>3, <3>2
        <4>2. QED
          BY <1>3, <4>1
      <3>3. QED
        BY <1>3, <3>1, <3>2
    <2>3. QED
      BY <2>1, <2>2
  <1>5. Cardinality(a .. c - 1) = c - a
    <2>1. a \in Int /\ c - 1 \in Int /\ a <= c
      BY <1>3
    <2>2. Cardinality(a .. c - 1) = IF a > c - 1 THEN 0 ELSE (c - 1) - a + 1
      BY <2>1, FS_Interval
    <2>3. QED
      BY <1>3, <2>1, <2>2
  <1>6. Cardinality(S) = Cardinality(a .. c - 1)
    BY <1>4
  <1> DEFINE n == Cardinality(S)
  <1> HIDE DEF n
  <1>7. n = c - a
    BY <1>5, <1>6 DEF n
  <1>8. n \in Nat /\ a + n - 1 = c - 1 /\ a + n <= b
    BY <1>3, <1>7
  <1>9. S = a .. a + n - 1
    BY <1>4, <1>8
  <1>10. QED
    BY <1>8, <1>9 DEF n

\* The finished items are flushed in the order of the list: they have succeeded,
\* and every other item is still with its flow.
LEMMA StageCollect ==
  ASSUME OneRegion, IInv, IInv', NEW e, e = cur[1], Stage(e), Collect PROVE Stage(e)'
  <1> DEFINE s == each[cur[1]]
             h == Head(todo)
             moved == [flow[cur[1]] EXCEPT ![h.i] = [@ EXCEPT !.state = "WAITING", !.node = h.to.node]]
             waits(k) == {i \in Flow : /\ moved[i].active /\ moved[i].region = s.region
                                       /\ moved[i].state = "WAITING" /\ moved[i].item = k}
             flushed == {k \in s.flush .. s.count - 1 : \A j \in s.flush .. k : waits(j) # {}}
             gone == UNION {waits(k) : k \in flushed}
             nf == s.flush + Cardinality(flushed)
             steps == <<IF nf = s.count THEN FinishEach ELSE AdmitItems>>
  <1>0. pc = "enter" /\ Entering("collect")
    BY DEF Collect, Entering
  <1>1. /\ pc = "enter" /\ s.region # "none" /\ UNCHANGED restOfEnter
        /\ flow' = [flow EXCEPT ![cur[1]] = [i \in Flow |->
             IF i \in gone THEN [moved[i] EXCEPT !.active = FALSE, !.region = "none"] ELSE moved[i]]]
        /\ each' = [each EXCEPT ![cur[1]].flush = nf]
        /\ GoOn(steps)
    BY DEF Collect, Entering, AllCollected
  <1>2. Within(e)
    BY <1>1 DEF Stage, Before, After, Single
  <1>3. PICK i \in Flow, t \in Target :
          /\ h.i = i /\ h.to = t /\ flow[e][i].active /\ Busy(e) = {i} /\ Tail(todo) = <<>>
          /\ dlv[e][i].req \in Good(e) /\ route[e][dlv[e][i].req] = <<ItemNode, flow[e][i].item>>
    <2>1. \E i \in Flow, t \in Target, o \in Outcome \cup {"none"} :
           /\ Head(todo).i = i /\ Head(todo).to = t /\ Head(todo).o = o /\ Kind[t.node] = "collect"
           /\ flow[e][i].active /\ Busy(e) = {i}
           /\ "collect" \in {"action", "end", "collect"}
           /\ "collect" = "action" => /\ Tail(todo) = <<AdmitItems>> /\ t.node = ItemNode
                                     /\ flow[e][i].item \notin Given(e)
           /\ "collect" # "action" => Tail(todo) = <<>>
           /\ "collect" = "collect" => /\ dlv[e][i].req \in Good(e)
                                      /\ route[e][dlv[e][i].req] = <<ItemNode, flow[e][i].item>>
      BY <1>0, <1>2, ItemMeets
    <2>2. QED
      BY <2>1
  <1>4. /\ flow \in [Exec -> [Flow -> FlowRecord]] /\ each \in [Exec -> EachRecord] /\ Tail(todo) = <<>>
    BY <1>3 DEF IInv, ArenaType
  <1> HIDE DEF steps
  <1>5. /\ e \in Exec /\ ChainOf(e)' = steps \o Tail(todo) /\ cur' = cur
        /\ Given(e)' = Given(e) /\ Good(e)' = Good(e) /\ route' = route /\ dlv' = dlv
        /\ Items(e)' = Items(e) /\ Won(e)' = Won(e) /\ Passed(e)' = Passed(e)
    BY <1>1, ChainEffect
  <1>6. ChainOf(e)' = <<IF nf = s.count THEN FinishEach ELSE AdmitItems>>
    BY <1>4, <1>5, ShortChains DEF steps
  <1>7. s.flush \in Nat /\ s.next \in Nat /\ s.count \in Nat /\ s.region = Region
        /\ s.flush <= s.next /\ s.next <= s.count
    <2>1. s \in EachRecord
      BY <1>4, <1>5
    <2>2. QED
      BY <1>2, <2>1 DEF EachRecord, Within, Counted
  <1>8. /\ \A j \in Flow : j # i => moved[j] = flow[e][j]
        /\ moved[i].state = "WAITING" /\ moved[i].active = flow[e][i].active
        /\ moved[i].item = flow[e][i].item /\ moved[i].region = flow[e][i].region
    <2>1. flow[e] \in [Flow -> FlowRecord] /\ flow[e][i] \in FlowRecord
      BY <1>4, <1>5
    <2>2. moved[i] = [flow[e][i] EXCEPT !.state = "WAITING", !.node = t.node]
      BY <1>3, <2>1
    <2>3. QED
      BY <1>3, <2>1, <2>2 DEF FlowRecord
  <1>9. ASSUME NEW j \in Flow
        PROVE  /\ j \notin gone => flow'[e][j] = moved[j]
               /\ j \in gone => ~flow'[e][j].active
    <2>1. flow'[e][j] = IF j \in gone THEN [moved[j] EXCEPT !.active = FALSE, !.region = "none"] ELSE moved[j]
      BY <1>1, <1>4, <1>5
    <2>2. moved[j] \in FlowRecord
      <3>1. flow[e] \in [Flow -> FlowRecord] /\ flow[e][j] \in FlowRecord /\ t.node \in Node
        BY <1>4, <1>5 DEF Target
      <3>2. moved[j] = IF j = i THEN [flow[e][j] EXCEPT !.state = "WAITING", !.node = t.node] ELSE flow[e][j]
        BY <1>3, <3>1
      <3> HIDE DEF moved
      <3>3. QED
        BY <3>1, <3>2 DEF FlowRecord, FlowState
    <2> HIDE DEF gone, moved
    <2>3. QED
      BY <2>1, <2>2 DEF FlowRecord
  <1>10. /\ each'[e].flush = nf /\ each'[e].next = s.next /\ each'[e].count = s.count
         /\ each'[e].region = Region
    <2> HIDE DEF nf
    <2>1. each'[e] = [each[e] EXCEPT !.flush = nf] /\ each[e] \in EachRecord
      BY <1>1, <1>4, <1>5
    <2>2. QED
      BY <1>7, <2>1 DEF EachRecord
  <1>11. /\ Cardinality(flushed) \in Nat /\ flushed = s.flush .. nf - 1 /\ nf <= s.count
    <2> DEFINE Q == {k \in Nat : waits(k) # {}}
    <2>1. flushed = {k \in s.flush .. s.count - 1 : \A j \in s.flush .. k : j \in Q}
      BY <1>7
    <2>2. s.flush <= s.count
      BY <1>7
    <2>3. PartOf(flushed, s.flush, s.count, Q)
      BY <2>1 DEF PartOf
    <2> HIDE DEF Q, flushed, s
    <2>4. /\ Cardinality(flushed) \in Nat /\ s.flush + Cardinality(flushed) <= s.count
          /\ flushed = s.flush .. s.flush + Cardinality(flushed) - 1
      BY <1>7, <2>2, <2>3, InitialPart
    <2>5. nf = s.flush + Cardinality(flushed)
      BY Zenon DEF nf
    <2> HIDE DEF nf
    <2>6. nf - 1 = s.flush + Cardinality(flushed) - 1 /\ nf <= s.count
      BY <1>7, <2>4, <2>5
    <2>7. QED
      BY <2>4, <2>6
  <1> HIDE DEF moved
  <1>12. ASSUME NEW k \in flushed
         PROVE  \E j \in Flow : /\ j \in gone /\ flow[e][j].active /\ flow[e][j].item = k
                                /\ moved[j].state = "WAITING"
    <2>1. k \in s.flush .. k
      BY <1>7
    <2>2. PICK j \in Flow : j \in waits(k)
      BY <2>1
    <2>3. moved[j].active /\ moved[j].item = k /\ moved[j].state = "WAITING"
      BY <2>2
    <2>4. QED
      BY <1>8, <2>2, <2>3
  <1> HIDE DEF waits, flushed, gone
  <1>13. ASSUME NEW k \in flushed PROVE k < s.next /\ k \in Won(e) /\ k \in Nat
    <2>1. PICK j \in Flow : flow[e][j].active /\ flow[e][j].item = k /\ moved[j].state = "WAITING"
      BY <1>12
    <2>2. k \in s.flush .. s.next - 1
      BY <1>2, <2>1 DEF Within, Has
    <2>3. dlv[e][j].req \in Good(e) /\ route[e][dlv[e][j].req] = <<ItemNode, k>>
      <3>1. CASE j = i
        BY <1>3, <2>1, <3>1
      <3>2. CASE j # i
        <4>1. Settled(e, j) /\ flow[e][j].state = "WAITING"
          BY <1>3, <1>8, <2>1, <3>2 DEF Settled
        <4>2. Works(e, j)
          BY <1>2 DEF Within
        <4>3. QED
          BY <2>1, <4>1, <4>2 DEF Works
      <3>3. QED
        BY <3>1, <3>2
    <2>4. QED
      BY <1>7, <2>2, <2>3 DEF Won
  <1>14. nf \in Nat /\ s.flush <= nf /\ nf <= s.next
    <2>1. nf \in Nat /\ s.flush <= nf
      BY <1>7, <1>11
    <2>2. CASE nf = s.flush
      BY <1>7, <2>2
    <2>3. CASE nf > s.flush
      <3>1. nf - 1 \in flushed
        BY <1>7, <1>11, <2>1, <2>3
      <3>2. nf - 1 < s.next
        BY <1>13, <3>1
      <3>3. QED
        BY <1>7, <2>1, <3>2
    <2>4. QED
      BY <1>7, <2>1, <2>2, <2>3
  <1>15. ASSUME NEW j \in Flow, flow'[e][j].active
         PROVE  /\ flow'[e][j] = moved[j] /\ flow[e][j].active /\ flow'[e][j].item = flow[e][j].item
                /\ flow'[e][j].region = Region /\ flow[e][j].item \in nf .. s.next - 1
    <2>1. j \notin gone /\ flow'[e][j] = moved[j]
      BY <1>9, <1>15
    <2>2. flow[e][j].active /\ flow'[e][j].item = flow[e][j].item /\ flow'[e][j].region = flow[e][j].region
      BY <1>8, <1>15, <2>1
    <2>3. flow[e][j].region = Region /\ flow[e][j].item \in s.flush .. s.next - 1
      BY <1>2, <2>2 DEF Within, Has
    <2>4. flow[e][j].item \notin flushed
      <3>1. ASSUME flow[e][j].item \in flushed PROVE FALSE
        <4>1. PICK l \in Flow : l \in gone /\ flow[e][l].active /\ flow[e][l].item = flow[e][j].item
          BY <1>12, <3>1
        <4>2. l = j
          BY <1>2, <2>2, <4>1 DEF Within, Has
        <4>3. QED
          BY <2>1, <4>1, <4>2
      <3>2. QED
        BY <3>1
    <2>5. flow[e][j].item \in nf .. s.next - 1
      BY <1>7, <1>11, <1>14, <2>3, <2>4
    <2>6. QED
      BY <2>1, <2>2, <2>3, <2>5
  <1> HIDE DEF nf, flushed, gone, s
  <1>16. ASSUME NEW j \in Flow PROVE Has(e, j)'
    <2>1. CASE ~flow'[e][j].active
      BY <2>1 DEF Has
    <2>2. CASE flow'[e][j].active
      <3>1. \A l \in Flow : flow'[e][l].active /\ flow'[e][l].item = flow'[e][j].item => j = l
        BY <1>2, <1>15, <2>2 DEF Within, Has
      <3>2. QED
        BY <1>10, <1>15, <2>2, <3>1 DEF Has
    <2>3. QED
      BY <2>1, <2>2
  <1>17. ASSUME NEW j \in Flow PROVE Works(e, j)'
    <2>1. CASE ~flow'[e][j].active
      BY <2>1 DEF Works, Settled
    <2>2. CASE flow'[e][j].active /\ j = i
      <3>1. flow'[e][j].state = "WAITING" /\ flow'[e][j].item = flow[e][j].item
        BY <1>8, <1>15, <2>2
      <3>2. dlv'[e][j].req \in Good(e)' /\ route'[e][dlv'[e][j].req] = <<ItemNode, flow[e][j].item>>
        BY <1>3, <1>5, <2>2
      <3>3. QED
        BY <3>1, <3>2 DEF Works
    <2>3. CASE flow'[e][j].active /\ j # i
      <3>1. flow'[e][j] = flow[e][j] /\ j \notin Busy(e) /\ Works(e, j)
        BY <1>2, <1>3, <1>8, <1>15, <2>3 DEF Within
      <3>2. QED
        BY <1>5, <3>1, WorksOn
    <2>4. QED
      BY <2>1, <2>2, <2>3
  <1>18. Cardinality(LiveFlows(e)') <= Concurrency[Region]
    <2>1. LiveFlows(e)' \subseteq LiveFlows(e) /\ LiveFlows(e) \subseteq Flow
      BY <1>15 DEF LiveFlows
    <2>2. IsFiniteSet(Flow)
      BY FS_Interval, GroupAssumption DEF Flow
    <2>3. IsFiniteSet(LiveFlows(e))
      BY <2>1, <2>2, FS_Subset
    <2>4. /\ Cardinality(LiveFlows(e)') <= Cardinality(LiveFlows(e)) /\ IsFiniteSet(LiveFlows(e)')
      BY <2>1, <2>3, FS_Subset
    <2>5. Cardinality(LiveFlows(e)) \in Nat /\ Cardinality(LiveFlows(e)') \in Nat
      BY <2>3, <2>4, FS_CardinalityType
    <2>6. Cardinality(LiveFlows(e)) <= Concurrency[Region] /\ Concurrency[Region] \in Nat
      BY <1>2, RegionFacts DEF Within, Counted
    <2>7. QED
      BY <2>4, <2>5, <2>6
  <1>19. Counted(e)' /\ ~Passed(e)'
    <2>1. \A k \in 0 .. nf - 1 : k \in Won(e)
      <3>1. ASSUME NEW k \in 0 .. nf - 1 PROVE k \in Won(e)
        <4>1. CASE k < s.flush
          BY <1>2, <1>7, <4>1 DEF Within, Counted, s
        <4>2. CASE k >= s.flush
          <5>1. k \in flushed
            BY <1>7, <1>11, <1>14, <4>2
          <5>2. QED
            BY <1>13, <5>1
        <4>3. QED
          BY <1>7, <4>1, <4>2
      <3>2. QED
        BY <3>1
    <2>2. \A r \in Items(e) : route[e][r][2] \in 0 .. s.next - 1
      BY <1>2 DEF Within, Counted, s
    <2>3. QED
      BY <1>2, <1>5, <1>7, <1>10, <1>14, <1>18, <2>1, <2>2 DEF Within, Counted
  <1>20. ItemChain(e)'
    BY <1>6, <1>10 DEF ItemChain
  <1>21. QED
    BY <1>16, <1>17, <1>19, <1>20 DEF Within, Stage

\* When all are flushed no item is left, and the coordinator walks on.
LEMMA StageEachFinish ==
  ASSUME OneRegion, IInv, IInv', NEW e, e = cur[1], Stage(e), EachFinish PROVE Stage(e)'
  <1>1. /\ pc = "enter" /\ Head(todo).op = "collected" /\ each[e].region # "none" /\ UNCHANGED restOfEnter
        /\ flow' = [flow EXCEPT ![e][each[e].coord] = [@ EXCEPT !.active = TRUE, !.region = "none"]]
        /\ each' = [each EXCEPT ![e].region = "none"]
        /\ GoOn(<<Enter(each[e].coord, Collected[each[e].region], "Success")>>)
    BY DEF EachFinish
  <1>2. Within(e)
    BY <1>1 DEF Stage, Before, After, Single
  <1>3. Tail(todo) = <<>> /\ each[e].flush = each[e].count /\ each[e].region = Region
    BY <1>1, <1>2, ItemHead DEF Within, Counted
  <1>4. /\ flow \in [Exec -> [Flow -> FlowRecord]] /\ each \in [Exec -> EachRecord]
    BY DEF IInv, ArenaType
  <1> DEFINE c == each[e].coord
  <1>5. /\ e \in Exec /\ route' = route /\ Items(e)' = Items(e) /\ Won(e)' = Won(e)
    BY <1>1, ChainEffect
  <1>6. /\ c \in Flow /\ each[e].count \in Nat /\ each[e].next \in Nat /\ each[e].flush \in Nat
        /\ each'[e].region = "none" /\ each'[e].count = each[e].count
    BY <1>1, <1>4, <1>5 DEF EachRecord
  <1>7. each[e].next = each[e].count
    BY <1>2, <1>3, <1>6 DEF Within, Counted
  <1>8. \A j \in Flow : ~flow[e][j].active
    BY <1>2, <1>3, <1>6, <1>7 DEF Within, Has
  <1>9. /\ flow'[e][c].active /\ flow'[e][c].region = "none"
        /\ \A j \in Flow : j # c => flow'[e][j] = flow[e][j]
    <2> HIDE DEF c
    <2>1. flow'[e] = [flow[e] EXCEPT ![c] = [@ EXCEPT !.active = TRUE, !.region = "none"]]
      BY <1>1, <1>4, <1>5 DEF c
    <2>2. flow'[e][c] = [flow[e][c] EXCEPT !.active = TRUE, !.region = "none"] /\ flow[e][c] \in FlowRecord
      BY <1>4, <1>5, <1>6, <2>1
    <2>3. flow'[e][c].active /\ flow'[e][c].region = "none"
      BY <2>2 DEF FlowRecord
    <2>4. QED
      BY <1>4, <1>5, <1>6, <2>1, <2>3
  <1>10. GoOn(<<Enter(c, Collected[Region], "Success")>>)
    BY <1>1, <1>3
  <1>11. Collected[Region] \in Target /\ Collected[Region].node \in Onward
    BY RegionFacts DEF NextNode
  <1> HIDE DEF c
  <1>12. Single(e, Onward)'
    <2>1. \A j \in Flow : flow'[e][j].active => j = c /\ flow'[e][j].region = "none"
      BY <1>8, <1>9
    <2>2. "Success" \in Outcome \cup {"none"}
      BY DEF Outcome
    <2>3. QED
      BY <1>1, <1>3, <1>6, <1>9, <1>10, <1>11, <2>1, <2>2, WalkMoves
  <1>13. AllWon(e)'
    BY <1>2, <1>3, <1>5, <1>6, <1>7 DEF Within, Counted, AllWon
  <1>14. QED
    BY <1>12, <1>13 DEF After, Stage

\* Every step of the chain keeps the stage of its execution, and those of the
\* others.
LEMMA StageEdges ==
  ASSUME OneRegion, IInv, IInv', Edges, \A e \in used : Stage(e)
  PROVE  \A e \in used : Stage(e)'
  <1>0. pc = "enter" /\ cur[1] \in used /\ cur[1] \in Exec
    BY DEF Edges, EnterAction, EnterFork, EnterDispatch, EnterJoin, CutFlow, EnterTerminal, MaybeComplete,
           EnterEach, AdmitItem, Collect, EachFinish, Entering, IInv, Control, ArenaType
  <1>1. PICK e : e = cur[1]
    OBVIOUS
  <1>2. Stage(e) /\ e \in Exec
    BY <1>0, <1>1
  <1>3. ~EnterFork /\ ~EnterJoin
    <2>1. Head(todo).op = "edge" => Head(todo).to.node \in Node
      BY <1>0, ChainHead
    <2>2. QED
      BY <2>1 DEF EnterFork, EnterJoin, Entering, OneRegion
  <1>4. ~CutFlow
    <2>1. ASSUME NEW S, Single(e, S) PROVE Head(todo).op # "cut"
      BY <1>0, <1>1, <2>1, WalkHead
    <2>2. Within(e) => Head(todo).op # "cut"
      BY <1>0, <1>1, ItemHead
    <2>3. QED
      BY <1>2, <2>1, <2>2 DEF CutFlow, Stage, Before, After
  <1>5. Stage(e)'
    BY <1>1, <1>2, <1>3, <1>4, StageEnterAction, StageEnterDispatch, StageEnterTerminal,
       StageMaybeComplete, StageEnterEach, StageAdmitItem, StageCollect, StageEachFinish DEF Edges
  <1>6. ASSUME NEW f \in used, f # e PROVE Stage(f)'
    <2>1. PICK steps : GoOn(steps)
      BY DEF Edges, EnterAction, EnterFork, EnterDispatch, EnterJoin, CutFlow, EnterTerminal, MaybeComplete,
             EnterEach, AdmitItem, Collect, EachFinish
    <2>2. UNCHANGED restOfEnter
      BY DEF Edges, EnterAction, EnterFork, EnterDispatch, EnterJoin, CutFlow, EnterTerminal, MaybeComplete,
             EnterEach, AdmitItem, Collect, EachFinish
    <2>3. f \in Exec /\ flow \in [Exec -> [Flow -> FlowRecord]] /\ each \in [Exec -> EachRecord]
      BY DEF IInv, ArenaType
    <2>4. flow'[f] = flow[f] /\ each'[f] = each[f]
      BY <1>1, <1>3, <1>4, <1>6, <2>3
      DEF Edges, EnterAction, EnterDispatch, EnterTerminal, MaybeComplete,
          EnterEach, AdmitItem, Collect, EachFinish
    <2>5. /\ ChainOf(f)' = ChainOf(f) /\ Good(f)' = Good(f) /\ UNCHANGED <<jdel, route, dlv>>
      BY <1>0, <1>1, <1>6, <2>1, <2>2, <2>3, ChainEffect
    <2>6. QED
      BY <2>3, <2>4, <2>5, StageFrame DEF IInv
  <1>7. QED
    BY <1>1, <1>5, <1>6

-----------------------------------------------------------------------------
(* The loop *)

\* What the journal says is kept when no delivery is added and no success of a
\* complete region is lost.
LEMMA JournalFrame ==
  ASSUME NEW e \in Exec, ItemsOnce(e), Complete(e), route'[e] = route[e],
         \A r \in Req : jdel'[e][r] = "none" <=> jdel[e][r] = "none",
         Passed(e) => \A r \in Items(e) : jdel'[e][r] = "Success",
         Passed(e) /\ e \in used' => e \in used /\ each'[e].count = each[e].count
  PROVE  ItemsOnce(e)' /\ Complete(e)'
  <1>1. Items(e)' = Items(e) /\ (Passed(e)' <=> Passed(e))
    BY DEF Items, Passed
  <1>2. Given(e)' = Given(e)
    BY <1>1 DEF Given
  <1>3. ItemsOnce(e)'
    BY <1>1 DEF ItemsOnce
  <1>4. Complete(e)'
    BY <1>1, <1>2 DEF Complete
  <1>5. QED
    BY <1>3, <1>4

\* Executions share no Action as long as owners only become fewer.
LEMMA OwnersStayApart ==
  ASSUME OwnersApart,
         \A e \in Exec, i \in Flow :
           dlv'[e][i].owns => dlv[e][i].owns /\ dlv'[e][i].node = dlv[e][i].node
  PROVE  OwnersApart'
  BY DEF OwnersApart, ActionAt

\* The round gets shorter.
LEMMA RoundShrinks ==
  ASSUME NEW e \in Exec, RoundPassed(e), round' \subseteq round, route'[e] = route[e],
         \A i \in Flow : dlv'[e][i].req = dlv[e][i].req /\ dlv[e][i].req \in Req,
         \A r \in Req : jdel'[e][r] = "none" <=> jdel[e][r] = "none"
  PROVE  RoundPassed(e)'
  <1>1. Passed(e)' <=> Passed(e)
    BY DEF Passed
  <1>2. QED
    BY <1>1 DEF RoundPassed

\* What the invariant says of one execution while the loop runs.
Fine(e) == Stage(e) /\ RoundPassed(e)

\* An execution that a step does not concern.
LEMMA Untouched ==
  ASSUME IInv, IInv', EInv, pc # "ended", NEW e \in Exec,
         flow'[e] = flow[e], each'[e] = each[e], route'[e] = route[e], jdel'[e] = jdel[e],
         \A i \in Flow : dlv'[e][i].req = dlv[e][i].req,
         e \in used' => e \in used,
         ChainOf(e)' = ChainOf(e), Winner(e)' = Winner(e)
  PROVE  /\ ItemsOnce(e)' /\ Complete(e)' /\ (e \in used' => Stage(e)')
         /\ e \in used' /\ round' \cap ({e} \X Flow) \subseteq round => Fine(e)'
  <1>1. ItemsOnce(e) /\ Complete(e) /\ (e \in used => Stage(e) /\ RoundPassed(e))
    BY DEF EInv, EJournal
  <1>2. Items(e)' = Items(e) /\ (Passed(e)' <=> Passed(e))
    BY DEF Items, Passed
  <1>3. Good(e)' = Good(e)
    BY <1>2 DEF Good
  <1>4. ItemsOnce(e)' /\ Complete(e)'
    <2>1. Passed(e) => \A r \in Items(e) : jdel'[e][r] = "Success"
      BY <1>1 DEF Complete
    <2>2. QED
      BY <1>1, <2>1, JournalFrame
  <1>5. ASSUME e \in used' PROVE Stage(e)'
    <2>1. Stage(e)
      BY <1>1, <1>5
    <2>2. QED
      BY <1>3, <2>1, StageFrame DEF IInv
  <1>6. ASSUME e \in used', round' \cap ({e} \X Flow) \subseteq round PROVE RoundPassed(e)'
    BY <1>1, <1>2, <1>6 DEF RoundPassed
  <1>7. QED
    BY <1>4, <1>5, <1>6 DEF Fine

\* Putting the executions together.
LEMMA Together ==
  ASSUME route' \in [Exec -> [Req -> Node \X Nat]],
         \A e \in Exec : ItemsOnce(e)' /\ Complete(e)',
         pc' # "ended" => OwnersApart' /\ \A e \in Exec : e \in used' => Fine(e)',
         used' \subseteq Exec
  PROVE  EInv'
  BY DEF EInv, EJournal, Fine

\* Steps that leave flows, deliveries and regions as they are.
LEMMA QuietStep ==
  ASSUME IInv, IInv', EInv, pc # "ended", UNCHANGED <<flow, each, route, jdel, used>>,
         round' \subseteq round, pc \notin {"enter", "closing"}, pc' \notin {"enter", "closing"},
         \A e \in Exec, i \in Flow :
           /\ dlv'[e][i].req = dlv[e][i].req
           /\ dlv'[e][i].owns => dlv[e][i].owns /\ dlv'[e][i].node = dlv[e][i].node
  PROVE  EInv'
  <1>1. \A e : ChainOf(e)' = <<>> /\ ChainOf(e) = <<>> /\ Winner(e) = {} /\ Winner(e)' = {}
    BY DEF ChainOf, Winner
  <1>2. OwnersApart'
    BY OwnersStayApart DEF EInv
  <1>3. used' \subseteq Exec /\ route' \in [Exec -> [Req -> Node \X Nat]]
    BY DEF EInv, EJournal, IInv, ArenaType
  <1>4. ASSUME NEW e \in Exec
        PROVE  ItemsOnce(e)' /\ Complete(e)' /\ (e \in used' => Fine(e)')
    BY <1>1, Untouched
  <1>5. QED
    BY <1>2, <1>3, <1>4, Together
\* A region is not started again once what follows it was delivered.
LEMMA CountKept ==
  ASSUME OneRegion, IInv, Edges, NEW e \in used, Stage(e), Passed(e)
  PROVE  each'[e].count = each[e].count
  <1>1. After(e)
    BY DEF Stage, Before, Within
  <1>2. e \in Exec /\ each \in [Exec -> EachRecord]
    BY DEF IInv, ArenaType
  <1>3. ASSUME EnterEach, e = cur[1] PROVE FALSE
    <2>1. pc = "enter" /\ Entering("each")
      BY <1>3 DEF EnterEach, Entering
    <2>2. Single(cur[1], Onward)
      BY <1>1, <1>3 DEF After
    <2>3. PICK t \in Target : Kind[t.node] = "each" /\ ("each" # "end" => t.node \in Onward)
      BY <2>1, <2>2, WalkMeets
    <2>4. t.node = Region
      BY <2>3, RegionFacts DEF Target
    <2>5. QED
      BY <2>3, <2>4 DEF OneRegion
  <1>4. CASE EnterEach
    BY <1>2, <1>3, <1>4 DEF EnterEach
  <1>5. CASE ~EnterEach
    <2>1. each' = each \/ \E f, x : each' = [each EXCEPT ![f].next = x] \/ each' = [each EXCEPT ![f].flush = x]
                                       \/ each' = [each EXCEPT ![f].region = x]
      BY <1>5 DEF Edges, EnterAction, EnterFork, EnterDispatch, EnterJoin, CutFlow, EnterTerminal, MaybeComplete,
                  AdmitItem, Collect, EachFinish
    <2>2. QED
      BY <1>2, <2>1 DEF EachRecord
  <1>6. QED
    BY <1>4, <1>5

\* The steps of the chain.
LEMMA EachEdges ==
  ASSUME OneRegion, IInv, IInv', EInv, Edges PROVE EInv'
  <1>0. pc = "enter"
    BY DEF Edges, EnterAction, EnterFork, EnterDispatch, EnterJoin, CutFlow, EnterTerminal, MaybeComplete,
           EnterEach, AdmitItem, Collect, EachFinish, Entering
  <1>1. \A e \in used : Stage(e) /\ RoundPassed(e)
    BY <1>0 DEF EInv
  <1>2. PICK steps : GoOn(steps)
    BY DEF Edges, EnterAction, EnterFork, EnterDispatch, EnterJoin, CutFlow, EnterTerminal, MaybeComplete,
           EnterEach, AdmitItem, Collect, EachFinish
  <1>3. UNCHANGED restOfEnter
    BY DEF Edges, EnterAction, EnterFork, EnterDispatch, EnterJoin, CutFlow, EnterTerminal, MaybeComplete,
           EnterEach, AdmitItem, Collect, EachFinish
  <1>4. /\ UNCHANGED <<jdel, route, dlv, used, round>>
        /\ \A f \in Exec : Passed(f)' = Passed(f) /\ Items(f)' = Items(f)
    BY <1>0, <1>2, <1>3, ChainEffect
  <1>5. \A e \in used : Stage(e)'
    BY <1>1, StageEdges
  <1>6. used \subseteq Exec /\ used' \subseteq Exec
    BY <1>4 DEF IInv, ArenaType
  <1>7. \A e \in used : RoundPassed(e)'
    <2>1. \A e \in Exec, i \in Flow : dlv[e][i].req \in Req
      BY DEF IInv, ArenaType, DlvRecord
    <2>2. QED
      BY <1>1, <1>4, <1>6, <2>1, RoundShrinks
  <1>8. ASSUME NEW e \in Exec PROVE ItemsOnce(e)' /\ Complete(e)'
    <2>1. ItemsOnce(e) /\ Complete(e)
      BY DEF EInv, EJournal
    <2>2. Passed(e) /\ e \in used' => e \in used /\ each'[e].count = each[e].count
      BY <1>1, <1>4, CountKept
    <2>3. Passed(e) => \A r \in Items(e) : jdel'[e][r] = "Success"
      BY <1>4, <2>1 DEF Complete
    <2>4. QED
      BY <1>4, <2>1, <2>2, <2>3, JournalFrame
  <1>9. OwnersApart'
    BY <1>0, <1>4, OwnersStayApart DEF EInv
  <1>10. route' \in [Exec -> [Req -> Node \X Nat]]
    BY <1>4 DEF EInv, EJournal
  <1>11. QED
    BY <1>4, <1>5, <1>6, <1>7, <1>8, <1>9, <1>10, Together DEF Fine

\* What happens outside the loop.
LEMMA WorldStep ==
  ASSUME IInv, IInv', EInv, UNCHANGED <<jdel, flow, each, route, dlv, used, pcVars, round>>
  PROVE  EInv'
  <1>1. /\ UNCHANGED <<pc, cur, verdict, after, todo>>
        /\ used' \subseteq Exec /\ route' \in [Exec -> [Req -> Node \X Nat]]
    BY DEF EInv, EJournal, IInv, ArenaType, pcVars
  <1>2. \A e : ChainOf(e)' = ChainOf(e) /\ Winner(e)' = Winner(e)
    BY <1>1 DEF ChainOf, Winner
  <1>3. CASE pc # "ended"
    <2>1. OwnersApart'
      BY <1>3, OwnersStayApart DEF EInv
    <2>2. ASSUME NEW e \in Exec
          PROVE  ItemsOnce(e)' /\ Complete(e)' /\ (e \in used' => Fine(e)')
      BY <1>2, <1>3, Untouched
    <2>3. QED
      BY <1>1, <2>1, <2>2, Together
  <1>4. CASE pc = "ended"
    <2>1. ASSUME NEW e \in Exec PROVE ItemsOnce(e)' /\ Complete(e)'
      <3>1. ItemsOnce(e) /\ Complete(e)
        BY DEF EInv, EJournal
      <3>2. Passed(e) => \A r \in Items(e) : jdel'[e][r] = "Success"
        BY <3>1 DEF Complete
      <3>3. QED
        BY <3>1, <3>2, JournalFrame
    <2>2. QED
      BY <1>1, <1>4, <2>1, Together
  <1>5. QED
    BY <1>3, <1>4

\* Giving up an Action changes no delivery and adds no owner.
LEMMA GivesUp ==
  ASSUME IInv, NEW e \in Exec, NEW i \in Flow, dlv' = [dlv EXCEPT ![e][i].owns = FALSE]
  PROVE  \A f \in Exec, j \in Flow :
           /\ dlv'[f][j].req = dlv[f][j].req
           /\ dlv'[f][j].owns => dlv[f][j].owns /\ dlv'[f][j].node = dlv[f][j].node
  <1>1. dlv \in [Exec -> [Flow -> DlvRecord]]
    BY DEF IInv, ArenaType
  <1>2. /\ \A f \in Exec, j \in Flow : <<f, j>> # <<e, i>> => dlv'[f][j] = dlv[f][j]
        /\ dlv'[e][i].owns = FALSE /\ dlv'[e][i].req = dlv[e][i].req
    BY <1>1, OwnsEffect
  <1>3. QED
    BY <1>2

\* The steps of the loop that leave flows and deliveries alone, or give up an
\* Action.
LEMMA EachQuiet ==
  ASSUME IInv, IInv', EInv, NEW e \in Exec, NEW i \in Flow,
         \/ Started \/ Finish \/ Send(e, i) \/ SendNowhere(e, i) \/ ReceiveNothing(e, i)
  PROVE  EInv'
  <1>2. UNCHANGED <<flow, each, route, jdel, used>>
    BY DEF Started, Finish, Send, SendNowhere, ReceiveNothing, AppendStarted, AppendFinished, journalVars, runVars
  <1>3. round' \subseteq round
    BY DEF Started, Finish, Send, SendNowhere, ReceiveNothing, Rest
  <1>4. pc \in {"started", "finish", "round"} /\ pc' \in {"idle", "round", "sent"}
    BY DEF Started, Finish, Send, SendNowhere, ReceiveNothing, Rest, Sending
  <1>5. dlv' = dlv \/ dlv' = [dlv EXCEPT ![e][i].owns = FALSE]
    BY DEF Started, Finish, Send, SendNowhere, ReceiveNothing
  <1>6. \A f \in Exec, j \in Flow :
           /\ dlv'[f][j].req = dlv[f][j].req
           /\ dlv'[f][j].owns => dlv[f][j].owns /\ dlv'[f][j].node = dlv[f][j].node
    BY <1>5, GivesUp
  <1>7. QED
    BY <1>2, <1>3, <1>4, <1>6, QuietStep

\* reconcile_missing_actions lets go of an Action.
LEMMA EachRelease ==
  ASSUME IInv, IInv', EInv, NEW e \in Exec, NEW i \in Flow, pc = "idle",
         dlv' = [dlv EXCEPT ![e][i].owns = FALSE],
         UNCHANGED <<journalVars, runVars, used, route, pcVars, round>>
  PROVE  EInv'
  <1>1. UNCHANGED <<flow, each, route, jdel, used, pc>>
    BY DEF journalVars, runVars, pcVars
  <1>2. QED
    BY <1>1, GivesUp, QuietStep

\* assign_available_actions: the Action is nobody's.
LEMMA EachAssign ==
  ASSUME IInv, IInv', EInv, NEW e \in Exec, NEW i \in Flow, Assign(e, i) PROVE EInv'
  <1>1. /\ pc = "idle" /\ pc' = "idle" /\ UNCHANGED <<jdel, flow, each, route, used, round, cur, verdict, after, todo>>
        /\ dlv' = [dlv EXCEPT ![e][i].owns = TRUE] /\ ~OwnedByOther(e, i)
    BY DEF Assign, Assignable, journalVars, runVars, pcVars
  <1>2. /\ dlv \in [Exec -> [Flow -> DlvRecord]] /\ used' \subseteq Exec
        /\ route' \in [Exec -> [Req -> Node \X Nat]]
    BY <1>1 DEF IInv, ArenaType, EInv, EJournal
  <1>3. \A f : ChainOf(f)' = ChainOf(f) /\ Winner(f)' = Winner(f)
    BY <1>1 DEF ChainOf, Winner
  <1>4. \A f \in Exec, j \in Flow :
           /\ dlv'[f][j].req = dlv[f][j].req /\ ActionAt(f, j)' = ActionAt(f, j)
           /\ <<f, j>> # <<e, i>> => dlv'[f][j].owns = dlv[f][j].owns
    <2>1. /\ \A f \in Exec, j \in Flow : <<f, j>> # <<e, i>> => dlv'[f][j] = dlv[f][j]
          /\ dlv'[e][i].req = dlv[e][i].req /\ dlv'[e][i].node = dlv[e][i].node
      BY <1>1, <1>2, OwnsEffect
    <2>2. QED
      BY <2>1 DEF ActionAt
  <1>5. \A f \in Exec, j \in Flow : dlv[f][j].owns => f \in used
    BY <1>1 DEF IInv, Working, Owned
  <1>6. \A f \in Exec, j \in Flow : dlv[f][j].owns /\ f # e => ActionAt(f, j) # ActionAt(e, i)
    BY <1>1, <1>5 DEF OwnedByOther
  <1>7. \A f, g \in Exec : f # g => \A j, k \in Flow :
           dlv[f][j].owns /\ dlv[g][k].owns => ActionAt(f, j) # ActionAt(g, k)
    BY <1>1 DEF EInv, OwnersApart
  <1>8. OwnersApart'
    <2> SUFFICES ASSUME NEW f \in Exec, NEW g \in Exec, f # g, NEW j \in Flow, NEW k \in Flow,
                        dlv'[f][j].owns, dlv'[g][k].owns
                 PROVE  ActionAt(f, j)' # ActionAt(g, k)'
      BY DEF OwnersApart
    <2>1. CASE f = e /\ j = i
      BY <1>4, <1>6, <2>1
    <2>2. CASE g = e /\ k = i
      BY <1>4, <1>6, <2>2
    <2>3. CASE ~(f = e /\ j = i) /\ ~(g = e /\ k = i)
      BY <1>4, <1>7, <2>3
    <2>4. QED
      BY <2>1, <2>2, <2>3
  <1>9. ASSUME NEW f \in Exec
        PROVE  ItemsOnce(f)' /\ Complete(f)' /\ (f \in used' => Fine(f)')
    BY <1>1, <1>3, <1>4, Untouched
  <1>10. QED
    BY <1>2, <1>8, <1>9, Together

\* What the flows of an execution are about once what follows the region was
\* delivered.
LEMMA NoItemAfter ==
  ASSUME OneRegion, NEW e, Stage(e), Passed(e), NEW i \in Flow, Settled(e, i), flow[e][i].state # "READY"
  PROVE  route[e][dlv[e][i].req][1] # ItemNode
  <1>1. Walks(e, Onward, i)
    BY DEF Stage, Before, Within, After, Single
  <1>2. route[e][dlv[e][i].req][1] \in Onward
    BY <1>1 DEF Walks
  <1>3. QED
    BY <1>2 DEF OneRegion

\* A poll asks about flows that are at work.
LEMMA EachPoll ==
  ASSUME OneRegion, IInv, IInv', EInv, Poll PROVE EInv'
  <1>1. /\ pc = "idle" /\ pc' = "round" /\ UNCHANGED <<jdel, flow, each, route, dlv, used, cur, verdict, after, todo>>
        /\ round' \subseteq {x \in Exec \X Flow : Polled(x[1], x[2])}
    BY DEF Poll, journalVars, runVars
  <1>2. todo = <<>> /\ used' \subseteq Exec /\ route' \in [Exec -> [Req -> Node \X Nat]]
    BY <1>1 DEF IInv, Control, ArenaType, EInv, EJournal
  <1>3. \A f : ChainOf(f)' = ChainOf(f) /\ Winner(f)' = Winner(f)
    BY <1>1 DEF ChainOf, Winner
  <1>4. OwnersApart'
    BY <1>1, OwnersStayApart DEF EInv
  <1>5. ASSUME NEW e \in Exec PROVE ItemsOnce(e)' /\ Complete(e)' /\ (e \in used' => Stage(e)')
    BY <1>1, <1>3, Untouched
  <1>6. ASSUME NEW e \in used' PROVE RoundPassed(e)'
    <2>1. Stage(e)
      BY <1>1, <1>6 DEF EInv
    <2>2. ASSUME NEW i \in Flow, <<e, i>> \in round'
          PROVE  jdel[e][dlv[e][i].req] # "none" /\ (Passed(e) => route[e][dlv[e][i].req][1] # ItemNode)
      <3>1. Polled(e, i)
        BY <1>1, <2>2
      <3>2. flow[e][i].active /\ flow[e][i].state # "READY"
        BY <3>1 DEF Polled
      <3>3. Settled(e, i)
        BY <1>2, <3>2, NothingBusy
      <3>4. IsOpen(e, dlv[e][i].req)
        BY <1>1, <1>2, <3>1 DEF IInv, Working, Owned, Polled
      <3>5. QED
        BY <2>1, <2>2, <3>2, <3>3, <3>4, NoItemAfter DEF IsOpen
    <2>3. Passed(e)' = Passed(e)
      BY <1>1 DEF Passed
    <2>4. QED
      BY <1>1, <2>2, <2>3 DEF RoundPassed
  <1>7. QED
    BY <1>2, <1>4, <1>5, <1>6, Together DEF Fine

\* Delivering the invocation makes the prepared flow sent, and nothing else.
LEMMA StageSent ==
  ASSUME IInv, IInv', NEW e \in Exec, Stage(e), NEW i \in Flow,
         pc = "sent", cur = <<e, i>>, flow[e][i].active, flow[e][i].state = "PREPARED",
         flow' = [flow EXCEPT ![e][i].state = "SENT"],
         UNCHANGED <<each, route, dlv, todo>>, pc' \in {"idle", "round"},
         \A r \in Req : jdel'[e][r] = "none" <=> jdel[e][r] = "none",
         Good(e) \subseteq Good(e)'
  PROVE  Stage(e)'
  <1>1. todo = <<>> /\ todo' = <<>> /\ flow \in [Exec -> [Flow -> FlowRecord]]
    BY DEF IInv, Control, ArenaType
  <1>2. \A j : /\ Settled(e, j) <=> flow[e][j].active
               /\ Settled(e, j)' <=> flow'[e][j].active
    BY <1>1 DEF Settled, Busy, EdgesLeft
  <1>3. /\ \A j \in Flow : j # i => flow'[e][j] = flow[e][j]
        /\ flow'[e][i] = [flow[e][i] EXCEPT !.state = "SENT"]
    BY <1>1
  <1>4. /\ flow'[e][i].active /\ flow'[e][i].state = "SENT" /\ flow'[e][i].node = flow[e][i].node
        /\ flow'[e][i].region = flow[e][i].region /\ flow'[e][i].item = flow[e][i].item
    BY <1>1, <1>3 DEF FlowRecord
  <1>5. ChainOf(e) = <<>> /\ ChainOf(e)' = <<>>
    BY DEF ChainOf
  <1>6. Items(e)' = Items(e) /\ Passed(e)' = Passed(e)
    BY DEF Items, Passed
  <1>7. Given(e)' = Given(e) /\ Won(e) \subseteq Won(e)'
    BY <1>6 DEF Given, Won
  <1>8. ASSUME NEW S, Single(e, S) PROVE Single(e, S)'
    <2>1. ASSUME NEW j \in Flow PROVE Walks(e, S, j)'
      <3>1. Walks(e, S, j)
        BY <1>8 DEF Single
      <3>2. CASE j = i
        BY <1>2, <1>4, <3>1, <3>2 DEF Walks
      <3>3. CASE j # i
        BY <1>2, <1>3, <3>1, <3>3 DEF Walks
      <3>4. QED
        BY <3>2, <3>3
    <2>2. \A j \in Flow : flow'[e][j].active => flow[e][j].active
      BY <1>3
    <2>3. QED
      BY <1>5, <1>8, <2>1, <2>2 DEF Single, WalkChain
  <1>9. Before(e) => Before(e)'
    BY <1>6, <1>8 DEF Before
  <1>10. After(e) => After(e)'
    BY <1>6, <1>7, <1>8 DEF After, AllWon
  <1>11. ASSUME Within(e) PROVE Within(e)'
    <2>1. LiveFlows(e)' = LiveFlows(e)
      BY <1>3, <1>4 DEF LiveFlows
    <2>2. Counted(e)' /\ ~Passed(e)'
      BY <1>6, <1>7, <1>11, <2>1 DEF Within, Counted
    <2>3. \A j \in Flow : /\ flow'[e][j].active = flow[e][j].active /\ flow'[e][j].region = flow[e][j].region
                          /\ flow'[e][j].item = flow[e][j].item /\ flow'[e][j].node = flow[e][j].node
      BY <1>3, <1>4
    <2>4. ASSUME NEW j \in Flow PROVE Has(e, j)'
      BY <1>11, <2>3 DEF Within, Has
    <2>5. ASSUME NEW j \in Flow PROVE Works(e, j)'
      <3>1. Works(e, j)
        BY <1>11 DEF Within
      <3>2. CASE j = i
        BY <1>2, <1>4, <3>1, <3>2 DEF Works
      <3>3. CASE j # i
        BY <1>2, <1>3, <1>7, <3>1, <3>3 DEF Works
      <3>4. QED
        BY <3>2, <3>3
    <2>6. ItemChain(e)'
      BY <1>5 DEF ItemChain
    <2>7. QED
      BY <2>2, <2>4, <2>5, <2>6 DEF Within
  <1>12. QED
    BY <1>9, <1>10, <1>11 DEF Stage

\* A step that changes what the journal says of one delivery.
LEMMA JournalTouch ==
  ASSUME EInv, NEW e \in Exec, NEW r \in Req, NEW x, x # "none", jdel[e][r] # "none",
         \A f \in Exec, q \in Req : jdel'[f][q] = IF f = e /\ q = r THEN x ELSE jdel[f][q],
         Passed(e) => r \notin Items(e),
         UNCHANGED <<route, used, each>>
  PROVE  /\ \A f \in Exec : ItemsOnce(f)' /\ Complete(f)'
         /\ \A f \in Exec : \A q \in Req : jdel'[f][q] = "none" <=> jdel[f][q] = "none"
         /\ \A f \in Exec : f # e => \A q \in Req : jdel'[f][q] = jdel[f][q]
  <1>1. \A f \in Exec : \A q \in Req : jdel'[f][q] = "none" <=> jdel[f][q] = "none"
    OBVIOUS
  <1>2. ASSUME NEW f \in Exec PROVE ItemsOnce(f)' /\ Complete(f)'
    <2>1. ItemsOnce(f) /\ Complete(f)
      BY DEF EInv, EJournal
    <2>2. Passed(f) => \A q \in Items(f) : jdel'[f][q] = "Success"
      BY <2>1 DEF Complete, Items
    <2>3. QED
      BY <1>1, <2>1, <2>2, JournalFrame
  <1>3. QED
    BY <1>1, <1>2

\* A delivery that is open is not one of a complete region.
LEMMA OpenIsNoItem ==
  ASSUME EInv, NEW e \in Exec, NEW r, IsOpen(e, r)
  PROVE  Passed(e) => r \notin Items(e)
  BY DEF EInv, EJournal, Complete, IsOpen

\* The executions that such a step does not concern.
LEMMA UntouchedOthers ==
  ASSUME IInv, IInv', EInv, pc # "ended", NEW e \in Exec,
         \A f \in Exec : f # e => jdel'[f] = jdel[f] /\ flow'[f] = flow[f] /\ each'[f] = each[f]
                                  /\ route'[f] = route[f],
         \A f \in Exec, i \in Flow : dlv'[f][i].req = dlv[f][i].req,
         UNCHANGED used, round' \subseteq round,
         pc \in {"enter", "closing"} => cur[1] = e,
         pc' \in {"enter", "closing"} => cur'[1] = e
  PROVE  \A f \in Exec : f # e /\ f \in used' => Fine(f)'
  <1> SUFFICES ASSUME NEW f \in Exec, f # e, f \in used' PROVE Fine(f)'
    OBVIOUS
  <1>1. ChainOf(f) = <<>> /\ ChainOf(f)' = <<>> /\ Winner(f) = {} /\ Winner(f)' = {}
    BY DEF ChainOf, Winner
  <1>2. QED
    BY <1>1, Untouched

\* DeliverySent and hermas_group_mark_sent.
LEMMA EachMarkSent ==
  ASSUME OneRegion, IInv, IInv', EInv, MarkSent PROVE EInv'
  <1>1. pc = "sent" /\ cur \in used \X Flow /\ used \subseteq Exec
    BY DEF MarkSent, IInv, Control, ArenaType
  <1>2. PICK e \in used, i \in Flow : cur = <<e, i>>
    BY <1>1
  <1> DEFINE r == dlv[e][i].req
  <1>3. /\ e \in Exec /\ r \in Req /\ JournalTypeOK
    BY <1>1, <1>2 DEF IInv, ArenaType, DlvRecord
  <1>4. dlv[e][i].owns /\ flow[e][i].state = "PREPARED" /\ jdel[e][r] = "prepared"
    BY <1>1, <1>2, <1>3 DEF IInv, Working, Served1, Owned, Fresh
  <1>5. /\ AppendSent(e, r) /\ UNCHANGED <<each, dlv, used, route, cur, todo>>
        /\ \/ flow[e][i].active /\ flow' = [flow EXCEPT ![e][i].state = "SENT"] /\ Rest(round)
           \/ pc' = "ended" /\ UNCHANGED <<flow, round>>
    BY <1>2 DEF MarkSent
  <1>6. \A f \in Exec, q \in Req : jdel'[f][q] = IF f = e /\ q = r THEN "sent" ELSE jdel[f][q]
    BY <1>3, <1>5, SentEffect
  <1> HIDE DEF r
  <1>7. Passed(e) => r \notin Items(e)
    BY <1>3, <1>4, OpenIsNoItem DEF IsOpen
  <1>8. /\ \A f \in Exec : ItemsOnce(f)' /\ Complete(f)'
        /\ \A q \in Req : jdel'[e][q] = "none" <=> jdel[e][q] = "none"
        /\ \A f \in Exec : f # e => \A q \in Req : jdel'[f][q] = jdel[f][q]
    <2>1. UNCHANGED <<route, used, each>> /\ "sent" # "none" /\ jdel[e][r] # "none"
      BY <1>4, <1>5
    <2>2. QED
      BY <1>3, <1>6, <1>7, <2>1, JournalTouch
  <1>9. used' \subseteq Exec /\ route' \in [Exec -> [Req -> Node \X Nat]]
    BY <1>1, <1>5 DEF EInv, EJournal
  <1>10. CASE pc' = "ended"
    BY <1>8, <1>9, <1>10, Together
  <1>11. CASE pc' # "ended"
    <2>1. /\ flow[e][i].active /\ flow' = [flow EXCEPT ![e][i].state = "SENT"]
          /\ round' = round /\ pc' \in {"idle", "round"}
      BY <1>5, <1>11 DEF Rest
    <2>2. Stage(e) /\ RoundPassed(e) /\ OwnersApart
      BY <1>1, <1>2 DEF EInv
    <2>3. Good(e) \subseteq Good(e)'
      <3>1. Winner(e) = {} /\ Items(e)' = Items(e)
        BY <1>1, <1>5, <1>8 DEF Winner, Items
      <3>2. QED
        BY <1>3, <1>4, <1>6, <3>1 DEF Good, Items
    <2>4. Stage(e)'
      BY <1>1, <1>2, <1>3, <1>4, <1>5, <1>8, <2>1, <2>2, <2>3, StageSent
    <2>5. RoundPassed(e)'
      <3>1. \A j \in Flow : dlv[e][j].req \in Req
        BY <1>3 DEF IInv, ArenaType, DlvRecord
      <3>2. QED
        BY <1>3, <1>5, <1>8, <2>1, <2>2, <3>1, RoundShrinks
    <2>6. OwnersApart'
      BY <1>5, <2>2, OwnersStayApart
    <2>7. \A f \in Exec : f # e /\ f \in used' => Fine(f)'
      <3>1. \A f \in Exec : f # e => jdel'[f] = jdel[f] /\ flow'[f] = flow[f]
        BY <1>3, <1>5, <2>1 DEF AppendSent, JournalTypeOK, IInv, ArenaType
      <3>2. QED
        BY <1>1, <1>3, <1>5, <2>1, <3>1, UntouchedOthers
    <2>8. QED
      BY <1>2, <1>8, <1>9, <2>4, <2>5, <2>6, <2>7, Together DEF Fine
  <1>12. QED
    BY <1>10, <1>11

\* The closing fact of an accepted result.
LEMMA EachClose ==
  ASSUME OneRegion, IInv, IInv', EInv, Close PROVE EInv'
  <1>1. pc = "closing" /\ cur \in used \X Flow /\ used \subseteq Exec
    BY DEF Close, IInv, Control, ArenaType
  <1>2. PICK e \in used, i \in Flow : cur = <<e, i>>
    BY <1>1
  <1> DEFINE r == dlv[e][i].req
  <1>3. /\ e \in Exec /\ r \in Req /\ JournalTypeOK
    BY <1>1, <1>2 DEF IInv, ArenaType, DlvRecord
  <1>4. dlv[e][i].owns /\ verdict \in {"Success", "AppError"}
    BY <1>1, <1>2 DEF IInv, Working, Accepting, LoopType
  <1>5. IsOpen(e, r) /\ verdict \in Outcome
    BY <1>1, <1>3, <1>4 DEF IInv, Working, Owned, Outcome
  <1>6. /\ AppendClosing(e, r, verdict) /\ UNCHANGED <<flow, each, used, route, round, verdict, cur>>
        /\ pc' = "finish" /\ dlv' = [dlv EXCEPT ![e][i].owns = FALSE]
    BY <1>2 DEF Close, runVars
  <1>7. \A f \in Exec, q \in Req : jdel'[f][q] = IF f = e /\ q = r THEN verdict ELSE jdel[f][q]
    BY <1>3, <1>5, <1>6, ClosingEffect
  <1>8. Winner(e) = IF verdict = "Success" THEN {r} ELSE {}
    BY <1>1, <1>2 DEF Winner
  <1> HIDE DEF r
  <1>9. /\ \A f \in Exec : ItemsOnce(f)' /\ Complete(f)'
        /\ \A q \in Req : jdel'[e][q] = "none" <=> jdel[e][q] = "none"
        /\ \A f \in Exec : f # e => \A q \in Req : jdel'[f][q] = jdel[f][q]
    <2>1. UNCHANGED <<route, used, each>> /\ verdict # "none" /\ jdel[e][r] # "none"
      BY <1>4, <1>5, <1>6 DEF IsOpen
    <2>2. Passed(e) => r \notin Items(e)
      BY <1>3, <1>5, OpenIsNoItem
    <2>3. QED
      BY <1>3, <1>7, <2>1, <2>2, JournalTouch
  <1>10. used' \subseteq Exec /\ route' \in [Exec -> [Req -> Node \X Nat]]
    BY <1>1, <1>6 DEF EInv, EJournal
  <1>11. Stage(e) /\ RoundPassed(e) /\ OwnersApart
    BY <1>1, <1>2 DEF EInv
  <1>12. \A f \in Exec, j \in Flow :
           /\ dlv'[f][j].req = dlv[f][j].req
           /\ dlv'[f][j].owns => dlv[f][j].owns /\ dlv'[f][j].node = dlv[f][j].node
    BY <1>3, <1>6, GivesUp
  <1>13. Good(e) \subseteq Good(e)'
    <2>1. Items(e)' = Items(e)
      BY <1>6, <1>9 DEF Items
    <2>2. ASSUME NEW q \in Good(e) PROVE jdel'[e][q] = "Success"
      <3>1. q \in Req
        BY DEF Good, Items
      <3>2. CASE q = r
        BY <1>3, <1>5, <1>7, <1>8, <2>2, <3>2 DEF Good, IsOpen
      <3>3. CASE q # r
        BY <1>3, <1>7, <1>8, <2>2, <3>1, <3>3 DEF Good
      <3>4. QED
        BY <3>2, <3>3
    <2>3. QED
      BY <2>1, <2>2 DEF Good
  <1>14. Stage(e)'
    <2>1. ChainOf(e)' = ChainOf(e)
      BY <1>1, <1>6 DEF ChainOf
    <2>2. flow'[e] = flow[e] /\ each'[e] = each[e] /\ route'[e] = route[e] /\ Control /\ Control'
      BY <1>6 DEF IInv
    <2>3. QED
      BY <1>3, <1>9, <1>11, <1>12, <1>13, <2>1, <2>2, StageFrame
  <1>15. RoundPassed(e)'
    <2>1. \A j \in Flow : dlv[e][j].req \in Req
      BY <1>3 DEF IInv, ArenaType, DlvRecord
    <2>2. QED
      BY <1>3, <1>6, <1>9, <1>11, <1>12, <2>1, RoundShrinks
  <1>16. OwnersApart'
    BY <1>11, <1>12, OwnersStayApart
  <1>17. \A f \in Exec : f # e /\ f \in used' => Fine(f)'
    <2>1. \A f \in Exec : f # e => jdel'[f] = jdel[f]
      BY <1>3, <1>6 DEF AppendClosing, JournalTypeOK
    <2>2. pc # "ended" /\ (pc \in {"enter", "closing"} => cur[1] = e) /\ pc' \notin {"enter", "closing"}
      BY <1>1, <1>2, <1>6
    <2>3. QED
      BY <1>3, <1>6, <1>12, <2>1, <2>2, UntouchedOthers
  <1>18. QED
    BY <1>2, <1>9, <1>10, <1>14, <1>15, <1>16, <1>17, Together DEF Fine

\* An edge is to be entered for a flow that was at work.
LEMMA StageTakesUp ==
  ASSUME IInv, IInv', NEW e \in Exec, Stage(e), NEW i \in Flow, NEW t \in Target,
         NEW o \in Outcome \cup {"none"}, pc \in {"idle", "round"}, flow[e][i].active,
         UNCHANGED <<flow, each, route>>, \A j \in Flow : dlv'[e][j].req = dlv[e][j].req,
         pc' = "enter", cur' = <<e, i>>, todo' = <<Enter(i, t, o)>>,
         \A r \in Req : jdel'[e][r] = "none" <=> jdel[e][r] = "none", Good(e) \subseteq Good(e)',
         Before(e) => t.node \in Front \/ Kind[t.node] = "end",
         After(e) => t.node \in Onward \/ Kind[t.node] = "end",
         Within(e) => \/ Kind[t.node] = "end"
                      \/ /\ Kind[t.node] = "collect" /\ dlv[e][i].req \in Good(e)'
                         /\ route[e][dlv[e][i].req] = <<ItemNode, flow[e][i].item>>
  PROVE  Stage(e)'
  <1>1. todo = <<>> /\ Control /\ Control'
    BY DEF IInv, Control
  <1>2. ChainOf(e) = <<>> /\ ChainOf(e)' = <<Enter(i, t, o)>>
    BY DEF ChainOf
  <1>3. Busy(e)' = {i}
    BY <1>1, <1>2, BusyChainNext, ChainShapes
  <1>4. \A j : /\ Settled(e, j) <=> flow[e][j].active
               /\ Settled(e, j)' <=> flow[e][j].active /\ j # i
    BY <1>1, <1>3, NothingBusy DEF Settled
  <1>5. Items(e)' = Items(e) /\ Passed(e)' = Passed(e)
    BY DEF Items, Passed
  <1>6. Given(e)' = Given(e) /\ Won(e) \subseteq Won(e)'
    BY <1>5 DEF Given, Won
  <1>7. ASSUME NEW S, Single(e, S), t.node \in S \/ Kind[t.node] = "end" PROVE Single(e, S)'
    <2>1. ASSUME NEW j \in Flow PROVE Walks(e, S, j)'
      <3>1. Walks(e, S, j)
        BY <1>7 DEF Single
      <3>2. QED
        BY <1>4, <3>1 DEF Walks
    <2>2. WalkChain(e, S)'
      BY <1>2, <1>7 DEF WalkChain
    <2>3. QED
      BY <1>7, <2>1, <2>2 DEF Single
  <1>8. Before(e) => Before(e)'
    BY <1>5, <1>7 DEF Before
  <1>9. After(e) => After(e)'
    BY <1>5, <1>6, <1>7 DEF After, AllWon
  <1>10. ASSUME Within(e) PROVE Within(e)'
    <2>1. LiveFlows(e)' = LiveFlows(e)
      BY DEF LiveFlows
    <2>2. Counted(e)' /\ ~Passed(e)'
      BY <1>5, <1>6, <1>10, <2>1 DEF Within, Counted
    <2>3. ASSUME NEW j \in Flow PROVE Has(e, j)'
      BY <1>10 DEF Within, Has
    <2>4. ASSUME NEW j \in Flow PROVE Works(e, j)'
      <3>1. Works(e, j)
        BY <1>10 DEF Within
      <3>2. QED
        BY <1>4, <1>6, <3>1 DEF Works
    <2>5. ItemChain(e)'
      BY <1>2, <1>10 DEF ItemChain
    <2>6. QED
      BY <2>2, <2>3, <2>4, <2>5 DEF Within
  <1>11. QED
    BY <1>8, <1>9, <1>10 DEF Stage

\* A delivery that ends without a value.
LEMMA EachEndDelivery ==
  ASSUME OneRegion, IInv, IInv', EInv, pc \in {"idle", "round"}, NEW e \in used, NEW i \in Flow,
         NEW o \in {"NotSent", "Unknown"}, NEW required \in {"PREPARED", "SENT"},
         EndDelivery(e, i, o, required), round' \subseteq round,
         jdel[e][dlv[e][i].req] # "none", Passed(e) => dlv[e][i].req \notin Items(e)
  PROVE  EInv'
  <1> DEFINE r == dlv[e][i].req
  <1>1. used \subseteq Exec /\ e \in Exec /\ r \in Req /\ JournalTypeOK /\ todo = <<>>
    BY DEF IInv, ArenaType, DlvRecord, Control
  <1>2. /\ AppendClosing(e, r, o) /\ UNCHANGED <<flow, each, used, route, verdict>> /\ cur' = <<e, i>>
        /\ \/ /\ flow[e][i].active /\ flow[e][i].state = required
              /\ dlv' = [dlv EXCEPT ![e][i].owns = FALSE]
              /\ pc' = "enter" /\ after' = "finish" /\ todo' = <<Enter(i, End, o)>>
           \/ pc' = "ended"
    BY DEF EndDelivery, runVars
  <1>3. o \in Outcome /\ o # "none"
    BY DEF Outcome
  <1>4. \A f \in Exec, q \in Req : jdel'[f][q] = IF f = e /\ q = r THEN o ELSE jdel[f][q]
    BY <1>1, <1>2, <1>3, ClosingEffect
  <1>5. /\ \A f \in Exec : ItemsOnce(f)' /\ Complete(f)'
        /\ \A q \in Req : jdel'[e][q] = "none" <=> jdel[e][q] = "none"
        /\ \A f \in Exec : f # e => \A q \in Req : jdel'[f][q] = jdel[f][q]
    <2>1. UNCHANGED <<route, used, each>> /\ jdel[e][r] # "none" /\ (Passed(e) => r \notin Items(e))
      BY <1>2
    <2> HIDE DEF r
    <2>2. QED
      BY <1>1, <1>3, <1>4, <2>1, JournalTouch
  <1>6. used' \subseteq Exec /\ route' \in [Exec -> [Req -> Node \X Nat]]
    BY <1>1, <1>2 DEF EInv, EJournal
  <1>7. CASE pc' = "ended"
    BY <1>5, <1>6, <1>7, Together
  <1>8. CASE pc' # "ended"
    <2>1. /\ flow[e][i].active /\ flow[e][i].state = required
          /\ dlv' = [dlv EXCEPT ![e][i].owns = FALSE]
          /\ pc' = "enter" /\ after' = "finish" /\ todo' = <<Enter(i, End, o)>>
      BY <1>2, <1>8
    <2>2. Stage(e) /\ RoundPassed(e) /\ OwnersApart
      BY DEF EInv
    <2>3. Settled(e, i)
      BY <1>1, <2>1, NothingBusy
    <2>4. IsOpen(e, r)
      <3>1. InStep(e, i) /\ Owned(e, i)
        BY <1>1 DEF IInv, Working
      <3>2. QED
        BY <2>1, <2>3, <3>1 DEF InStep, Owned, Fresh, IsOpen
    <2>5. End \in Target /\ Kind[End.node] = "end"
      <3>1. \E n \in Node : Kind[n] = "end"
        BY GroupAssumption
      <3>2. End.node \in Node /\ Kind[End.node] = "end" /\ End = [node |-> End.node, tag |-> 0]
        BY <3>1 DEF End
      <3>3. 0 \in 0 .. MaxFlows
        BY GroupAssumption
      <3>4. QED
        BY <3>2, <3>3 DEF Target
    <2>6. Good(e) \subseteq Good(e)'
      <3>1. Items(e)' = Items(e) /\ Winner(e) = {}
        BY <1>2, <1>5 DEF Items, Winner
      <3> HIDE DEF r
      <3>2. QED
        BY <1>1, <1>4, <2>4, <3>1 DEF Good, Items, IsOpen
    <2>7. \A f \in Exec, j \in Flow :
            /\ dlv'[f][j].req = dlv[f][j].req
            /\ dlv'[f][j].owns => dlv[f][j].owns /\ dlv'[f][j].node = dlv[f][j].node
      BY <1>1, <2>1, GivesUp
    <2> HIDE DEF r
    <2>8. Stage(e)'
      <3>1. o \in Outcome \cup {"none"} /\ UNCHANGED <<flow, each, route>> /\ cur' = <<e, i>>
        BY <1>2, <1>3
      <3>2. \A j \in Flow : dlv'[e][j].req = dlv[e][j].req
        BY <1>1, <2>7
      <3>3. QED
        BY <1>1, <1>5, <2>1, <2>2, <2>5, <2>6, <3>1, <3>2, StageTakesUp
    <2>9. RoundPassed(e)'
      <3>1. \A j \in Flow : dlv[e][j].req \in Req
        BY <1>1 DEF IInv, ArenaType, DlvRecord
      <3>2. QED
        BY <1>1, <1>2, <1>5, <2>2, <2>7, <3>1, RoundShrinks
    <2>10. OwnersApart'
      BY <2>2, <2>7, OwnersStayApart
    <2>11. \A f \in Exec : f # e /\ f \in used' => Fine(f)'
      <3>1. \A f \in Exec : f # e => jdel'[f] = jdel[f]
        BY <1>1, <1>2 DEF AppendClosing, JournalTypeOK
      <3>2. pc # "ended" /\ pc \notin {"enter", "closing"} /\ cur'[1] = e
        BY <1>2
      <3>3. QED
        BY <1>1, <1>2, <2>7, <3>1, <3>2, UntouchedOthers
    <2>12. QED
      BY <1>5, <1>6, <2>8, <2>9, <2>10, <2>11, Together DEF Fine
  <1>9. QED
    BY <1>7, <1>8

\* The steps of the loop that end a delivery so.
LEMMA EachEnds ==
  ASSUME OneRegion, IInv, IInv', EInv, NEW e \in Exec, NEW i \in Flow,
         Reconcile(e, i) \/ SendFails(e, i) \/ Lose(e, i) \/ Reject(e, i)
  PROVE  EInv'
  <1>0. pc \in {"idle", "round"} /\ used \subseteq Exec /\ round \subseteq used \X Flow
    BY DEF Reconcile, SendFails, Lose, Reject, Sending, Receiving, IInv, ArenaType, Control
  <1>1. \A j \in Flow : dlv[e][j].owns =>
          /\ e \in used /\ jdel[e][dlv[e][j].req] # "none" /\ (Passed(e) => dlv[e][j].req \notin Items(e))
    <2>1. \A j \in Flow : dlv[e][j].owns => e \in used /\ IsOpen(e, dlv[e][j].req)
      BY <1>0 DEF IInv, Working, Owned
    <2>2. QED
      BY <2>1, OpenIsNoItem DEF IsOpen
  <1>2. <<e, i>> \in round =>
          /\ e \in used /\ jdel[e][dlv[e][i].req] # "none" /\ (Passed(e) => dlv[e][i].req \notin Items(e))
    BY <1>0 DEF EInv, RoundPassed, Items
  <1>3. CASE Reconcile(e, i)
    <2>1. CASE EndDelivery(e, i, "Unknown", "SENT")
      BY <1>0, <1>1, <1>3, <2>1, EachEndDelivery DEF Reconcile, Missing
    <2>2. CASE ~EndDelivery(e, i, "Unknown", "SENT")
      BY <1>3, <2>2, EachRelease DEF Reconcile
    <2>3. QED
      BY <2>1, <2>2
  <1>4. CASE SendFails(e, i)
    <2>1. dlv[e][i].owns
      BY <1>0, <1>4 DEF SendFails, Sending, First, IInv, Working, Served1
    <2>2. EndDelivery(e, i, "NotSent", "PREPARED") /\ round' \subseteq round
      BY <1>4 DEF SendFails
    <2>3. QED
      BY <1>0, <1>1, <2>1, <2>2, EachEndDelivery
  <1>5. CASE Lose(e, i)
    <2>1. EndDelivery(e, i, "Unknown", "SENT") /\ round' \subseteq round /\ <<e, i>> \in round
      BY <1>5 DEF Lose, Receiving, First
    <2>2. QED
      BY <1>0, <1>2, <2>1, EachEndDelivery
  <1>6. CASE Reject(e, i)
    <2>1. round' \subseteq round /\ <<e, i>> \in round
      BY <1>6 DEF Reject, Receiving, First
    <2>2. PICK j \in Flow : EndDelivery(e, j, "Unknown", "SENT") /\ (j = i \/ dlv[e][j].owns)
      BY <1>6 DEF Reject, Matching
    <2>3. QED
      BY <1>0, <1>1, <1>2, <2>1, <2>2, EachEndDelivery
  <1>7. QED
    BY <1>3, <1>4, <1>5, <1>6

\* An accepted result: the flow that waits for it takes the edge of its node, and
\* an item that succeeds is collected.
LEMMA EachAccept ==
  ASSUME OneRegion, IInv, IInv', EInv, NEW e \in Exec, NEW i \in Flow, Accept(e, i) PROVE EInv'
  <1> DEFINE a == ActionAt(e, i)
             f == Head(answers[a])
             v == f.kind
  <1>1. /\ pc = "round" /\ <<e, i>> \in round /\ v # "bad" /\ answers[a] # <<>>
        /\ UNCHANGED <<jdel, flow, each, dlv, used, route>> /\ round' \subseteq round
        /\ pc' = "enter" /\ after' = "closing" /\ verdict' = v
    BY DEF Accept, Receiving, First, journalVars, runVars
  <1>2. PICK j \in Flow : /\ flow[e][j].active /\ flow[e][j].state = "SENT" /\ dlv[e][j].owns
                          /\ cur' = <<e, j>> /\ todo' = <<Enter(j, ResultEdge(flow[e][j].node, v), v)>>
    BY DEF Accept, Matching
  <1> HIDE DEF a, f
  <1>3. v \in {"Success", "AppError"}
    <2>1. verdict' \in {"none", "Success", "AppError"} /\ verdict' # "none"
      <3>1. LoopType' /\ Accepting'
        BY <1>1 DEF IInv, Working
      <3>2. QED
        BY <1>1, <3>1 DEF LoopType, Accepting
    <2>2. QED
      BY <1>1, <2>1
  <1> HIDE DEF v
  <1>4. /\ e \in used /\ todo = <<>> /\ used' \subseteq Exec /\ route' \in [Exec -> [Req -> Node \X Nat]]
        /\ dlv[e][j].req \in Req /\ flow[e][j].node \in Node
    <2>1. dlv[e][j] \in DlvRecord /\ flow[e][j] \in FlowRecord
      BY DEF IInv, ArenaType
    <2>2. dlv[e][j].req \in Req /\ flow[e][j].node \in Node
      BY <2>1 DEF DlvRecord, FlowRecord
    <2>3. QED
      BY <1>1, <2>2 DEF IInv, Control, ArenaType, EInv, EJournal
  <1>5. Settled(e, j) /\ InStep(e, j) /\ Owned(e, j)
    BY <1>1, <1>2, <1>4, NothingBusy DEF IInv, Working
  <1> DEFINE n == flow[e][j].node
             t == ResultEdge(n, v)
             r == dlv[e][j].req
  <1>6. Kind[n] = "action" /\ IsOpen(e, r)
    BY <1>2, <1>5 DEF InStep, Owned
  <1>7. t \in Target /\ t \in Exits(n)
    BY <1>4, <1>6, ActionExits
  <1>8. Stage(e) /\ RoundPassed(e) /\ OwnersApart
    BY <1>1, <1>4 DEF EInv
  <1>9. /\ Items(e)' = Items(e) /\ Winner(e) = {}
        /\ Winner(e)' = IF v = "Success" THEN {r} ELSE {}
    <2>1. cur'[1] = e /\ cur'[2] = j /\ dlv' = dlv
      BY <1>1, <1>2
    <2>2. QED
      BY <1>1, <2>1 DEF Winner, Items
  <1>10. Good(e) \subseteq Good(e)'
    BY <1>1, <1>9 DEF Good
  <1>11. ASSUME NEW S, Single(e, S), Kept(S) PROVE t.node \in S
    <2>1. n \in S
      BY <1>2, <1>5, <1>11 DEF Single, Walks
    <2>2. QED
      BY <1>7, <1>11, <2>1 DEF Kept
  <1>12. ASSUME Within(e)
         PROVE  \/ Kind[t.node] = "end"
                \/ /\ Kind[t.node] = "collect" /\ r \in Good(e)'
                   /\ route[e][r] = <<ItemNode, flow[e][j].item>>
    <2>1. n = ItemNode /\ route[e][r] = <<ItemNode, flow[e][j].item>>
      BY <1>2, <1>5, <1>12 DEF Within, Works
    <2>2. CASE v = "Success"
      <3>1. t = OnSuccess[ItemNode]
        BY <2>1, <2>2 DEF ResultEdge
      <3>2. r \in Items(e)
        BY <1>4, <1>6, <2>1 DEF Items, IsOpen
      <3>3. r \in Good(e)'
        BY <1>9, <2>2, <3>2 DEF Good
      <3>4. QED
        BY <2>1, <3>1, <3>3 DEF OneRegion
    <2>3. CASE v = "AppError"
      BY <2>1, <2>3 DEF ResultEdge, OneRegion
    <2>4. QED
      BY <1>3, <2>2, <2>3
  <1>13. Stage(e)'
    <2>1. Before(e) => t.node \in Front
      BY <1>11, FrontKept DEF Before
    <2>2. After(e) => t.node \in Onward
      BY <1>11, OnwardKept DEF After
    <2>3. v \in Outcome \cup {"none"} /\ todo' = <<Enter(j, t, v)>>
      BY <1>2, <1>3 DEF Outcome
    <2>4. \A l \in Flow : dlv'[e][l].req = dlv[e][l].req
      BY <1>1
    <2>5. \A q \in Req : jdel'[e][q] = "none" <=> jdel[e][q] = "none"
      BY <1>1
    <2> HIDE DEF t
    <2>6. QED
      BY <1>1, <1>2, <1>7, <1>8, <1>10, <1>12, <2>1, <2>2, <2>3, <2>4, <2>5, StageTakesUp
  <1>14. \A g \in Exec : ItemsOnce(g)' /\ Complete(g)'
    <2>1. ASSUME NEW g \in Exec PROVE ItemsOnce(g)' /\ Complete(g)'
      <3>1. ItemsOnce(g) /\ Complete(g)
        BY DEF EInv, EJournal
      <3>2. Passed(g) => \A q \in Items(g) : jdel'[g][q] = "Success"
        BY <1>1, <3>1 DEF Complete
      <3>3. QED
        BY <1>1, <3>1, <3>2, JournalFrame
    <2>2. QED
      BY <2>1
  <1>15. RoundPassed(e)'
    <2>1. \A l \in Flow : dlv[e][l].req \in Req
      BY DEF IInv, ArenaType, DlvRecord
    <2>2. QED
      BY <1>1, <1>8, <2>1, RoundShrinks
  <1>16. OwnersApart'
    BY <1>1, <1>8, OwnersStayApart
  <1>17. \A g \in Exec : g # e /\ g \in used' => Fine(g)'
    <2>1. pc # "ended" /\ pc \notin {"enter", "closing"} /\ cur'[1] = e
      BY <1>1, <1>2
    <2>2. QED
      BY <1>1, <2>1, UntouchedOthers
  <1>18. QED
    BY <1>4, <1>13, <1>14, <1>15, <1>16, <1>17, Together DEF Fine

\* An execution that starts is before its region.
LEMMA EachAdmit ==
  ASSUME OneRegion, IInv, IInv', EInv, Unstarted, NEW e \in Exec, Admit(e) PROVE EInv'
  <1>1. /\ pc = "idle" /\ e > jlast /\ e \notin used /\ used' = used \cup {e}
        /\ flow' = [flow EXCEPT ![e] = [i \in Flow |-> [NoFlow EXCEPT !.active = (i = 1)]]]
        /\ pc' = "enter" /\ after' = "started" /\ cur' = <<e, 1>> /\ todo' = <<Enter(1, Input, "none")>>
        /\ UNCHANGED <<jdel, each, dlv, route, round>>
    BY DEF Admit, journalVars
  <1>2. /\ used' \subseteq Exec /\ route' \in [Exec -> [Req -> Node \X Nat]] /\ 1 \in Flow
        /\ flow \in [Exec -> [Flow -> FlowRecord]] /\ round = {}
    BY <1>1, GroupAssumption DEF IInv, ArenaType, EInv, EJournal, Flow, Control
  <1>3. \A r \in Req : jdel[e][r] = "none"
    <2>1. Numbered(e)
      BY <1>1 DEF IInv, Working
    <2>2. QED
      BY <1>1, <2>1 DEF Numbered, Req
  <1>4. Items(e)' = {} /\ ~Passed(e)' /\ Items(e) = {} /\ ~Passed(e)
    BY <1>1, <1>3 DEF Items, Passed
  <1>5. each[e].region = "none"
    BY <1>1 DEF Unstarted
  <1>6. \A f \in Exec : f # e => ChainOf(f) = <<>> /\ ChainOf(f)' = <<>> /\ Winner(f)' = Winner(f)
    BY <1>1 DEF ChainOf, Winner
  <1>7. ASSUME NEW f \in Exec, f # e PROVE ItemsOnce(f)' /\ Complete(f)' /\ (f \in used' => Fine(f)')
    <2>1. flow'[f] = flow[f] /\ each'[f] = each[f] /\ (f \in used' => f \in used)
      BY <1>1, <1>2, <1>7
    <2>2. round' \cap ({f} \X Flow) \subseteq round
      BY <1>1
    <2>3. QED
      BY <1>1, <1>6, <1>7, <2>1, <2>2, Untouched
  <1>8. ItemsOnce(e)' /\ Complete(e)'
    BY <1>4 DEF ItemsOnce, Complete
  <1>9. Stage(e)'
    <2>1. \A j \in Flow : flow'[e][j] = [NoFlow EXCEPT !.active = (j = 1)]
      BY <1>1, <1>2
    <2>2. \A j \in Flow : flow'[e][j].active <=> j = 1
      BY <2>1 DEF NoFlow
    <2>3. \A j \in Flow : flow'[e][j].region = "none"
      <3>1. [NoFlow EXCEPT !.active = TRUE].region = "none" /\ [NoFlow EXCEPT !.active = FALSE].region = "none"
        BY DEF NoFlow
      <3>2. \A j \in Flow : (j = 1) = TRUE \/ (j = 1) = FALSE
        OBVIOUS
      <3>3. QED
        BY <2>1, <3>1, <3>2
    <2>4. ChainOf(e)' = <<Enter(1, Input, "none")>>
      BY <1>1 DEF ChainOf
    <2>5. Busy(e)' = {1}
      BY <2>4, BusyChainNext, ChainShapes DEF IInv
    <2>6. Input \in Target /\ Input.node \in Front /\ "none" \in Outcome \cup {"none"}
      BY RegionFacts
    <2>7. WalkChain(e, Front)'
      BY <1>2, <2>2, <2>4, <2>6 DEF WalkChain
    <2>8. \A j \in Flow : Walks(e, Front, j)'
      BY <2>2, <2>3, <2>5 DEF Walks, Settled
    <2>9. Single(e, Front)'
      BY <1>1, <1>5, <2>2, <2>7, <2>8 DEF Single
    <2>10. QED
      BY <1>4, <2>9 DEF Before, Stage
  <1>10. RoundPassed(e)'
    BY <1>1, <1>2 DEF RoundPassed
  <1>11. OwnersApart'
    BY <1>1, OwnersStayApart DEF EInv
  <1>12. QED
    BY <1>2, <1>7, <1>8, <1>9, <1>10, <1>11, Together DEF Fine

\* An execution that is returned leaves what the journal says of it.
LEMMA EachReturn ==
  ASSUME OneRegion, IInv, IInv', EInv, NEW e \in Exec, Return(e) PROVE EInv'
  <1>1. /\ pc = "idle" /\ used' = used \ {e} /\ UNCHANGED <<jdel, route, pc, cur, verdict, after, todo, round>>
        /\ flow' = [flow EXCEPT ![e] = [i \in Flow |-> NoFlow]]
        /\ dlv' = [dlv EXCEPT ![e] = [i \in Flow |-> NoDlv]]
        /\ each' = [each EXCEPT ![e] = NoEach]
    BY DEF Return, journalVars, pcVars
  <1>2. /\ used' \subseteq Exec /\ route' \in [Exec -> [Req -> Node \X Nat]]
        /\ flow \in [Exec -> [Flow -> FlowRecord]] /\ dlv \in [Exec -> [Flow -> DlvRecord]]
        /\ each \in [Exec -> EachRecord]
    BY <1>1 DEF IInv, ArenaType, EInv, EJournal
  <1>3. ASSUME NEW f \in Exec, f # e PROVE ItemsOnce(f)' /\ Complete(f)' /\ (f \in used' => Fine(f)')
    <2>1. flow'[f] = flow[f] /\ each'[f] = each[f] /\ dlv'[f] = dlv[f] /\ (f \in used' => f \in used)
      BY <1>1, <1>2, <1>3
    <2>2. ChainOf(f)' = ChainOf(f) /\ Winner(f)' = Winner(f) /\ round' \cap ({f} \X Flow) \subseteq round
      BY <1>1 DEF ChainOf, Winner
    <2>3. QED
      BY <1>1, <2>1, <2>2, Untouched
  <1>4. ItemsOnce(e)' /\ Complete(e)'
    <2>1. ItemsOnce(e) /\ Complete(e)
      BY DEF EInv, EJournal
    <2>2. Passed(e) => \A q \in Items(e) : jdel'[e][q] = "Success"
      BY <1>1, <2>1 DEF Complete
    <2>3. e \notin used'
      BY <1>1
    <2>4. QED
      BY <1>1, <2>1, <2>2, <2>3, JournalFrame
  <1>5. OwnersApart'
    <2>1. \A f \in Exec, j \in Flow : dlv'[f][j] = IF f = e THEN NoDlv ELSE dlv[f][j]
      BY <1>1, <1>2
    <2>2. \A f \in Exec, j \in Flow : dlv'[f][j].owns => dlv[f][j].owns /\ dlv'[f][j].node = dlv[f][j].node
      BY <2>1 DEF NoDlv
    <2>3. QED
      BY <1>1, <2>2, OwnersStayApart DEF EInv
  <1>6. QED
    BY <1>1, <1>2, <1>3, <1>4, <1>5, Together

\* When every item of a region has succeeded, each delivered item has.
LEMMA AllWonIsComplete ==
  ASSUME NEW e \in Exec, AllWon(e), ItemsOnce(e), Winner(e) = {}, route \in [Exec -> [Req -> Node \X Nat]]
  PROVE  /\ \A r \in Items(e) : jdel[e][r] = "Success"
         /\ \A k \in 0 .. each[e].count - 1 : k \in Given(e)
  <1>1. ASSUME NEW r \in Items(e) PROVE jdel[e][r] = "Success"
    <2>1. r \in Req /\ route[e][r] \in Node \X Nat /\ route[e][r][1] = ItemNode
      BY DEF Items
    <2> DEFINE k == route[e][r][2]
    <2>2. route[e][r] = <<ItemNode, k>>
      BY <2>1
    <2>3. k \in Won(e)
      BY DEF AllWon
    <2>4. PICK q \in Good(e) : route[e][q] = <<ItemNode, k>>
      BY <2>3 DEF Won
    <2>5. q = r
      BY <2>2, <2>4 DEF ItemsOnce, Good
    <2>6. QED
      BY <2>4, <2>5 DEF Good
  <1>2. Won(e) \subseteq Given(e)
    BY DEF Won, Given, Good
  <1>3. QED
    BY <1>1, <1>2 DEF AllWon

\* What preparing a delivery changes for its execution.
LEMMA PrepareEffect ==
  ASSUME OneRegion, IInv, IInv', EInv, NEW e \in Exec, NEW i \in Flow, Prepare(e, i), NEW r, r = nreq[e]
  PROVE  /\ pc = "idle" /\ e \in used /\ r \in Req /\ jdel[e][r] = "none" /\ Settled(e, i)
         /\ flow[e][i].active /\ flow[e][i].state = "READY" /\ Kind[flow[e][i].node] = "action"
         /\ flow[e][i].node \in Node /\ flow[e][i].item \in Nat
         /\ \A q \in Req : q # r => jdel'[e][q] = jdel[e][q] /\ route'[e][q] = route[e][q]
         /\ jdel'[e][r] = "prepared" /\ route'[e][r] = <<flow[e][i].node, flow[e][i].item>>
         /\ route' \in [Exec -> [Req -> Node \X Nat]]
         /\ flow'[e][i].state = "PREPARED" /\ flow'[e][i].node = flow[e][i].node
         /\ \A j \in Flow : /\ flow'[e][j].active = flow[e][j].active /\ flow'[e][j].region = flow[e][j].region
                            /\ flow'[e][j].item = flow[e][j].item
                            /\ j # i => flow'[e][j] = flow[e][j] /\ dlv'[e][j] = dlv[e][j]
                            /\ Settled(e, j) <=> flow[e][j].active
                            /\ Settled(e, j)' <=> flow[e][j].active
         /\ dlv'[e][i].req = r /\ ~dlv'[e][i].owns /\ each' = each /\ used' = used /\ round' = {}
         /\ \A f \in Exec : f # e => /\ flow'[f] = flow[f] /\ dlv'[f] = dlv[f] /\ jdel'[f] = jdel[f]
                                     /\ route'[f] = route[f]
         /\ \A f \in Exec : /\ ChainOf(f) = <<>> /\ ChainOf(f)' = <<>> /\ Winner(f) = {} /\ Winner(f)' = {}
         /\ pc' = "idle"
  <1>1. /\ pc = "idle" /\ Preparable(e, i) /\ AppendPrepared(e, r)
        /\ flow' = [flow EXCEPT ![e][i] = [@ EXCEPT !.state = "PREPARED", !.req = r]]
        /\ dlv' = [dlv EXCEPT ![e][i] = [req |-> r, node |-> flow[e][i].node, owns |-> FALSE]]
        /\ route' = [route EXCEPT ![e][r] = <<flow[e][i].node, flow[e][i].item>>]
        /\ UNCHANGED <<each, used, pc, cur, verdict, after, todo, round>>
    BY DEF Prepare, pcVars
  <1>2. e \in used /\ flow[e][i].active /\ flow[e][i].state = "READY" /\ nreq[e] <= MaxReqId
    BY <1>1 DEF Preparable
  <1>3. /\ JournalTypeOK /\ flow \in [Exec -> [Flow -> FlowRecord]] /\ dlv \in [Exec -> [Flow -> DlvRecord]]
        /\ route \in [Exec -> [Req -> Node \X Nat]] /\ nreq[e] \in 1 .. MaxReqId + 1
        /\ todo = <<>> /\ round = {}
    BY <1>1 DEF IInv, ArenaType, EInv, EJournal, Control
  <1>4. r \in Req
    BY <1>2, <1>3, JournalAssumption DEF Req
  <1>5. jdel[e][r] = "none"
    BY <1>1, <1>2, <1>4 DEF IInv, Working, Numbered, Req
  <1>6. \A j : (Settled(e, j) <=> flow[e][j].active) /\ (Settled(e, j)' <=> flow'[e][j].active)
    BY <1>1, <1>3 DEF Settled, Busy, EdgesLeft
  <1>7. Settled(e, i) /\ InStep(e, i)
    BY <1>1, <1>2, <1>6 DEF IInv, Working
  <1>8. flow[e][i] \in FlowRecord
    BY <1>3
  <1>9. flow[e][i].node \in Node /\ flow[e][i].item \in Nat
    BY <1>8 DEF FlowRecord
  <1>10. /\ \A q \in Req : q # r => jdel'[e][q] = jdel[e][q]
         /\ jdel'[e][r] = "prepared"
    BY <1>1, <1>3, <1>4, PreparedEffect
  <1>11. /\ \A q \in Req : q # r => route'[e][q] = route[e][q]
         /\ route'[e][r] = <<flow[e][i].node, flow[e][i].item>>
         /\ route' \in [Exec -> [Req -> Node \X Nat]]
         /\ \A f \in Exec : f # e => route'[f] = route[f]
    BY <1>1, <1>3, <1>4, <1>9
  <1>12. flow'[e][i] = [flow[e][i] EXCEPT !.state = "PREPARED", !.req = r]
    BY <1>1, <1>3
  <1>13. /\ flow'[e][i].state = "PREPARED" /\ flow'[e][i].node = flow[e][i].node
         /\ flow'[e][i].active = flow[e][i].active /\ flow'[e][i].region = flow[e][i].region
         /\ flow'[e][i].item = flow[e][i].item
    BY <1>8, <1>12 DEF FlowRecord
  <1>14. \A j \in Flow : j # i => flow'[e][j] = flow[e][j] /\ dlv'[e][j] = dlv[e][j]
    BY <1>1, <1>3
  <1>15. \A f \in Exec : f # e => flow'[f] = flow[f] /\ dlv'[f] = dlv[f] /\ jdel'[f] = jdel[f]
    BY <1>1, <1>3 DEF AppendPrepared, JournalTypeOK
  <1>16. dlv'[e][i] = [req |-> r, node |-> flow[e][i].node, owns |-> FALSE]
    BY <1>1, <1>3
  <1>17. \A f \in Exec : ChainOf(f) = <<>> /\ ChainOf(f)' = <<>> /\ Winner(f) = {} /\ Winner(f)' = {}
    BY <1>1 DEF ChainOf, Winner
  <1>18. Kind[flow[e][i].node] = "action"
    BY <1>2, <1>7 DEF InStep
  <1>19. \A j \in Flow : /\ flow'[e][j].active = flow[e][j].active /\ flow'[e][j].region = flow[e][j].region
                         /\ flow'[e][j].item = flow[e][j].item
    BY <1>13, <1>14
  <1>20. dlv'[e][i].req = r /\ ~dlv'[e][i].owns /\ each' = each /\ used' = used /\ round' = {} /\ pc' = "idle"
    BY <1>1, <1>3, <1>16
  <1>21. QED
    BY <1>1, <1>2, <1>4, <1>5, <1>6, <1>7, <1>9, <1>10, <1>11, <1>13, <1>14, <1>15, <1>17, <1>18, <1>19, <1>20

\* A delivery is prepared: before the region it is none of its items, within it
\* the item was not delivered yet, and after it the items are complete.
LEMMA EachPrepare ==
  ASSUME OneRegion, IInv, IInv', EInv, NEW e \in Exec, NEW i \in Flow, Prepare(e, i) PROVE EInv'
  <1>1. PICK r : r = nreq[e]
    OBVIOUS
  <1> DEFINE n == flow[e][i].node
             k == flow[e][i].item
  <1>2. /\ pc = "idle" /\ e \in used /\ r \in Req /\ jdel[e][r] = "none" /\ Settled(e, i)
        /\ flow[e][i].active /\ flow[e][i].state = "READY" /\ Kind[n] = "action" /\ n \in Node /\ k \in Nat
    BY <1>1, PrepareEffect
  <1>3. /\ \A q \in Req : q # r => jdel'[e][q] = jdel[e][q] /\ route'[e][q] = route[e][q]
        /\ jdel'[e][r] = "prepared" /\ route'[e][r] = <<n, k>>
        /\ route' \in [Exec -> [Req -> Node \X Nat]]
    BY <1>1, PrepareEffect
  <1>4. /\ flow'[e][i].state = "PREPARED" /\ flow'[e][i].node = n /\ dlv'[e][i].req = r
        /\ each' = each /\ used' = used /\ round' = {} /\ pc' = "idle"
        /\ ChainOf(e) = <<>> /\ ChainOf(e)' = <<>> /\ Winner(e) = {} /\ Winner(e)' = {}
    BY <1>1, PrepareEffect
  <1>5. \A j \in Flow : /\ flow'[e][j].active = flow[e][j].active /\ flow'[e][j].region = flow[e][j].region
                        /\ flow'[e][j].item = flow[e][j].item
                        /\ j # i => flow'[e][j] = flow[e][j] /\ dlv'[e][j] = dlv[e][j]
                        /\ Settled(e, j) <=> flow[e][j].active
                        /\ Settled(e, j)' <=> flow[e][j].active
    BY <1>1, PrepareEffect
  <1>6. /\ \A f \in Exec : f # e => /\ flow'[f] = flow[f] /\ dlv'[f] = dlv[f] /\ jdel'[f] = jdel[f]
                                    /\ route'[f] = route[f]
        /\ \A f \in Exec : ChainOf(f)' = ChainOf(f) /\ Winner(f)' = Winner(f)
        /\ ~dlv'[e][i].owns
    <2>1. /\ \A f \in Exec : f # e => /\ flow'[f] = flow[f] /\ dlv'[f] = dlv[f] /\ jdel'[f] = jdel[f]
                                      /\ route'[f] = route[f]
          /\ ~dlv'[e][i].owns
      BY <1>1, PrepareEffect
    <2>2. \A f \in Exec : ChainOf(f) = <<>> /\ ChainOf(f)' = <<>> /\ Winner(f) = {} /\ Winner(f)' = {}
      BY <1>1, PrepareEffect
    <2>3. QED
      BY <2>1, <2>2
  <1>7. Stage(e) /\ OwnersApart /\ ItemsOnce(e) /\ used \subseteq Exec /\ route \in [Exec -> [Req -> Node \X Nat]]
    BY <1>2 DEF EInv, EJournal, IInv, ArenaType
  <1> HIDE DEF n, k
  <1>8. \A q \in Req : jdel[e][q] # "none" => q # r /\ jdel'[e][q] = jdel[e][q] /\ route'[e][q] = route[e][q]
    BY <1>2, <1>3
  <1>9. \A q \in Items(e) : q \in Req /\ q # r /\ q \in Items(e)' /\ route'[e][q] = route[e][q]
    BY <1>8 DEF Items
  <1>10. \A q \in Items(e)' : q \in Items(e) \/ (q = r /\ n = ItemNode)
    <2>1. route'[e][r][1] = n
      BY <1>3
    <2>2. QED
      BY <1>3, <2>1 DEF Items
  <1>11. Good(e)' = Good(e)
    <2>1. Good(e) \subseteq Good(e)'
      BY <1>4, <1>8, <1>9 DEF Good, Items
    <2>2. Good(e)' \subseteq Good(e)
      <3>1. ASSUME NEW q \in Good(e)' PROVE q \in Good(e)
        <4>1. q \in Items(e)' /\ jdel'[e][q] = "Success"
          BY <1>4, <3>1 DEF Good
        <4>2. q # r /\ q \in Items(e)
          BY <1>3, <1>10, <4>1
        <4>3. q \in Req
          BY <1>9, <4>2
        <4>4. QED
          BY <1>3, <4>1, <4>2, <4>3 DEF Good
      <3>2. QED
        BY <3>1
    <2>3. QED
      BY <2>1, <2>2
  <1>12. Won(e)' = Won(e)
    <2>1. \A q \in Good(e) : route'[e][q] = route[e][q]
      BY <1>9 DEF Good
    <2>2. QED
      BY <1>11, <2>1 DEF Won
  <1>13. Passed(e)' => Passed(e) \/ n = NextNode
    <2>1. route'[e][r][1] = n
      BY <1>3
    <2>2. QED
      BY <1>3, <2>1 DEF Passed
  <1>14. \A j \in Flow : flow[e][j].active /\ flow[e][j].state \in {"PREPARED", "SENT"} =>
           dlv[e][j].req \in Req /\ jdel[e][dlv[e][j].req] # "none"
    <2>1. ASSUME NEW j \in Flow, flow[e][j].active, flow[e][j].state \in {"PREPARED", "SENT"}
          PROVE  dlv[e][j].req \in Req /\ jdel[e][dlv[e][j].req] # "none"
      <3>1. InStep(e, j) /\ Owned(e, j) /\ Settled(e, j)
        BY <1>2, <1>5, <2>1 DEF IInv, Working
      <3>2. jdel[e][dlv[e][j].req] # "none"
        BY <2>1, <3>1 DEF InStep, Owned, Fresh, IsOpen
      <3>3. dlv[e][j].req \in Req
        BY DEF IInv, ArenaType, DlvRecord
      <3>4. QED
        BY <3>2, <3>3
    <2>2. QED
      BY <2>1
  <1>15. ASSUME NEW S, Single(e, S) PROVE Single(e, S)' /\ n \in S
    <2>1. n \in S /\ (flow[e][i].active => flow[e][i].region = "none")
      BY <1>2, <1>15 DEF Single, Walks, n
    <2>2. ASSUME NEW j \in Flow PROVE Walks(e, S, j)'
      <3>1. CASE j = i
        <4>1. route'[e][dlv'[e][i].req][1] = n
          BY <1>3, <1>4
        <4>2. QED
          BY <1>2, <1>4, <1>5, <2>1, <3>1, <4>1 DEF Walks
      <3>2. CASE j # i
        <4>1. ~flow[e][j].active
          BY <1>2, <1>15, <3>2 DEF Single
        <4>2. QED
          BY <1>5, <4>1 DEF Walks
      <3>3. QED
        BY <3>1, <3>2
    <2>3. WalkChain(e, S)'
      BY <1>4 DEF WalkChain
    <2>4. QED
      BY <1>4, <1>5, <1>15, <2>1, <2>2, <2>3 DEF Single
  <1>16. ASSUME Before(e) PROVE Stage(e)' /\ ItemsOnce(e)' /\ Complete(e)'
    <2>1. Single(e, Front)' /\ n \in Front
      BY <1>15, <1>16 DEF Before
    <2>2. n # ItemNode /\ n # NextNode
      BY <1>2, <2>1 DEF Front
    <2>3. Items(e)' = {} /\ ~Passed(e)'
      BY <1>10, <1>13, <1>16, <2>2 DEF Before
    <2>4. QED
      BY <2>1, <2>3 DEF Stage, Before, ItemsOnce, Complete
  <1>17. ASSUME After(e) PROVE Stage(e)' /\ ItemsOnce(e)' /\ Complete(e)'
    <2>1. Single(e, Onward)' /\ n \in Onward
      BY <1>15, <1>17 DEF After
    <2>2. n # ItemNode
      BY <2>1 DEF OneRegion
    <2>3. Items(e)' = Items(e)
      BY <1>9, <1>10, <2>2
    <2>4. AllWon(e) /\ AllWon(e)'
      BY <1>4, <1>9, <1>12, <1>17, <2>3 DEF After, AllWon
    <2>5. ItemsOnce(e)'
      BY <1>7, <1>9, <2>3 DEF ItemsOnce
    <2>6. Complete(e)'
      <3>1. /\ \A q \in Items(e) : jdel[e][q] = "Success"
            /\ \A l \in 0 .. each[e].count - 1 : l \in Given(e)
        BY <1>4, <1>7, <2>4, AllWonIsComplete
      <3>2. \A q \in Items(e)' : jdel'[e][q] = "Success"
        BY <1>8, <2>3, <3>1 DEF Items
      <3>3. Given(e)' = Given(e)
        BY <1>9, <2>3 DEF Given
      <3>4. \A q \in Items(e)' : route'[e][q][2] \in 0 .. each'[e].count - 1
        BY <2>4 DEF AllWon
      <3>5. QED
        BY <1>4, <3>1, <3>2, <3>3, <3>4 DEF Complete
    <2>7. QED
      BY <2>1, <2>4, <2>5, <2>6 DEF After, Stage
  <1>18. ASSUME Within(e) PROVE Stage(e)' /\ ItemsOnce(e)' /\ Complete(e)'
    <2>1. Works(e, i) /\ Has(e, i)
      BY <1>18 DEF Within
    <2>2. n = ItemNode /\ k \notin Given(e) /\ k \in each[e].flush .. each[e].next - 1
      BY <1>2, <2>1 DEF Works, Has, n, k
    <2>3. ~Passed(e)'
      BY <1>13, <1>18, <2>2, RegionFacts DEF Within
    <2>4. Given(e)' \subseteq Given(e) \cup {k}
      <3>1. ASSUME NEW l \in Given(e)', l # k PROVE l \in Given(e)
        <4>1. l \in Nat /\ \E q \in Items(e)' : route'[e][q] = <<ItemNode, l>>
          BY <3>1 DEF Given
        <4>2. PICK q \in Items(e)' : route'[e][q] = <<ItemNode, l>>
          BY <4>1
        <4>3. q # r
          BY <1>3, <3>1, <4>2
        <4>4. q \in Items(e) /\ route[e][q] = <<ItemNode, l>>
          BY <1>9, <1>10, <4>2, <4>3
        <4>5. QED
          BY <4>1, <4>4 DEF Given
      <3>2. QED
        BY <3>1
    <2>5. ItemsOnce(e)'
      <3> SUFFICES ASSUME NEW p \in Items(e)', NEW q \in Items(e)', route'[e][p] = route'[e][q] PROVE p = q
        BY DEF ItemsOnce
      <3>1. ASSUME NEW s \in Items(e) PROVE route'[e][s] # route'[e][r]
        BY <1>2, <1>3, <1>9, <2>2, <3>1 DEF Given
      <3>2. QED
        BY <1>7, <1>9, <1>10, <3>1 DEF ItemsOnce
    <2>6. Complete(e)'
      BY <2>3 DEF Complete
    <2>7. ASSUME NEW j \in Flow PROVE Has(e, j)'
      BY <1>4, <1>5, <1>18 DEF Within, Has
    <2>8. ASSUME NEW j \in Flow PROVE Works(e, j)'
      <3>1. CASE ~flow[e][j].active
        BY <1>5, <3>1 DEF Works
      <3>2. CASE j = i
        <4>1. route'[e][dlv'[e][i].req] = <<ItemNode, flow'[e][i].item>>
          BY <1>3, <1>4, <1>5, <2>2 DEF k
        <4>2. QED
          BY <1>4, <2>2, <3>2, <4>1 DEF Works
      <3>3. CASE j # i /\ flow[e][j].active
        <4>1. Works(e, j) /\ Has(e, j) /\ flow'[e][j] = flow[e][j] /\ dlv'[e][j] = dlv[e][j] /\ Settled(e, j)
          BY <1>5, <1>18, <3>3 DEF Within
        <4>2. flow[e][j].item # k
          BY <1>2, <2>1, <3>3 DEF Has, k
        <4>3. CASE flow[e][j].state = "READY"
          BY <2>4, <4>1, <4>2, <4>3 DEF Works
        <4>4. CASE flow[e][j].state \in {"PREPARED", "SENT"}
          <5>1. route'[e][dlv[e][j].req] = route[e][dlv[e][j].req]
            BY <1>8, <1>14, <3>3, <4>4
          <5>2. QED
            BY <4>1, <4>4, <5>1 DEF Works
        <4>5. CASE flow[e][j].state = "WAITING"
          <5>1. dlv[e][j].req \in Good(e)
            BY <4>1, <4>5 DEF Works
          <5>2. route'[e][dlv[e][j].req] = route[e][dlv[e][j].req]
            BY <1>9, <5>1 DEF Good
          <5>3. QED
            BY <1>11, <4>1, <4>5, <5>1, <5>2 DEF Works
        <4>6. QED
          BY <4>1, <4>3, <4>4, <4>5 DEF Works
      <3>4. QED
        BY <3>1, <3>2, <3>3
    <2>9. Counted(e)'
      <3>1. LiveFlows(e)' = LiveFlows(e)
        BY <1>5 DEF LiveFlows
      <3>2. Counted(e) /\ each'[e] = each[e] /\ each[e].flush \in Nat /\ each[e].next \in Nat
        BY <1>4, <1>18 DEF Within, IInv, ArenaType, EachRecord
      <3>3. \A q \in Items(e)' : route'[e][q][2] \in 0 .. each[e].next - 1
        <4>1. route'[e][r][2] \in 0 .. each[e].next - 1
          <5>1. route'[e][r][2] = k
            BY <1>3
          <5>2. QED
            BY <2>2, <3>2, <5>1
        <4>2. \A q \in Items(e) : route'[e][q][2] \in 0 .. each[e].next - 1
          BY <1>9, <3>2 DEF Counted
        <4>3. QED
          BY <1>10, <4>1, <4>2
      <3>4. QED
        BY <1>12, <3>1, <3>2, <3>3 DEF Counted
    <2>10. ItemChain(e)'
      BY <1>4 DEF ItemChain
    <2>11. QED
      BY <2>3, <2>5, <2>6, <2>7, <2>8, <2>9, <2>10 DEF Within, Stage
  <1>19. Stage(e)' /\ ItemsOnce(e)' /\ Complete(e)'
    BY <1>7, <1>16, <1>17, <1>18 DEF Stage
  <1>20. RoundPassed(e)'
    BY <1>4 DEF RoundPassed
  <1>21. OwnersApart'
    <2>1. \A f \in Exec, j \in Flow : dlv'[f][j].owns => dlv[f][j].owns /\ dlv'[f][j].node = dlv[f][j].node
      <3>1. \A f \in Exec, j \in Flow : dlv'[f][j].owns => dlv'[f][j] = dlv[f][j]
        BY <1>5, <1>6
      <3>2. QED
        BY <3>1
    <2>2. QED
      BY <1>7, <2>1, OwnersStayApart
  <1>22. ASSUME NEW f \in Exec, f # e PROVE ItemsOnce(f)' /\ Complete(f)' /\ (f \in used' => Fine(f)')
    <2>1. round' \cap ({f} \X Flow) \subseteq round /\ pc # "ended"
      BY <1>2, <1>4
    <2>2. QED
      BY <1>4, <1>6, <1>22, <2>1, Untouched
  <1>23. QED
    BY <1>3, <1>4, <1>7, <1>19, <1>20, <1>21, <1>22, Together DEF Fine

-----------------------------------------------------------------------------
(* The theorems *)

\* Only the chain and the end of an execution touch its region.
LEMMA NextUnstarted ==
  ASSUME IInv, Unstarted, [Next]_vars PROVE Unstarted'
  <1>1. each \in [Exec -> EachRecord]
    BY DEF IInv, ArenaType
  <1>2. CASE UNCHANGED <<each, used>>
    BY <1>2 DEF Unstarted
  <1>3. CASE Edges
    <2>1. pc = "enter" /\ UNCHANGED used
      BY <1>3 DEF Edges, EnterAction, EnterFork, EnterDispatch, EnterJoin, CutFlow, EnterTerminal,
                  MaybeComplete, EnterEach, AdmitItem, Collect, EachFinish, Entering, restOfEnter
    <2>2. cur[1] \in used
      BY <2>1 DEF IInv, Control
    <2>3. \A f \in Exec : f # cur[1] => each'[f] = each[f]
      BY <1>1, <1>3 DEF Edges, EnterAction, EnterFork, EnterDispatch, EnterJoin, CutFlow, EnterTerminal,
                        MaybeComplete, EnterEach, AdmitItem, Collect, EachFinish
    <2>4. QED
      BY <2>1, <2>2, <2>3 DEF Unstarted
  <1>4. ASSUME NEW e \in Exec, Admit(e) PROVE Unstarted'
    BY <1>4 DEF Admit, Unstarted
  <1>5. ASSUME NEW e \in Exec, Return(e) PROVE Unstarted'
    <2>1. \A f \in Exec : each'[f] = IF f = e THEN NoEach ELSE each[f]
      BY <1>1, <1>5 DEF Return
    <2>2. used' = used \ {e} /\ NoEach.region = "none"
      BY <1>5 DEF Return, NoEach
    <2>3. QED
      BY <2>1, <2>2 DEF Unstarted
  <1>6. ASSUME NEW e \in Exec, NEW i \in Flow, Prepare(e, i) PROVE UNCHANGED <<each, used>>
    BY <1>6 DEF Prepare
  <1>7. ASSUME NEW e \in Exec, NEW i \in Flow, Reconcile(e, i) \/ Assign(e, i) \/ Served(e, i)
        PROVE  UNCHANGED <<each, used>>
    BY <1>7 DEF Reconcile, Assign, Served, Send, SendNowhere, SendFails, ReceiveNothing, Lose, Reject, Accept,
                EndDelivery, runVars
  <1>8. ASSUME Started \/ MarkSent \/ Close \/ Finish \/ Poll PROVE UNCHANGED <<each, used>>
    BY <1>8 DEF Started, MarkSent, Close, Finish, Poll, runVars
  <1>9. ASSUME NEW a \in Action, Register(a) \/ AppRun(a) \/ AppDies(a) PROVE UNCHANGED <<each, used>>
    BY <1>9 DEF Register, AppRun, AppDies, runVars
  <1>10. ASSUME NEW d \in Exec \X Req, AppRunLate(d) PROVE UNCHANGED <<each, used>>
    BY <1>10 DEF AppRunLate, runVars
  <1>11. CASE UNCHANGED vars
    BY <1>2, <1>11 DEF vars, runVars
  <1>12. QED
    BY <1>2, <1>3, <1>4, <1>5, <1>6, <1>7, <1>8, <1>9, <1>10, <1>11 DEF Next

\* Nothing is delivered and nothing runs in the beginning.
LEMMA InitEInv == Init => EInv /\ Unstarted
  <1> SUFFICES ASSUME Init PROVE EInv /\ Unstarted
    OBVIOUS
  <1>1. \A e \in Exec : Items(e) = {} /\ ~Passed(e)
    BY DEF Init, JournalInit, Items, Passed
  <1>2. \A e \in Exec : ItemsOnce(e) /\ Complete(e)
    BY <1>1 DEF ItemsOnce, Complete
  <1>3. route \in [Exec -> [Req -> Node \X Nat]]
    BY GroupAssumption DEF Init, Target
  <1>4. OwnersApart
    BY DEF Init, OwnersApart, NoDlv
  <1>5. Unstarted /\ used = {}
    BY DEF Init, Unstarted, NoEach
  <1>6. QED
    BY <1>2, <1>3, <1>4, <1>5 DEF EInv, EJournal

\* Every step keeps the invariant.
LEMMA NextEInv ==
  ASSUME OneRegion, IInv, EInv, Unstarted, [Next]_vars PROVE EInv'
  <1>0. IInv'
    BY NextIInv
  <1>1. CASE UNCHANGED vars
    BY <1>0, <1>1, WorldStep DEF vars, journalVars, runVars
  <1>2. ASSUME NEW e \in Exec, NEW i \in Flow, Served(e, i) PROVE EInv'
    BY <1>0, <1>2, EachQuiet, EachEnds, EachAccept DEF Served
  <1>3. ASSUME NEW e \in Exec, NEW i \in Flow, Prepare(e, i) \/ Reconcile(e, i) \/ Assign(e, i) PROVE EInv'
    BY <1>0, <1>3, EachPrepare, EachEnds, EachAssign
  <1>4. ASSUME NEW e \in Exec, Admit(e) \/ Return(e) PROVE EInv'
    BY <1>0, <1>4, EachAdmit, EachReturn
  <1>5. CASE Edges \/ MarkSent \/ Close \/ Poll
    BY <1>0, <1>5, EachEdges, EachMarkSent, EachClose, EachPoll
  <1>6. CASE Started \/ Finish
    <2>1. 1 \in Flow
      BY GroupAssumption DEF Flow
    <2>2. cur[1] \in Exec
      BY <1>6 DEF Started, Finish, IInv, Control, ArenaType
    <2>3. QED
      BY <1>0, <1>6, <2>1, <2>2, EachQuiet
  <1>7. ASSUME NEW a \in Action, Register(a) \/ AppRun(a) \/ AppDies(a) PROVE EInv'
    BY <1>0, <1>7, WorldStep DEF Register, AppRun, AppDies, journalVars, runVars
  <1>8. ASSUME NEW d \in Exec \X Req, AppRunLate(d) PROVE EInv'
    BY <1>0, <1>8, WorldStep DEF AppRunLate, journalVars, runVars
  <1>9. QED
    BY <1>1, <1>2, <1>3, <1>4, <1>5, <1>6, <1>7, <1>8 DEF Next

\* In a graph of `each` an execution is before its region, within it or after it,
\* and what follows the region is delivered only when it is complete
\* (group_each_start, group_each_admit, group_each_collect, group_each_finish).
THEOREM RegionsAreOrdered ==
  ASSUME OneRegion
  PROVE  Spec => [](IInv /\ EInv /\ Unstarted)
  <1>1. IInv /\ EInv /\ Unstarted /\ [Next]_vars => (IInv /\ EInv /\ Unstarted)'
    BY NextIInv, NextEInv, NextUnstarted
  <1>2. QED
    BY <1>1, InitIInv, InitEInv, PTL DEF Spec

\* A set of deliveries that are routed to the numbers below n, one to each, has n
\* members.
LEMMA AsManyAsItems ==
  ASSUME NEW e \in Exec, route \in [Exec -> [Req -> Node \X Nat]], NEW n \in Nat, ItemsOnce(e),
         \A k \in 0 .. n - 1 : k \in Given(e),
         \A r \in Items(e) : route[e][r][2] \in 0 .. n - 1
  PROVE  Cardinality(Items(e)) = n
  <1> DEFINE S == Items(e)
             f == [r \in S |-> route[e][r][2] + 1]
  <1>1. \A r \in S : route[e][r] = <<ItemNode, route[e][r][2]>> /\ route[e][r][2] \in 0 .. n - 1
    <2>1. \A r \in S : r \in Req /\ route[e][r][1] = ItemNode
      BY DEF Items
    <2>2. \A r \in S : route[e][r] \in Node \X Nat
      BY <2>1
    <2>3. QED
      BY <2>1, <2>2
  <1>2. f \in Injection(S, 1 .. n)
    <2>1. f \in [S -> 1 .. n]
      BY <1>1
    <2>2. ASSUME NEW r \in S, NEW q \in S, f[r] = f[q] PROVE r = q
      <3>1. route[e][r][2] = route[e][q][2]
        <4>1. /\ f[r] = route[e][r][2] + 1 /\ f[q] = route[e][q][2] + 1
              /\ route[e][r][2] \in Int /\ route[e][q][2] \in Int
          BY <1>1
        <4>2. route[e][r][2] + 1 = route[e][q][2] + 1
          BY <2>2, <4>1
        <4>3. \A x, y \in Int : x + 1 = y + 1 => x = y
          OBVIOUS
        <4> HIDE DEF f, S
        <4>4. QED
          BY <4>1, <4>2, <4>3
      <3>2. route[e][r] = route[e][q]
        BY <1>1, <3>1
      <3>3. QED
        BY <3>2 DEF ItemsOnce
    <2> HIDE DEF f
    <2>3. QED
      BY <2>1, <2>2 DEF Injection, IsInjective
  <1>3. f \in Surjection(S, 1 .. n)
    <2>1. ASSUME NEW m \in 1 .. n PROVE \E r \in S : f[r] = m
      <3>1. m - 1 \in 0 .. n - 1 /\ (m - 1) + 1 = m
        OBVIOUS
      <3>2. m - 1 \in Given(e)
        BY <3>1
      <3>3. PICK r \in S : route[e][r] = <<ItemNode, m - 1>>
        BY <3>2 DEF Given
      <3>4. f[r] = m
        BY <3>1, <3>3
      <3>5. QED
        BY <3>4
    <2>2. f \in [S -> 1 .. n]
      BY <1>1
    <2> HIDE DEF f
    <2>3. QED
      BY <2>1, <2>2 DEF Surjection
  <1>4. f \in Bijection(S, 1 .. n)
    BY <1>2, <1>3 DEF Bijection
  <1>5. ExistsBijection(S, 1 .. n)
    BY <1>4 DEF ExistsBijection
  <1>6. IsFiniteSet(1 .. n) /\ Cardinality(1 .. n) = n
    BY FS_Interval
  <1>7. ExistsBijection(1 .. n, S)
    BY <1>5, Fun_ExistsBijSymmetric
  <1>8. QED
    BY <1>7, FS_CountingElements

\* What follows an each region is prepared only when every item has succeeded, each
\* in one delivery, whatever the order in which results arrive and whatever
\* fails (group_each_collect, group_each_admit).
THEOREM RegionsAreComplete ==
  ASSUME OneRegion
  PROVE  Spec => []CollectIsComplete
  <1>1. IInv /\ EInv => CollectIsComplete
    <2> SUFFICES ASSUME IInv, EInv, NEW e \in Exec, NEW g \in Node, Kind[g] = "each",
                        NEW r \in Req, jdel[e][r] # "none", route[e][r][1] = Collected[g].node
                 PROVE  LET items == {q \in Req : jdel[e][q] # "none" /\ route[e][q][1] = Template[g].node}
                        IN /\ Cardinality(items) = each[e].count \/ e \notin used
                           /\ \A q \in items : jdel[e][q] = "Success"
                           /\ \A q, p \in items : route[e][q] = route[e][p] => q = p
      BY DEF CollectIsComplete
    <2>1. g = Region
      BY RegionFacts
    <2>2. {q \in Req : jdel[e][q] # "none" /\ route[e][q][1] = Template[g].node} = Items(e)
      BY <2>1 DEF Items, ItemNode
    <2>3. Passed(e)
      BY <2>1 DEF Passed, NextNode
    <2>4. ItemsOnce(e) /\ Complete(e) /\ route \in [Exec -> [Req -> Node \X Nat]]
      BY DEF EInv, EJournal
    <2>5. each[e].count \in Nat
      BY DEF IInv, ArenaType, EachRecord
    <2>6. e \in used => Cardinality(Items(e)) = each[e].count
      BY <2>3, <2>4, <2>5, AsManyAsItems DEF Complete
    <2>7. QED
      BY <2>2, <2>3, <2>4, <2>6 DEF Complete, ItemsOnce
  <1>2. QED
    BY <1>1, RegionsAreOrdered, PTL

\* A step that ends the loop leaves the flows and their deliveries alone, and the
\* loop does not end within the chain.
LEMMA EndLeavesFlows ==
  ASSUME IInv, [Next]_vars, pc' = "ended" PROVE pc # "enter" /\ UNCHANGED <<flow, dlv, used>>
  <1>0. \A steps : GoOn(steps) /\ pc = "enter" => pc' # "ended"
    BY DEF IInv, LoopType, GoOn
  <1>1. ~Edges
    BY <1>0 DEF Edges, EnterAction, EnterFork, EnterDispatch, EnterJoin, CutFlow, EnterTerminal,
                MaybeComplete, EnterEach, AdmitItem, Collect, EachFinish, Entering
  <1>2. CASE UNCHANGED vars
    BY <1>2 DEF vars, runVars, pcVars
  <1>3. CASE Started \/ MarkSent \/ Close \/ Finish \/ Poll
    BY <1>3 DEF Started, MarkSent, Close, Finish, Poll, Rest, runVars
  <1>4. ASSUME NEW e \in Exec, Admit(e) \/ Return(e) PROVE FALSE
    BY <1>4 DEF Admit, Return, pcVars
  <1>5. ASSUME NEW e \in Exec, NEW i \in Flow, NEW o, NEW required, EndDelivery(e, i, o, required)
        PROVE  UNCHANGED <<flow, dlv, used>>
    BY <1>5 DEF EndDelivery, runVars
  <1>6. ASSUME NEW e \in Exec, NEW i \in Flow, SendFails(e, i) \/ Lose(e, i) \/ Reject(e, i)
        PROVE  pc # "enter" /\ UNCHANGED <<flow, dlv, used>>
    <2>1. pc # "enter"
      BY <1>6 DEF SendFails, Lose, Reject, Sending, Receiving
    <2>2. \E j \in Flow : \E o, required : EndDelivery(e, j, o, required)
      BY <1>6 DEF SendFails, Lose, Reject, Matching
    <2>3. QED
      BY <1>5, <2>1, <2>2
  <1>7. ASSUME NEW e \in Exec, NEW i \in Flow,
               \/ Send(e, i) \/ SendNowhere(e, i) \/ ReceiveNothing(e, i) \/ Accept(e, i)
               \/ Prepare(e, i) \/ Assign(e, i)
        PROVE  FALSE
    BY <1>7 DEF Send, SendNowhere, ReceiveNothing, Accept, Prepare, Assign, Rest, pcVars
  <1>8. ASSUME NEW e \in Exec, NEW i \in Flow, Reconcile(e, i) PROVE FALSE
    BY <1>8 DEF Reconcile, EndDelivery, pcVars
  <1>9. ASSUME NEW a \in Action, Register(a) \/ AppRun(a) \/ AppDies(a)
        PROVE  pc # "enter" /\ UNCHANGED <<flow, dlv, used>>
    BY <1>9 DEF Register, AppRun, AppDies, runVars, pcVars
  <1>10. ASSUME NEW d \in Exec \X Req, AppRunLate(d)
         PROVE  pc # "enter" /\ UNCHANGED <<flow, dlv, used>>
    BY <1>10 DEF AppRunLate, runVars, pcVars
  <1>11. QED
    BY <1>1, <1>2, <1>3, <1>4, <1>6, <1>7, <1>8, <1>9, <1>10 DEF Next, Served

\* While the loop runs, two sent flows that share an Action are items of one
\* region, and they are not more than it admits.
LEMMA FlightsAreSingle ==
  ASSUME OneRegion, IInv, EInv, pc # "ended" PROVE SingleFlight
  <1> DEFINE Sent(e, i) == flow[e][i].active /\ flow[e][i].state = "SENT"
  <1> SUFFICES ASSUME pc # "enter", NEW e \in used, NEW f \in used, NEW i \in Flow, NEW j \in Flow
               PROVE  /\ Sent(e, i) /\ Sent(f, j) /\ ActionAt(e, i) = ActionAt(f, j) =>
                           <<e, i>> = <<f, j>> \/ (e = f /\ SameRegion(e, i, j))
                      /\ Sent(e, i) /\ flow[e][i].region # "none" =>
                           Cardinality({k \in Flow : Sent(e, k) /\ SameRegion(e, i, k)})
                             <= Concurrency[flow[e][i].region]
    BY DEF SingleFlight
  <1>1. todo = <<>> /\ used \subseteq Exec
    BY DEF IInv, Control, ArenaType
  <1>2. Stage(e) /\ OwnersApart
    BY DEF EInv
  <1>3. ASSUME NEW g \in used, NEW k \in Flow, Sent(g, k) PROVE dlv[g][k].owns
    <2>1. Settled(g, k) /\ InStep(g, k)
      BY <1>1, <1>3, NothingBusy DEF IInv, Working
    <2>2. QED
      BY <1>3, <2>1 DEF InStep
  <1>4. e # f /\ Sent(e, i) /\ Sent(f, j) => ActionAt(e, i) # ActionAt(f, j)
    BY <1>1, <1>2, <1>3 DEF OwnersApart
  <1>5. ASSUME NEW S, Single(e, S)
        PROVE  \A k, l \in Flow : Sent(e, k) /\ Sent(e, l) => k = l /\ flow[e][k].region = "none"
    BY <1>5 DEF Single, Walks
  <1>6. ASSUME Within(e)
        PROVE  /\ \A k, l \in Flow : Sent(e, k) /\ Sent(e, l) => SameRegion(e, k, l)
               /\ \A k \in Flow : Sent(e, k) => flow[e][k].region = Region
    <2>1. \A k \in Flow : Sent(e, k) => flow[e][k].region = Region
      BY <1>6 DEF Within, Has
    <2>2. Region # "none"
      BY RegionFacts DEF OneRegion
    <2>3. QED
      BY <2>1, <2>2 DEF SameRegion
  <1>7. ASSUME Sent(e, i), flow[e][i].region # "none"
        PROVE  Cardinality({k \in Flow : Sent(e, k) /\ SameRegion(e, i, k)}) <= Concurrency[flow[e][i].region]
    <2> DEFINE T == {k \in Flow : Sent(e, k) /\ SameRegion(e, i, k)}
    <2>1. Within(e)
      BY <1>2, <1>5, <1>7 DEF Stage, Before, After
    <2>2. T \subseteq LiveFlows(e) /\ LiveFlows(e) \in SUBSET Flow
      BY DEF LiveFlows
    <2> HIDE DEF T
    <2>3. IsFiniteSet(LiveFlows(e))
      BY <2>2, LowestFlow
    <2>4. IsFiniteSet(T) /\ Cardinality(T) <= Cardinality(LiveFlows(e))
      BY <2>2, <2>3, FS_Subset
    <2>5. Cardinality(T) \in Nat /\ Cardinality(LiveFlows(e)) \in Nat
      BY <2>3, <2>4, FS_CardinalityType
    <2>6. Cardinality(LiveFlows(e)) <= Concurrency[Region] /\ Concurrency[Region] \in Nat
      BY <2>1, RegionFacts DEF Within, Counted
    <2>7. Cardinality(T) <= Concurrency[Region]
      BY <2>4, <2>5, <2>6
    <2>8. flow[e][i].region = Region
      BY <1>6, <1>7, <2>1
    <2>9. QED
      BY <2>7, <2>8 DEF T
  <1>8. ASSUME e = f, Sent(e, i), Sent(f, j) PROVE i = j \/ SameRegion(e, i, j)
    BY <1>2, <1>5, <1>6, <1>8 DEF Stage, Before, After
  <1>9. QED
    BY <1>4, <1>7, <1>8

\* "All other same-Action delivery remains single-flight", and the items of a
\* region are in flight in the number it admits, also when the loop has ended
\* (hermas_group_prepare, group_each_admit, action_owned_by_other).
THEOREM ItemsAreBounded ==
  ASSUME OneRegion
  PROVE  Spec => []SingleFlight
  <1>1. IInv /\ EInv /\ pc # "ended" => SingleFlight
    BY FlightsAreSingle
  <1>2. Init => SingleFlight
    <2>1. Init => pc # "ended"
      BY DEF Init
    <2>2. QED
      BY <1>1, <2>1, InitIInv, InitEInv
  <1>3. (IInv /\ EInv /\ Unstarted) /\ SingleFlight /\ [Next]_vars => SingleFlight'
    <2> SUFFICES ASSUME IInv, EInv, Unstarted, SingleFlight, [Next]_vars PROVE SingleFlight'
      OBVIOUS
    <2>1. CASE pc' # "ended"
      <3>1. IInv' /\ EInv'
        BY NextIInv, NextEInv
      <3>2. (IInv /\ EInv /\ pc # "ended" => SingleFlight)'
        BY <1>1, PTL
      <3>3. QED
        BY <2>1, <3>1, <3>2
    <2>2. CASE pc' = "ended"
      <3>1. pc # "enter" /\ UNCHANGED <<flow, dlv, used>>
        BY <2>2, EndLeavesFlows
      <3>2. QED
        BY <2>2, <3>1 DEF SingleFlight, SameRegion, ActionAt
    <2>3. QED
      BY <2>1, <2>2
  <1>4. QED
    BY <1>2, <1>3, RegionsAreOrdered, PTL DEF Spec

\* A flow that is at work in a graph of `each` and awaits nothing is ready, or is an
\* item that has succeeded.
LEMMA IdleWorkers ==
  ASSUME IInv, NEW e \in Exec, Stage(e), NEW i \in Flow, pc = "round",
         flow[e][i].active, flow[e][i].state \notin {"PREPARED", "SENT"}
  PROVE  flow[e][i].state = "READY" \/ jdel[e][dlv[e][i].req] = "Success"
  <1>1. Settled(e, i) /\ Winner(e) = {}
    BY NothingBusy DEF IInv, Control, Winner
  <1>2. CASE \E S : Single(e, S)
    BY <1>1, <1>2 DEF Single, Walks
  <1>3. CASE Within(e)
    BY <1>1, <1>3 DEF Within, Works, Good
  <1>4. QED
    BY <1>2, <1>3 DEF Stage, Before, After

\* The steps that end the loop.
LEMMA EachLoopEnds ==
  ASSUME OneRegion, IInv, EInv, Next PROVE EndStep
  <1> SUFFICES ASSUME pc # "ended", pc' = "ended" PROVE EndStep
    BY DEF EndStep
  <1>0. used \subseteq Exec /\ round \subseteq used \X Flow /\ \A e \in used : Stage(e)
    BY DEF IInv, Control, ArenaType, EInv
  <1>1. ASSUME NEW e \in Exec, NEW i \in Flow, SendFails(e, i) PROVE EndStep
    <2>1. /\ flow[e][i].state = "PREPARED" /\ EndDelivery(e, i, "NotSent", "PREPARED")
      BY <1>1 DEF SendFails, Sending
    <2>2. cur' = <<e, i>> /\ ~(flow[e][i].active /\ flow[e][i].state = "PREPARED")
      BY <2>1 DEF EndDelivery
    <2>3. QED
      BY <2>1, <2>2 DEF EndStep
  <1>2. ASSUME NEW e \in Exec, NEW i \in Flow, Receiving(e, i), EndDelivery(e, i, "Unknown", "SENT")
        PROVE  EndStep
    <2>1. cur' = <<e, i>> /\ ~(flow[e][i].active /\ flow[e][i].state = "SENT")
      BY <1>2 DEF EndDelivery
    <2>2. pc = "round" /\ <<e, i>> \in round /\ flow[e][i].state # "PREPARED"
      BY <1>2 DEF Receiving, First
    <2>3. Stage(e)
      BY <1>0, <2>2
    <2>4. flow[e][i].active => flow[e][i].state = "READY" \/ jdel[e][dlv[e][i].req] = "Success"
      BY <2>1, <2>2, <2>3, IdleWorkers
    <2>5. QED
      BY <2>1, <2>4 DEF EndStep, Outcome
  <1>3. ASSUME NEW e \in Exec, NEW i \in Flow, Lose(e, i) PROVE EndStep
    BY <1>2, <1>3 DEF Lose
  <1>4. ASSUME NEW e \in Exec, NEW i \in Flow, Reject(e, i) PROVE EndStep
    <2>1. Receiving(e, i)
      BY <1>4 DEF Reject
    <2>2. PICK j \in Matching(e, ActionAt(e, i), Head(answers[ActionAt(e, i)])) \cup {i} :
            EndDelivery(e, j, "Unknown", "SENT")
      BY <1>4 DEF Reject
    <2>3. j = i
      BY <2>2 DEF Matching, EndDelivery
    <2>4. QED
      BY <1>2, <2>1, <2>2, <2>3
  <1>5. CASE MarkSent
    <2>1. ~flow[cur[1]][cur[2]].active /\ UNCHANGED cur
      BY <1>5 DEF MarkSent, Rest
    <2>2. QED
      BY <2>1 DEF EndStep
  <1>6. ASSUME NEW e \in Exec, NEW i \in Flow, Reconcile(e, i) PROVE FALSE
    BY <1>6 DEF Reconcile, EndDelivery, pcVars
  <1>7. ASSUME NEW e \in Exec, NEW i \in Flow,
               \/ Send(e, i) \/ SendNowhere(e, i) \/ ReceiveNothing(e, i) \/ Accept(e, i)
               \/ Prepare(e, i) \/ Assign(e, i)
        PROVE  FALSE
    BY <1>7 DEF Send, SendNowhere, ReceiveNothing, Accept, Prepare, Assign, Rest, pcVars
  <1>8. ASSUME NEW e \in Exec, Admit(e) \/ Return(e) PROVE FALSE
    BY <1>8 DEF Admit, Return, pcVars
  <1>9. ~(Started \/ Close \/ Finish \/ Poll)
    BY DEF Started, Close, Finish, Poll, Rest
  <1>10. ~Edges
    <2>1. \A steps : GoOn(steps) /\ pc = "enter" => pc' # "ended"
      BY DEF IInv, LoopType, GoOn
    <2>2. QED
      BY <2>1 DEF Edges, EnterAction, EnterFork, EnterDispatch, EnterJoin, CutFlow, EnterTerminal,
                  MaybeComplete, EnterEach, AdmitItem, Collect, EachFinish, Entering
  <1>11. ASSUME NEW a \in Action, Register(a) \/ AppRun(a) \/ AppDies(a) PROVE FALSE
    BY <1>11 DEF Register, AppRun, AppDies, pcVars
  <1>12. ASSUME NEW d \in Exec \X Req, AppRunLate(d) PROVE FALSE
    BY <1>12 DEF AppRunLate, pcVars
  <1>13. QED
    BY <1>1, <1>3, <1>4, <1>5, <1>6, <1>7, <1>8, <1>9, <1>10, <1>11, <1>12 DEF Next, Served

\* In a graph of `each` too the loop ends with an error only over an entry of the
\* round that an earlier entry has overtaken: the flow was cut off, was given
\* another item, or waits with an item that has succeeded
\* (hermas_group_mark_sent, group_delivery_outcome).
THEOREM OnlyStaleItemsEndTheLoop ==
  ASSUME OneRegion
  PROVE  Spec => EndsOnlyOverStaleEntry
  <1>1. (IInv /\ EInv /\ Unstarted) /\ [Next]_vars => [EndStep]_vars
    BY EachLoopEnds
  <1>2. QED
    BY <1>1, RegionsAreOrdered, PTL DEF Spec, EndsOnlyOverStaleEntry, EndStep
=============================================================================
