----------------------------- MODULE GroupOrder -----------------------------
(***************************************************************************)
(* The order of deliveries in an `all` graph: a Join lets nothing pass     *)
(* before every Action that enters it has succeeded, and no node is        *)
(* delivered twice.                                                        *)
(*                                                                         *)
(* The argument follows the flows of an execution as marks on the graph.   *)
(* In every state no mark can move to the place of another (Apart) or to a *)
(* node that was delivered before (DeliveriesPassed).  A step moves marks  *)
(* along edges, and since one edge leads into a place, whatever leads to   *)
(* the new place leads to the old one: the marks stay apart (MarksMove,    *)
(* OrderMoves).  A Join needs one flow at every tag, so that behind it     *)
(* everything in front of it has succeeded (Entered).  Failures only take  *)
(* marks away.                                                             *)
(***************************************************************************)
EXTENDS GroupProofs

-----------------------------------------------------------------------------
(* The marks of an execution *)

\* The flows that the chain has still to cut at a Join.
CutsLeft == {k \in DOMAIN todo : todo[k].op = "cut"}
Doomed(e) == IF e = cur[1] THEN UNION {todo[k].flows : k \in CutsLeft} ELSE {}

\* Where a flow waits that has arrived at a Join.
Waiting(e, i) == <<flow[e][i].join, flow[e][i].tag>>

\* A flow is at a place: the chain is about to enter it there, or it works or
\* waits there.  A flow and its place are a mark.
OnEdge(e, i, p) ==
  \E k \in EdgesLeft : /\ e = cur[1] /\ todo[k].i = i
                       /\ Kind[todo[k].to.node] # "end" /\ p = Place(todo[k].to)
AtNode(e, i, p) ==
  /\ Settled(e, i) /\ i \notin Doomed(e)
  /\ \/ flow[e][i].state \in {"READY", "PREPARED", "SENT"} /\ p = <<flow[e][i].node, 0>>
     \/ flow[e][i].state = "WAITING" /\ p = Waiting(e, i)
Tokens(e) == {x \in Flow \X Places : OnEdge(e, x[1], x[2]) \/ AtNode(e, x[1], x[2])}

\* A flow has one mark, and no mark can move to the place of another.
Apart(T) == \A x, y \in T : x[1] = y[1] \/ Leads(x[2], y[2]) => x = y

\* The chain: every edge is for another flow, which runs and is not cut; an edge
\* that carries no success is the only one left, or a branch of a Fork with
\* nothing but such branches before it; the flows to be cut wait at a Join.
Chain ==
  /\ \A k, l \in EdgesLeft : todo[k].i = todo[l].i => k = l
  /\ \A k \in EdgesLeft :
       /\ flow[cur[1]][todo[k].i].active /\ todo[k].i \notin Doomed(cur[1])
       /\ Kind[todo[k].to.node] = "join" => todo[k].to.tag \in 1 .. JoinSize[todo[k].to.node]
       /\ \/ todo[k].o = "Success"
          \/ DOMAIN todo = {1}
          \/ /\ todo[k].o = "none" /\ todo[k].to.node \in BranchNodes
             /\ \A l \in 1 .. k : todo[l].op = "edge" /\ todo[l].o = "none"
  /\ \A k, l \in CutsLeft : todo[k].flows \cap todo[l].flows # {} => k = l
  /\ \A i \in Doomed(cur[1]) : flow[cur[1]][i].active /\ flow[cur[1]][i].state = "WAITING"

\* The flows that still say they wait at a Join which is resolved, and that no
\* mark can reach this Join any more.
Behind(e) ==
  Doomed(e) \cup (IF e = cur[1] THEN {todo[k].i : k \in {l \in EdgesLeft : todo[l].o = "Success"}}
                  ELSE {})
JoinsPassed(e) ==
  \A i \in Behind(e), x \in Tokens(e) : flow[e][i].state = "WAITING" /\ Kind[flow[e][i].join] = "join" =>
    \A k \in 1 .. JoinSize[flow[e][i].join] : ~Leads(x[2], <<flow[e][i].join, k>>)

\* A flow that is prepared or sent carries a delivery of its node, and one that
\* waits does so at a tag of a Join.
Carries(e, i, r) ==
  Settled(e, i) /\ flow[e][i].state \in {"PREPARED", "SENT"} /\ dlv[e][i].req = r
Routed(e) == \A i \in Flow :
  Settled(e, i) /\ flow[e][i].state \in {"PREPARED", "SENT"} =>
    dlv[e][i].node = flow[e][i].node /\ route[e][dlv[e][i].req][1] = flow[e][i].node
Tagged(e) == \A i \in Flow :
  Settled(e, i) /\ flow[e][i].state = "WAITING" => Waiting(e, i) \in Places /\ Kind[flow[e][i].join] = "join"

\* No mark can reach a node that was delivered, except where it carries that
\* delivery.
DeliveriesPassed(e) ==
  \A x \in Tokens(e), r \in Req :
    jdel[e][r] # "none" /\ Leads(x[2], <<route[e][r][1], 0>>) => Carries(e, x[1], r)

\* The node has succeeded, by its closing fact or by the success that is being
\* accepted and has no closing fact yet.
Winning(e, n) ==
  /\ pc = "closing" \/ (pc = "enter" /\ after = "closing")
  /\ cur[1] = e /\ verdict = "Success" /\ route[e][dlv[e][cur[2]].req][1] = n
Won(e, n) == Succeeded(e, n) # {} \/ Winning(e, n)

\* The Actions whose success edge enters a Join; a mark is at the tag of such an
\* Action only when it has succeeded, and behind the Join only when all have.
Entrants(j) == {n \in Node : Kind[n] = "action" /\ OnSuccess[n].node = j}
MayEnter(e, q) ==
  \A j \in Node : Kind[j] = "join" => \A n \in Entrants(j) :
    /\ q = Place(OnSuccess[n]) => Won(e, n)
    /\ \A k \in DOMAIN JoinOut[j] : q = Place(JoinOut[j][k]) => Won(e, n)
Entered(e) == \A x \in Tokens(e) : MayEnter(e, x[2])

\* The order of one execution.
InOrder(e) ==
  /\ Routed(e) /\ Tagged(e) /\ Apart(Tokens(e)) /\ JoinsPassed(e) /\ DeliveriesPassed(e)
  /\ Entered(e)

\* What the journal says: only Actions are delivered, ...
ActionsDelivered ==
  \A e \in Exec, r \in Req : jdel[e][r] # "none" =>
    route[e][r][1] \in Node /\ Kind[route[e][r][1]] = "action"

\* ... no node is delivered twice in one execution (group_enter_edge hands a flow
\* on only along the edge it has taken) ...
NodesRunOnce ==
  \A e \in Exec : \A r, q \in Req :
    jdel[e][r] # "none" /\ jdel[e][q] # "none" /\ route[e][r][1] = route[e][q][1] => r = q

\* ... and what follows a Join only after all that enter it.
JoinsWaited(e) ==
  \A j \in Node, r \in Req : Kind[j] = "join" => \A k \in DOMAIN JoinOut[j], n \in Entrants(j) :
    jdel[e][r] # "none" /\ route[e][r][1] = JoinOut[j][k].node => Succeeded(e, n) # {}

\* What holds of the journal, even when the loop has ended.
JInv == /\ route \in [Exec -> [Req -> Node \X Nat]]
        /\ ActionsDelivered /\ NodesRunOnce /\ \A e \in Exec : JoinsWaited(e)

\* The inductive invariant, next to IInv and AInv.
TInv ==
  /\ JInv
  /\ pc # "ended" => Chain /\ \A e \in Exec : InOrder(e)

-----------------------------------------------------------------------------
(* The graph *)

\* The places behind a place are closed under the edges of the graph.
LEMMA LeadsToItself ==
  ASSUME NEW p \in Places PROVE Leads(p, p)
  BY DEF Leads

\* A way goes on along an edge ...
LEMMA LeadsOn ==
  ASSUME NEW p \in Places, NEW q \in Places, NEW r \in Places, Leads(p, q), Follows(q, r)
  PROVE  Leads(p, r)
  <1> SUFFICES ASSUME NEW S \in SUBSET Places, p \in S, Closed(S) PROVE r \in S
    BY DEF Leads
  <1>1. q \in S
    BY DEF Leads
  <1>2. QED
    BY <1>1 DEF Closed

\* ... and may begin one edge earlier.
LEMMA LeadsFrom ==
  ASSUME NEW p \in Places, NEW q \in Places, NEW r \in Places, Follows(p, q), Leads(q, r)
  PROVE  Leads(p, r)
  <1> SUFFICES ASSUME NEW S \in SUBSET Places, p \in S, Closed(S) PROVE r \in S
    BY DEF Leads
  <1>1. q \in S
    BY DEF Closed
  <1>2. QED
    BY <1>1 DEF Leads

\* A way to another place ends with an edge into that place.
LEMMA LastEdge ==
  ASSUME NEW p \in Places, NEW q \in Places, Leads(p, q), p # q
  PROVE  \E r \in Places : Follows(r, q) /\ Leads(p, r)
  <1> SUFFICES ASSUME \A r \in Places : ~(Follows(r, q) /\ Leads(p, r)) PROVE FALSE
    OBVIOUS
  <1> DEFINE S == {x \in Places : Leads(p, x) /\ x # q}
  <1>1. S \in SUBSET Places /\ p \in S
    BY LeadsToItself
  <1>2. Closed(S)
    <2> SUFFICES ASSUME NEW x \in S, NEW y \in Places, Follows(x, y) PROVE y \in S
      BY DEF Closed
    <2>1. x \in Places /\ Leads(p, x) /\ y # q
      OBVIOUS
    <2>2. Leads(p, y)
      BY <2>1, LeadsOn
    <2>3. QED
      BY <2>1, <2>2
  <1>3. q \in S
    <2> HIDE DEF S
    <2>1. QED
      BY <1>1, <1>2 DEF Leads
  <1>4. QED
    BY <1>3

\* The marks M of a set that is apart move along edges of the graph to W, and every
\* way into W comes from one of them: the marks are apart again.
LEMMA MarksMove ==
  ASSUME Acyclic, NEW T \in SUBSET (Flow \X Places), Apart(T), NEW M \in SUBSET T,
         NEW W \in SUBSET (Flow \X Places),
         \A w \in W : \E x \in M : Follows(x[2], w[2]),
         \A w \in W, p \in Places : Follows(p, w[2]) => \E x \in M : x[2] = p,
         \A v, w \in W : v[1] = w[1] \/ v[2] = w[2] => v = w,
         \A w \in W, x \in T \ M : w[1] # x[1]
  PROVE  Apart((T \ M) \cup W)
  <1>0. \A x \in T \cup W : x[1] \in Flow /\ x[2] \in Places /\ x = <<x[1], x[2]>>
    OBVIOUS
  <1>1. ASSUME NEW x \in T \ M, NEW w \in W PROVE ~Leads(x[2], w[2])
    <2> SUFFICES ASSUME Leads(x[2], w[2]) PROVE FALSE
      OBVIOUS
    <2>1. PICK m \in M : Follows(m[2], w[2])
      OBVIOUS
    <2>2. CASE x[2] = w[2]
      <3>1. Leads(m[2], x[2])
        BY <1>0, <2>1, <2>2, LeadsToItself, LeadsFrom
      <3>2. QED
        BY <3>1 DEF Apart
    <2>3. CASE x[2] # w[2]
      <3>1. PICK p \in Places : Follows(p, w[2]) /\ Leads(x[2], p)
        BY <1>0, <2>3, LastEdge
      <3>2. PICK y \in M : y[2] = p
        BY <3>1
      <3>3. QED
        BY <3>1, <3>2 DEF Apart
    <2>4. QED
      BY <2>2, <2>3
  <1>2. ASSUME NEW x \in T \ M, NEW w \in W PROVE ~Leads(w[2], x[2])
    <2> SUFFICES ASSUME Leads(w[2], x[2]) PROVE FALSE
      OBVIOUS
    <2>1. PICK m \in M : Follows(m[2], w[2])
      OBVIOUS
    <2>2. Leads(m[2], x[2])
      BY <1>0, <2>1, LeadsFrom
    <2>3. QED
      BY <2>2 DEF Apart
  <1>3. ASSUME NEW v \in W, NEW w \in W, Leads(v[2], w[2]) PROVE v = w
    <2>1. CASE v[2] = w[2]
      BY <2>1
    <2>2. CASE v[2] # w[2]
      <3>1. PICK p \in Places : Follows(p, w[2]) /\ Leads(v[2], p)
        BY <1>0, <1>3, <2>2, LastEdge
      <3>2. PICK y \in M : y[2] = p
        BY <3>1
      <3>3. PICK m \in M : Follows(m[2], v[2])
        OBVIOUS
      <3>4. Leads(m[2], p)
        BY <1>0, <3>1, <3>3, LeadsFrom
      <3>5. m = y
        BY <3>2, <3>4 DEF Apart
      <3>6. QED
        BY <1>0, <3>1, <3>2, <3>3, <3>5 DEF Acyclic
    <2>3. QED
      BY <2>1, <2>2
  <1>4. QED
    BY <1>1, <1>2, <1>3 DEF Apart

\* The place of an edge is a place of the graph.
LEMMA PlaceOfTarget ==
  ASSUME NEW t \in Target, Kind[t.node] = "join" => t.tag \in 1 .. JoinSize[t.node]
  PROVE  Place(t) \in Places /\ Place(t)[1] = t.node
  BY GroupAssumption DEF Place, Places, Target

\* The edges out of a node lead to targets.
LEMMA ExitIsTarget ==
  ASSUME NEW n \in Node, NEW t \in Exits(n) PROVE t \in Target
  <1>1. CASE Kind[n] = "action"
    BY <1>1, GroupAssumption DEF Exits
  <1>2. CASE Kind[n] = "fork"
    BY <1>2, GroupAssumption DEF Exits
  <1>3. CASE Kind[n] = "dispatch"
    BY <1>3, GroupAssumption DEF Exits
  <1>4. CASE Kind[n] = "join"
    BY <1>4, GroupAssumption DEF Exits
  <1>5. QED
    BY <1>1, <1>2, <1>3, <1>4 DEF Exits

\* Only the node that an edge leaves leads to its place.
LEMMA OneSource ==
  ASSUME OneWayIn, JoinTags, NEW n \in Node, NEW t \in Exits(n), Kind[t.node] # "end",
         NEW p \in Places, Follows(p, Place(t))
  PROVE  p[1] = n
  <1>1. PICK u \in Exits(p[1]) : Kind[u.node] # "end" /\ Place(t) = Place(u)
    BY DEF Follows
  <1>2. p[1] \in Node
    BY DEF Places
  <1>3. QED
    BY <1>1, <1>2 DEF OneWayIn

-----------------------------------------------------------------------------
(* How the marks of an execution move *)

\* The marks of T in M move along edges to W, which nothing else leads to.
Shifts(T, M, W) ==
  /\ M \subseteq T /\ W \subseteq Flow \X Places
  /\ \A w \in W : /\ \E x \in M : Follows(x[2], w[2])
                  /\ \A p \in Places : Follows(p, w[2]) => \E x \in M : x[2] = p
                  /\ \A v \in W : v[1] = w[1] \/ v[2] = w[2] => v = w
                  /\ \A x \in T \ M : w[1] # x[1]

\* A flow that waits behind the chain: it was left there before, or nothing leads
\* to its Join any more.
StaysBehind(e, i) ==
  flow'[e][i].state = "WAITING" /\ Kind[flow'[e][i].join] = "join" =>
    \/ /\ i \in Behind(e) /\ flow[e][i].state = "WAITING" /\ flow'[e][i].join = flow[e][i].join
    \/ \A x \in Tokens(e)', k \in 1 .. JoinSize[flow'[e][i].join] :
         ~Leads(x[2], <<flow'[e][i].join, k>>)

\* The order is kept when marks move along the edges of the graph.
LEMMA OrderMoves ==
  ASSUME Acyclic, NEW e \in Exec, InOrder(e), NEW M, NEW W, Shifts(Tokens(e), M, W),
         Tokens(e)' \subseteq (Tokens(e) \ M) \cup W,
         Routed(e)', Tagged(e)',
         \A r \in Req : jdel'[e][r] # "none" => jdel[e][r] # "none",
         \A r \in Req : jdel[e][r] # "none" =>
           route'[e][r][1] = route[e][r][1] /\ <<route[e][r][1], 0>> \in Places,
         \A x \in M, r \in Req : Carries(e, x[1], r) => x[2] = <<route[e][r][1], 0>>,
         \A x \in Tokens(e) \ M, r \in Req :
           x \in Tokens(e)' /\ Carries(e, x[1], r) => Carries(e, x[1], r)',
         \A n \in Node : Won(e, n) => Won(e, n)',
         \A w \in W : MayEnter(e, w[2])',
         \A i \in Behind(e)' : StaysBehind(e, i),
         \A i \in Behind(e), k \in Nat :
           flow[e][i].state = "WAITING" /\ Kind[flow[e][i].join] = "join"
             /\ k \in 1 .. JoinSize[flow[e][i].join] => <<flow[e][i].join, k>> \in Places
  PROVE  InOrder(e)'
  <1> DEFINE T == Tokens(e)
  <1>0. /\ T \in SUBSET (Flow \X Places) /\ Apart(T) /\ M \in SUBSET T
        /\ W \in SUBSET (Flow \X Places)
        /\ \A x \in T \cup W : x[2] \in Places
    BY DEF Shifts, Tokens, InOrder
  <1>1. Apart((T \ M) \cup W)
    <2> HIDE DEF T
    <2>1. QED
      BY <1>0, MarksMove DEF Shifts, T
  <1>2. Apart(Tokens(e))'
    <2>1. Tokens(e)' \subseteq (T \ M) \cup W
      OBVIOUS
    <2> HIDE DEF T
    <2>2. \A x, y \in Tokens(e)' : x[1] = y[1] \/ Leads(x[2], y[2]) => x = y
      BY <1>1, <2>1 DEF Apart
    <2>3. QED
      BY <2>2 DEF Apart, Leads, Closed, Follows
  <1>3. ASSUME NEW w \in W, NEW q \in Places, Leads(w[2], q)
        PROVE  \E x \in M : Leads(x[2], q) /\ Follows(x[2], w[2])
    <2>1. PICK x \in M : Follows(x[2], w[2])
      BY DEF Shifts
    <2>2. x[2] \in Places /\ w[2] \in Places
      BY <1>0
    <2>3. QED
      BY <1>3, <2>1, <2>2, LeadsFrom
  <1>4. DeliveriesPassed(e)'
    <2> SUFFICES ASSUME NEW x \in Tokens(e)', NEW r \in Req, jdel'[e][r] # "none",
                        Leads(x[2], <<route'[e][r][1], 0>>)
                 PROVE  Carries(e, x[1], r)'
      BY DEF DeliveriesPassed, Leads, Closed, Follows
    <2>1. jdel[e][r] # "none" /\ Leads(x[2], <<route[e][r][1], 0>>) /\ <<route[e][r][1], 0>> \in Places
      OBVIOUS
    <2>2. CASE x \in T \ M
      BY <2>1, <2>2 DEF InOrder, DeliveriesPassed
    <2>3. CASE x \in W
      <3>1. PICK y \in M : Leads(y[2], <<route[e][r][1], 0>>) /\ Follows(y[2], x[2])
        BY <1>3, <2>1, <2>3
      <3>2. Carries(e, y[1], r)
        BY <1>0, <2>1, <3>1 DEF InOrder, DeliveriesPassed
      <3>3. y[2] = <<route[e][r][1], 0>>
        BY <3>2
      <3>4. QED
        BY <1>0, <2>1, <2>3, <3>1, <3>3 DEF Acyclic
    <2>4. QED
      BY <2>2, <2>3
  <1>5. Entered(e)'
    <2> SUFFICES ASSUME NEW x \in Tokens(e)' PROVE MayEnter(e, x[2])'
      BY DEF Entered
    <2>1. CASE x \in T \ M
      <3>1. MayEnter(e, x[2])
        BY <2>1 DEF InOrder, Entered
      <3>2. QED
        BY <3>1 DEF MayEnter, Entrants
    <2>2. CASE x \in W
      BY <2>2
    <2>3. QED
      BY <2>1, <2>2
  <1>6. JoinsPassed(e)'
    <2> SUFFICES ASSUME NEW i \in Behind(e)', NEW x \in Tokens(e)',
                        flow'[e][i].state = "WAITING", Kind[flow'[e][i].join] = "join",
                        NEW k \in 1 .. JoinSize[flow'[e][i].join],
                        Leads(x[2], <<flow'[e][i].join, k>>)
                 PROVE  FALSE
      BY DEF JoinsPassed, Leads, Closed, Follows
    <2>1. /\ i \in Behind(e) /\ flow[e][i].state = "WAITING" /\ flow'[e][i].join = flow[e][i].join
      BY DEF StaysBehind
    <2> DEFINE q == <<flow[e][i].join, k>>
    <2>2. q \in Places /\ Leads(x[2], q)
      BY <2>1
    <2>3. \A y \in T : ~Leads(y[2], q)
      BY <2>1 DEF InOrder, JoinsPassed
    <2> HIDE DEF q
    <2>4. CASE x \in T \ M
      BY <2>2, <2>3, <2>4
    <2>5. CASE x \in W
      BY <1>0, <1>3, <2>2, <2>3, <2>5
    <2>6. QED
      BY <2>4, <2>5
  <1>7. QED
    BY <1>2, <1>4, <1>5, <1>6 DEF InOrder

-----------------------------------------------------------------------------
(* The chain of edges *)

\* What is left of the chain after a step: the steps it asked for, then the rest.
LEMMA ChainIndex ==
  ASSUME todo \in Seq(ChainStep), todo # <<>>, NEW steps \in Seq(ChainStep), GoOn(steps)
  PROVE  /\ todo' \in Seq(ChainStep) /\ UNCHANGED <<cur, verdict, after>>
         /\ pc' = IF todo' = <<>> THEN after ELSE "enter"
         /\ Len(steps) \in Nat /\ Len(todo) \in Nat \ {0} /\ DOMAIN steps = 1 .. Len(steps)
         /\ DOMAIN todo = 1 .. Len(todo) /\ Head(todo) = todo[1]
         /\ DOMAIN todo' = 1 .. Len(steps) + Len(todo) - 1
         /\ \A k \in DOMAIN steps : k \in DOMAIN todo' /\ todo'[k] = steps[k]
         /\ \A m \in 2 .. Len(todo) : /\ m + Len(steps) - 1 \in DOMAIN todo'
                                      /\ todo'[m + Len(steps) - 1] = todo[m]
         /\ \A k \in DOMAIN todo' :
              \/ k \in DOMAIN steps
              \/ \E m \in 2 .. Len(todo) : k = m + Len(steps) - 1
  <1> DEFINE rest == Tail(todo)
  <1>1. /\ rest \in Seq(ChainStep) /\ Len(rest) = Len(todo) - 1 /\ Len(todo) \in Nat \ {0}
        /\ \A k \in 1 .. Len(rest) : rest[k] = todo[k + 1]
        /\ Len(steps) \in Nat /\ DOMAIN steps = 1 .. Len(steps)
        /\ DOMAIN todo = 1 .. Len(todo) /\ Head(todo) = todo[1]
    OBVIOUS
  <1>2. /\ todo' = steps \o rest /\ pc' = (IF todo' = <<>> THEN after ELSE "enter")
        /\ UNCHANGED <<cur, verdict, after>>
    BY DEF GoOn
  <1> HIDE DEF rest
  <1>3. /\ todo' \in Seq(ChainStep) /\ Len(todo') = Len(steps) + Len(rest)
        /\ DOMAIN todo' = 1 .. Len(todo')
        /\ \A k \in 1 .. Len(steps) + Len(rest) :
             todo'[k] = IF k <= Len(steps) THEN steps[k] ELSE rest[k - Len(steps)]
    <2>1. /\ todo' \in Seq(ChainStep) /\ Len(todo') = Len(steps) + Len(rest)
          /\ \A k \in 1 .. Len(steps) + Len(rest) :
               todo'[k] = IF k <= Len(steps) THEN steps[k] ELSE rest[k - Len(steps)]
      BY <1>1, <1>2, ConcatProperties
    <2>2. QED
      BY <2>1
  <1>4. DOMAIN todo' = 1 .. Len(steps) + Len(todo) - 1
    BY <1>1, <1>3
  <1>5. \A k \in DOMAIN steps : k \in DOMAIN todo' /\ todo'[k] = steps[k]
    BY <1>1, <1>3, <1>4
  <1>6. ASSUME NEW m \in 2 .. Len(todo)
        PROVE  /\ m + Len(steps) - 1 \in DOMAIN todo'
               /\ todo'[m + Len(steps) - 1] = todo[m]
    <2>1. /\ m - 1 \in 1 .. Len(rest) /\ rest[m - 1] = todo[m]
          /\ m + Len(steps) - 1 \in 1 .. Len(steps) + Len(rest) /\ ~(m + Len(steps) - 1 <= Len(steps))
          /\ (m + Len(steps) - 1) - Len(steps) = m - 1
      BY <1>1
    <2>2. QED
      BY <1>1, <1>3, <1>4, <2>1
  <1>7. ASSUME NEW k \in DOMAIN todo', k \notin DOMAIN steps
        PROVE  \E m \in 2 .. Len(todo) : k = m + Len(steps) - 1
    <2>1. k - Len(steps) + 1 \in 2 .. Len(todo) /\ k = (k - Len(steps) + 1) + Len(steps) - 1
      BY <1>1, <1>4, <1>7
    <2>2. QED
      BY <2>1
  <1>8. QED
    BY <1>1, <1>2, <1>3, <1>4, <1>5, <1>6, <1>7

\* The edges and the cuts that wait behind the head of the chain.
EdgesBehind == {m \in 2 .. Len(todo) : todo[m].op = "edge"}
CutBehind   == UNION {todo[m].flows : m \in {l \in 2 .. Len(todo) : todo[l].op = "cut"}}

\* The edges and the cuts among the steps that an action asks for.
StepEdges(steps) == {k \in DOMAIN steps : steps[k].op = "edge"}
StepCuts(steps)  == UNION {steps[k].flows : k \in {l \in DOMAIN steps : steps[l].op = "cut"}}

\* Which flows the chain waits for, and which it will cut, after a step.
LEMMA ChainSets ==
  ASSUME todo \in Seq(ChainStep), todo # <<>>, NEW steps \in Seq(ChainStep), GoOn(steps)
  PROVE  /\ Doomed(cur[1])' = StepCuts(steps) \cup CutBehind
         /\ Doomed(cur[1]) = CutBehind \cup (IF Head(todo).op = "cut" THEN Head(todo).flows ELSE {})
         /\ Busy(cur[1])' = {steps[k].i : k \in StepEdges(steps)} \cup {todo[m].i : m \in EdgesBehind}
         /\ Busy(cur[1]) = {todo[m].i : m \in EdgesBehind}
                             \cup (IF Head(todo).op = "edge" THEN {Head(todo).i} ELSE {})
  <1>1. /\ UNCHANGED cur /\ DOMAIN steps = 1 .. Len(steps) /\ Len(todo) \in Nat \ {0}
        /\ DOMAIN todo = 1 .. Len(todo) /\ Head(todo) = todo[1]
        /\ \A k \in DOMAIN steps : k \in DOMAIN todo' /\ todo'[k] = steps[k]
        /\ \A m \in 2 .. Len(todo) : /\ m + Len(steps) - 1 \in DOMAIN todo'
                                     /\ todo'[m + Len(steps) - 1] = todo[m]
        /\ \A k \in DOMAIN todo' :
             \/ k \in DOMAIN steps
             \/ \E m \in 2 .. Len(todo) : k = m + Len(steps) - 1
    BY ChainIndex
  <1>2. /\ \A m \in DOMAIN todo : m = 1 \/ m \in 2 .. Len(todo)
        /\ 1 \in DOMAIN todo /\ 2 .. Len(todo) \subseteq DOMAIN todo
    BY <1>1
  <1>3. Doomed(cur[1]) = CutBehind \cup (IF Head(todo).op = "cut" THEN Head(todo).flows ELSE {})
    BY <1>1, <1>2 DEF Doomed, CutsLeft, CutBehind
  <1>4. Busy(cur[1]) = {todo[m].i : m \in EdgesBehind}
                         \cup (IF Head(todo).op = "edge" THEN {Head(todo).i} ELSE {})
    <2>1. Busy(cur[1]) = {todo[k].i : k \in {l \in DOMAIN todo : todo[l].op = "edge"}}
      BY DEF Busy, EdgesLeft
    <2>2. ASSUME NEW i \in Busy(cur[1])
          PROVE  i \in {todo[m].i : m \in EdgesBehind}
                        \cup (IF Head(todo).op = "edge" THEN {Head(todo).i} ELSE {})
      <3>1. PICK k \in DOMAIN todo : todo[k].op = "edge" /\ i = todo[k].i
        BY <2>1
      <3>2. QED
        BY <1>1, <1>2, <3>1 DEF EdgesBehind
    <2>3. ASSUME NEW m \in EdgesBehind PROVE todo[m].i \in Busy(cur[1])
      BY <1>2, <2>1 DEF EdgesBehind
    <2>4. Head(todo).op = "edge" => Head(todo).i \in Busy(cur[1])
      BY <1>1, <1>2, <2>1
    <2>5. QED
      BY <2>2, <2>3, <2>4
  <1>5. Doomed(cur[1])' = UNION {todo'[k].flows : k \in {l \in DOMAIN todo' : todo'[l].op = "cut"}}
    BY <1>1 DEF Doomed, CutsLeft
  <1>6. Busy(cur[1])' = {todo'[k].i : k \in {l \in DOMAIN todo' : todo'[l].op = "edge"}}
    BY <1>1 DEF Busy, EdgesLeft
  <1>7. Doomed(cur[1])' = StepCuts(steps) \cup CutBehind
    <2>1. ASSUME NEW i \in Doomed(cur[1])' PROVE i \in StepCuts(steps) \cup CutBehind
      <3>1. PICK k \in DOMAIN todo' : todo'[k].op = "cut" /\ i \in todo'[k].flows
        BY <1>5
      <3>2. CASE k \in DOMAIN steps
        BY <1>1, <3>1, <3>2 DEF StepCuts
      <3>3. CASE k \notin DOMAIN steps
        <4>1. PICK m \in 2 .. Len(todo) : k = m + Len(steps) - 1
          BY <1>1, <3>3
        <4>2. todo[m].op = "cut" /\ i \in todo[m].flows
          BY <1>1, <3>1, <4>1
        <4>3. QED
          BY <4>2 DEF CutBehind
      <3>4. QED
        BY <3>2, <3>3
    <2>2. ASSUME NEW i \in StepCuts(steps) PROVE i \in Doomed(cur[1])'
      BY <1>1, <1>5 DEF StepCuts
    <2>3. ASSUME NEW i \in CutBehind PROVE i \in Doomed(cur[1])'
      BY <1>1, <1>5 DEF CutBehind
    <2>4. QED
      BY <2>1, <2>2, <2>3
  <1>8. Busy(cur[1])' = {steps[k].i : k \in StepEdges(steps)} \cup {todo[m].i : m \in EdgesBehind}
    <2>1. ASSUME NEW i \in Busy(cur[1])'
          PROVE  i \in {steps[k].i : k \in StepEdges(steps)} \cup {todo[m].i : m \in EdgesBehind}
      BY <1>1, <1>6 DEF StepEdges, EdgesBehind
    <2>2. ASSUME NEW k \in StepEdges(steps) PROVE steps[k].i \in Busy(cur[1])'
      BY <1>1, <1>6 DEF StepEdges
    <2>3. ASSUME NEW m \in EdgesBehind PROVE todo[m].i \in Busy(cur[1])'
      BY <1>1, <1>6 DEF EdgesBehind
    <2>4. QED
      BY <2>1, <2>2, <2>3
  <1>9. QED
    BY <1>3, <1>4, <1>7, <1>8

\* The flows of the edges that a step asks for, and of those behind the head.
StepFlows(steps) == {steps[k].i : k \in StepEdges(steps)}
FlowsBehind      == {todo[m].i : m \in EdgesBehind}

\* A flow that the step at the head is not about, ...
KeptFlow(fl, i) ==
  /\ ~(Head(todo).op = "edge" /\ Head(todo).i = i) /\ flow[cur[1]][i].active
  /\ fl[i].state = flow[cur[1]][i].state /\ fl[i].node = flow[cur[1]][i].node
  /\ fl[i].join = flow[cur[1]][i].join /\ fl[i].tag = flow[cur[1]][i].tag
\* ... and one that it leaves where its edge ends.
StaysAt(fl, i) ==
  /\ Head(todo).op = "edge" /\ Head(todo).i = i
  /\ \/ /\ fl[i].state = "READY" /\ fl[i].node = Head(todo).to.node
        /\ Kind[Head(todo).to.node] = "action"
     \/ /\ fl[i].state = "WAITING" /\ <<fl[i].join, fl[i].tag>> = Place(Head(todo).to)
        /\ Kind[Head(todo).to.node] = "join"

\* What a step of the chain does to the flows that it does not hand to an edge.
Orderly(steps, fl) ==
  /\ \A i \in Flow : fl[i].active /\ i \notin StepFlows(steps) \cup FlowsBehind =>
       KeptFlow(fl, i) \/ StaysAt(fl, i)
  /\ \A i \in FlowsBehind \cup CutBehind :
       /\ fl[i].active = flow[cur[1]][i].active /\ fl[i].state = flow[cur[1]][i].state
       /\ fl[i].join = flow[cur[1]][i].join
  /\ Head(todo).op = "cut" => \A i \in Head(todo).flows : ~fl[i].active

\* The steps that a step of the chain asks for fit in front of those that wait.
StepsFit(steps, fl) ==
  /\ \A k, l \in StepEdges(steps) : steps[k].i = steps[l].i => k = l
  /\ \A k \in StepEdges(steps) :
       /\ fl[steps[k].i].active
       /\ steps[k].i \notin FlowsBehind \cup StepCuts(steps) \cup CutBehind
       /\ Kind[steps[k].to.node] = "join" => steps[k].to.tag \in 1 .. JoinSize[steps[k].to.node]
       /\ \/ steps[k].o = "Success"
          \/ Len(todo) = 1 /\ Len(steps) = 1
          \/ /\ steps[k].o = "none" /\ steps[k].to.node \in BranchNodes
             /\ \A l \in 1 .. k : steps[l].op = "edge" /\ steps[l].o = "none"
  /\ Head(todo).op = "edge" /\ Head(todo).o = "none" /\ Len(todo) > 1 =>
       \A l \in DOMAIN steps : steps[l].op = "edge" /\ steps[l].o = "none"
  /\ \A k, l \in DOMAIN steps :
       /\ steps[k].op = "cut" /\ steps[l].op = "cut" /\ steps[k].flows \cap steps[l].flows # {}
       => k = l
  /\ StepCuts(steps) \cap (CutBehind \cup FlowsBehind) = {}
  /\ \A i \in StepCuts(steps) : fl[i].active /\ fl[i].state = "WAITING"

\* The chain stays one edge per flow, none of which is to be cut.
LEMMA ChainKept ==
  ASSUME todo \in Seq(ChainStep), todo # <<>>, NEW steps \in Seq(ChainStep), GoOn(steps),
         Chain, NEW fl, flow'[cur[1]] = fl, Orderly(steps, fl), StepsFit(steps, fl)
  PROVE  Chain'
  <1>1. /\ UNCHANGED cur /\ DOMAIN steps = 1 .. Len(steps) /\ Len(todo) \in Nat \ {0}
        /\ Len(steps) \in Nat
        /\ DOMAIN todo = 1 .. Len(todo) /\ Head(todo) = todo[1]
        /\ DOMAIN todo' = 1 .. Len(steps) + Len(todo) - 1
        /\ \A k \in DOMAIN steps : k \in DOMAIN todo' /\ todo'[k] = steps[k]
        /\ \A m \in 2 .. Len(todo) : /\ m + Len(steps) - 1 \in DOMAIN todo'
                                     /\ todo'[m + Len(steps) - 1] = todo[m]
        /\ \A k \in DOMAIN todo' :
             \/ k \in DOMAIN steps
             \/ \E m \in 2 .. Len(todo) : k = m + Len(steps) - 1
    BY ChainIndex
  <1>2. /\ Doomed(cur[1])' = StepCuts(steps) \cup CutBehind
        /\ CutBehind \subseteq Doomed(cur[1])
    BY ChainSets
  <1>3. 1 \in DOMAIN todo /\ EdgesBehind \subseteq EdgesLeft
    BY <1>1 DEF EdgesBehind, EdgesLeft
  <1>4. ASSUME NEW k \in EdgesLeft'
        PROVE  \/ k \in StepEdges(steps) /\ todo'[k] = steps[k]
               \/ \E m \in EdgesBehind : k = m + Len(steps) - 1 /\ todo'[k] = todo[m]
    <2>1. k \in DOMAIN todo' /\ todo'[k].op = "edge"
      BY DEF EdgesLeft
    <2>2. CASE k \in DOMAIN steps
      BY <1>1, <2>1, <2>2 DEF StepEdges
    <2>3. CASE k \notin DOMAIN steps
      <3>1. PICK m \in 2 .. Len(todo) : k = m + Len(steps) - 1
        BY <1>1, <2>1, <2>3
      <3>2. todo'[k] = todo[m]
        BY <1>1, <3>1
      <3>3. QED
        BY <2>1, <3>1, <3>2 DEF EdgesBehind
    <2>4. QED
      BY <2>2, <2>3
  <1>5. ASSUME NEW k \in CutsLeft'
        PROVE  \/ k \in DOMAIN steps /\ steps[k].op = "cut" /\ todo'[k] = steps[k]
               \/ \E m \in 2 .. Len(todo) : /\ k = m + Len(steps) - 1 /\ todo'[k] = todo[m]
                                            /\ todo[m].op = "cut" /\ m \in CutsLeft
    <2>1. k \in DOMAIN todo' /\ todo'[k].op = "cut"
      BY DEF CutsLeft
    <2>2. CASE k \in DOMAIN steps
      BY <1>1, <2>1, <2>2
    <2>3. CASE k \notin DOMAIN steps
      <3>1. PICK m \in 2 .. Len(todo) : k = m + Len(steps) - 1
        BY <1>1, <2>1, <2>3
      <3>2. todo'[k] = todo[m] /\ m \in DOMAIN todo
        BY <1>1, <3>1
      <3>3. QED
        BY <2>1, <3>1, <3>2 DEF CutsLeft
    <2>4. QED
      BY <2>2, <2>3
  <1>6. (\A k, l \in EdgesLeft : todo[k].i = todo[l].i => k = l)'
    <2> SUFFICES ASSUME NEW k \in EdgesLeft', NEW l \in EdgesLeft', todo'[k].i = todo'[l].i
                 PROVE  k = l
      OBVIOUS
    <2>1. CASE k \in StepEdges(steps) /\ todo'[k] = steps[k]
      <3>1. CASE l \in StepEdges(steps) /\ todo'[l] = steps[l]
        BY <2>1, <3>1 DEF StepsFit
      <3>2. CASE \E m \in EdgesBehind : l = m + Len(steps) - 1 /\ todo'[l] = todo[m]
        BY <2>1, <3>2 DEF StepsFit, FlowsBehind
      <3>3. QED
        BY <1>4, <3>1, <3>2
    <2>2. CASE \E m \in EdgesBehind : k = m + Len(steps) - 1 /\ todo'[k] = todo[m]
      <3>1. CASE l \in StepEdges(steps) /\ todo'[l] = steps[l]
        BY <2>2, <3>1 DEF StepsFit, FlowsBehind
      <3>2. CASE \E m \in EdgesBehind : l = m + Len(steps) - 1 /\ todo'[l] = todo[m]
        BY <1>3, <2>2, <3>2 DEF Chain
      <3>3. QED
        BY <1>4, <3>1, <3>2
    <2>3. QED
      BY <1>4, <2>1, <2>2
  <1>7. ASSUME NEW k \in EdgesLeft'
        PROVE  /\ flow'[cur[1]][todo'[k].i].active /\ todo'[k].i \notin Doomed(cur[1])'
               /\ Kind[todo'[k].to.node] = "join" => todo'[k].to.tag \in 1 .. JoinSize[todo'[k].to.node]
               /\ \/ todo'[k].o = "Success"
                  \/ DOMAIN todo' = {1}
                  \/ /\ todo'[k].o = "none" /\ todo'[k].to.node \in BranchNodes
                     /\ \A l \in 1 .. k : todo'[l].op = "edge" /\ todo'[l].o = "none"
    <2>1. CASE k \in StepEdges(steps) /\ todo'[k] = steps[k]
      <3>1. /\ fl[steps[k].i].active /\ steps[k].i \notin StepCuts(steps) \cup CutBehind
            /\ Kind[steps[k].to.node] = "join" => steps[k].to.tag \in 1 .. JoinSize[steps[k].to.node]
            /\ \/ steps[k].o = "Success"
               \/ Len(todo) = 1 /\ Len(steps) = 1
               \/ /\ steps[k].o = "none" /\ steps[k].to.node \in BranchNodes
                  /\ \A l \in 1 .. k : steps[l].op = "edge" /\ steps[l].o = "none"
        BY <2>1 DEF StepsFit
      <3>2. Len(todo) = 1 /\ Len(steps) = 1 => DOMAIN todo' = {1}
        BY <1>1
      <3>3. \A l \in 1 .. k : todo'[l] = steps[l]
        BY <1>1, <2>1 DEF StepEdges
      <3>4. QED
        BY <1>2, <2>1, <3>1, <3>2, <3>3
    <2>2. CASE \E m \in EdgesBehind : k = m + Len(steps) - 1 /\ todo'[k] = todo[m]
      <3>1. PICK m \in EdgesBehind : k = m + Len(steps) - 1 /\ todo'[k] = todo[m]
        BY <2>2
      <3>2. m \in EdgesLeft /\ todo[m].i \in FlowsBehind /\ m \in 2 .. Len(todo)
        BY <1>3 DEF FlowsBehind, EdgesBehind
      <3>3. /\ flow[cur[1]][todo[m].i].active /\ todo[m].i \notin Doomed(cur[1])
            /\ Kind[todo[m].to.node] = "join" => todo[m].to.tag \in 1 .. JoinSize[todo[m].to.node]
            /\ \/ todo[m].o = "Success"
               \/ DOMAIN todo = {1}
               \/ /\ todo[m].o = "none" /\ todo[m].to.node \in BranchNodes
                  /\ \A l \in 1 .. m : todo[l].op = "edge" /\ todo[l].o = "none"
        BY <3>2 DEF Chain
      <3>4. fl[todo[m].i].active /\ todo[m].i \notin StepCuts(steps)
        BY <3>2, <3>3 DEF Orderly, StepsFit
      <3>5. DOMAIN todo # {1}
        BY <1>1, <3>2
      <3>6. ASSUME \A l \in 1 .. m : todo[l].op = "edge" /\ todo[l].o = "none"
            PROVE  \A l \in 1 .. k : todo'[l].op = "edge" /\ todo'[l].o = "none"
        <4> SUFFICES ASSUME NEW l \in 1 .. k PROVE todo'[l].op = "edge" /\ todo'[l].o = "none"
          OBVIOUS
        <4>1. Len(todo) > 1 /\ 1 \in 1 .. m
          BY <1>1, <3>2
        <4>2. \A h \in DOMAIN steps : steps[h].op = "edge" /\ steps[h].o = "none"
          BY <1>1, <3>6, <4>1 DEF StepsFit
        <4>3. CASE l \in DOMAIN steps
          BY <1>1, <4>2, <4>3
        <4>4. CASE l \notin DOMAIN steps
          <5>1. /\ l - Len(steps) + 1 \in 2 .. Len(todo) /\ l - Len(steps) + 1 \in 1 .. m
                /\ l = (l - Len(steps) + 1) + Len(steps) - 1
            BY <1>1, <3>1, <3>2, <4>4
          <5>2. todo'[l] = todo[l - Len(steps) + 1]
            BY <1>1, <5>1
          <5>3. QED
            BY <3>6, <5>1, <5>2
        <4>5. QED
          BY <4>3, <4>4
      <3>7. QED
        BY <1>2, <3>1, <3>3, <3>4, <3>5, <3>6
    <2>3. QED
      BY <1>4, <2>1, <2>2
  <1>8. (\A k, l \in CutsLeft : todo[k].flows \cap todo[l].flows # {} => k = l)'
    <2> SUFFICES ASSUME NEW k \in CutsLeft', NEW l \in CutsLeft',
                        todo'[k].flows \cap todo'[l].flows # {}
                 PROVE  k = l
      OBVIOUS
    <2>1. PICK i : i \in todo'[k].flows /\ i \in todo'[l].flows
      OBVIOUS
    <2>2. ASSUME NEW h \in DOMAIN steps, steps[h].op = "cut", i \in steps[h].flows
          PROVE  i \in StepCuts(steps)
      BY <2>2 DEF StepCuts
    <2>3. ASSUME NEW m \in 2 .. Len(todo), todo[m].op = "cut", i \in todo[m].flows
          PROVE  i \in CutBehind
      BY <2>3 DEF CutBehind
    <2>4. i \in StepCuts(steps) => i \notin CutBehind
      BY DEF StepsFit
    <2>5. CASE k \in DOMAIN steps /\ steps[k].op = "cut" /\ todo'[k] = steps[k]
      <3>1. l \in DOMAIN steps /\ steps[l].op = "cut" /\ todo'[l] = steps[l]
        BY <1>5, <2>1, <2>2, <2>3, <2>4, <2>5
      <3>2. QED
        BY <2>5, <3>1 DEF StepsFit
    <2>6. CASE \E m \in 2 .. Len(todo) : /\ k = m + Len(steps) - 1 /\ todo'[k] = todo[m]
                                         /\ todo[m].op = "cut" /\ m \in CutsLeft
      <3>1. PICK m \in 2 .. Len(todo) : /\ k = m + Len(steps) - 1 /\ todo'[k] = todo[m]
                                        /\ todo[m].op = "cut" /\ m \in CutsLeft
        BY <2>6
      <3>2. i \in CutBehind
        BY <2>1, <2>3, <3>1
      <3>3. PICK h \in 2 .. Len(todo) : /\ l = h + Len(steps) - 1 /\ todo'[l] = todo[h]
                                        /\ todo[h].op = "cut" /\ h \in CutsLeft
        BY <1>5, <2>1, <2>2, <2>4, <3>2
      <3>4. m = h
        BY <2>1, <3>1, <3>3 DEF Chain
      <3>5. QED
        BY <3>1, <3>3, <3>4
    <2>7. QED
      BY <1>5, <2>5, <2>6
  <1>9. ASSUME NEW i \in Doomed(cur[1])'
        PROVE  flow'[cur[1]][i].active /\ flow'[cur[1]][i].state = "WAITING"
    <2>1. CASE i \in StepCuts(steps)
      BY <2>1 DEF StepsFit
    <2>2. CASE i \in CutBehind
      BY <1>2, <2>2 DEF Orderly, Chain
    <2>3. QED
      BY <1>2, <2>1, <2>2
  <1>10. QED
    BY <1>1, <1>6, <1>7, <1>8, <1>9 DEF Chain

\* What has succeeded, and what the accepted result will add, is not lost while
\* the chain is entered.
LEMMA ChainWon ==
  ASSUME pc = "enter", UNCHANGED <<jdel, route, dlv, cur, verdict, after>>,
         pc' \in {"enter", after}, NEW e \in Exec, NEW n \in Node, Won(e, n)
  PROVE  Won(e, n)'
  BY DEF Won, Winning, Succeeded

\* A flow that waits behind the chain after a step: it was left there before, or
\* none of the marks T leads to its Join.
Passed(fl, T, i) ==
  fl[i].state = "WAITING" /\ Kind[fl[i].join] = "join" =>
    \/ /\ i \in Behind(cur[1]) /\ flow[cur[1]][i].state = "WAITING"
       /\ fl[i].join = flow[cur[1]][i].join
    \/ \A x \in T, k \in 1 .. JoinSize[fl[i].join] : ~Leads(x[2], <<fl[i].join, k>>)

\* A mark of a flow that carries a delivery is at the node of the delivery.
LEMMA CarriedMark ==
  ASSUME NEW e \in Exec, Routed(e), NEW x \in Tokens(e), NEW r \in Req, Carries(e, x[1], r)
  PROVE  x[2] = <<route[e][r][1], 0>> /\ AtNode(e, x[1], x[2])
  <1>1. x[1] \in Flow /\ (OnEdge(e, x[1], x[2]) \/ AtNode(e, x[1], x[2]))
    BY DEF Tokens
  <1>2. ~OnEdge(e, x[1], x[2])
    BY DEF OnEdge, Carries, Settled, Busy
  <1>3. x[2] = <<flow[e][x[1]].node, 0>>
    BY <1>1, <1>2 DEF AtNode, Carries
  <1>4. QED
    BY <1>1, <1>2, <1>3 DEF Routed, Carries

\* A step of the chain moves the marks M to W, where its edges wait; what it leaves
\* at a Join nothing else can reach.
Advances(e, steps, fl, M, W) ==
  /\ Shifts(Tokens(e), M, W)
  /\ \A k \in StepEdges(steps) :
       Kind[steps[k].to.node] # "end" => <<steps[k].i, Place(steps[k].to)>> \in W
  /\ \A x \in M : /\ x[1] \notin FlowsBehind
                  /\ ~fl[x[1]].active \/ x[1] \in StepFlows(steps) \cup StepCuts(steps)
  /\ \A w \in W : MayEnter(e, w[2])
  /\ \A i \in StepCuts(steps) : Passed(fl, (Tokens(e) \ M) \cup W, i)
  /\ \A k \in StepEdges(steps) :
       steps[k].o = "Success" => Passed(fl, (Tokens(e) \ M) \cup W, steps[k].i)

\* A step of the chain that moves marks along the graph keeps them in order.
LEMMA ChainOrder ==
  ASSUME Acyclic, IInv, ActionsDelivered, pc = "enter", Chain,
         NEW e \in Exec, e = cur[1], InOrder(e),
         NEW steps \in Seq(ChainStep), GoOn(steps),
         NEW fl \in [Flow -> FlowRecord], flow' = [flow EXCEPT ![cur[1]] = fl],
         UNCHANGED restOfEnter, Orderly(steps, fl),
         NEW M, NEW W, Advances(e, steps, fl, M, W)
  PROVE  InOrder(e)'
  <1> USE DEF Advances
  <1>0. /\ todo \in Seq(ChainStep) /\ todo # <<>>
        /\ flow \in [Exec -> [Flow -> FlowRecord]] /\ flow[e] \in [Flow -> FlowRecord]
    BY ChainHead DEF IInv, ArenaType
  <1>1. /\ UNCHANGED <<cur, verdict, after>> /\ DOMAIN steps = 1 .. Len(steps)
        /\ Len(todo) \in Nat \ {0} /\ Len(steps) \in Nat
        /\ DOMAIN todo = 1 .. Len(todo) /\ Head(todo) = todo[1]
        /\ pc' \in {"enter", after}
        /\ \A k \in DOMAIN todo' :
             \/ k \in DOMAIN steps
             \/ \E m \in 2 .. Len(todo) : k = m + Len(steps) - 1
        /\ \A k \in DOMAIN steps : k \in DOMAIN todo' /\ todo'[k] = steps[k]
        /\ \A m \in 2 .. Len(todo) : /\ m + Len(steps) - 1 \in DOMAIN todo'
                                     /\ todo'[m + Len(steps) - 1] = todo[m]
    BY <1>0, ChainIndex
  <1>2. /\ Doomed(e)' = StepCuts(steps) \cup CutBehind
        /\ Doomed(e) = CutBehind \cup (IF Head(todo).op = "cut" THEN Head(todo).flows ELSE {})
        /\ Busy(e)' = StepFlows(steps) \cup FlowsBehind
        /\ Busy(e) = FlowsBehind \cup (IF Head(todo).op = "edge" THEN {Head(todo).i} ELSE {})
    BY <1>0, <1>1, ChainSets DEF Doomed, Busy, StepFlows, FlowsBehind
  <1>3. /\ UNCHANGED <<jdel, route, dlv>> /\ flow'[e] = fl
    BY <1>0 DEF restOfEnter, journalVars
  <1>4. ASSUME NEW i \in Flow, Settled(e, i)' PROVE (KeptFlow(fl, i) /\ Settled(e, i)) \/ StaysAt(fl, i)
    <2>1. fl[i].active /\ i \notin StepFlows(steps) \cup FlowsBehind
      BY <1>2, <1>3, <1>4 DEF Settled
    <2>2. KeptFlow(fl, i) \/ StaysAt(fl, i)
      BY <2>1 DEF Orderly
    <2>3. KeptFlow(fl, i) => Settled(e, i)
      BY <1>2, <2>1 DEF KeptFlow, Settled
    <2>4. QED
      BY <2>2, <2>3
  <1>5. ASSUME NEW i \in Flow, i \in Doomed(e), i \notin Doomed(e)' PROVE ~Settled(e, i)'
    BY <1>2, <1>3, <1>5 DEF Orderly, Settled
  <1>6. ASSUME NEW x \in Tokens(e)'
        PROVE  \/ x \in W
               \/ /\ x \in Tokens(e) \ M
                  /\ \/ x[1] \in Busy(e)
                     \/ Settled(e, x[1])' /\ KeptFlow(fl, x[1]) /\ Settled(e, x[1])
    <2>0. /\ x \in Flow \X Places /\ x = <<x[1], x[2]>> /\ x[1] \in Flow
          /\ (OnEdge(e, x[1], x[2])' \/ AtNode(e, x[1], x[2])')
      BY DEF Tokens, Places
    <2>1. ASSUME OnEdge(e, x[1], x[2])' PROVE x \in W \/ (x \in Tokens(e) \ M /\ x[1] \in Busy(e))
      <3>1. PICK k \in EdgesLeft' : /\ todo'[k].i = x[1] /\ Kind[todo'[k].to.node] # "end"
                                    /\ x[2] = Place(todo'[k].to)
        BY <2>1 DEF OnEdge, Place
      <3>2. k \in DOMAIN todo' /\ todo'[k].op = "edge"
        BY <3>1 DEF EdgesLeft
      <3>3. CASE k \in DOMAIN steps
        <4>1. k \in StepEdges(steps) /\ todo'[k] = steps[k]
          BY <1>1, <3>2, <3>3 DEF StepEdges
        <4>2. QED
          BY <2>0, <3>1, <4>1
      <3>4. CASE k \notin DOMAIN steps
        <4>1. PICK m \in 2 .. Len(todo) : k = m + Len(steps) - 1
          BY <1>1, <3>2, <3>4
        <4>2. todo'[k] = todo[m] /\ m \in EdgesBehind /\ m \in EdgesLeft
          BY <1>1, <3>2, <4>1 DEF EdgesBehind, EdgesLeft
        <4>3. x[1] \in FlowsBehind /\ x \notin M
          BY <3>1, <4>2 DEF FlowsBehind
        <4>4. OnEdge(e, x[1], x[2])
          BY <3>1, <4>2 DEF OnEdge
        <4>5. QED
          BY <1>2, <2>0, <4>3, <4>4 DEF Tokens
      <3>5. QED
        BY <3>3, <3>4
    <2>2. ASSUME AtNode(e, x[1], x[2])'
          PROVE  /\ x \in Tokens(e) \ M
                 /\ \/ x[1] \in Busy(e)
                    \/ Settled(e, x[1])' /\ KeptFlow(fl, x[1]) /\ Settled(e, x[1])
      <3>1. /\ Settled(e, x[1])' /\ x[1] \notin Doomed(e)'
            /\ \/ fl[x[1]].state \in {"READY", "PREPARED", "SENT"} /\ x[2] = <<fl[x[1]].node, 0>>
               \/ fl[x[1]].state = "WAITING" /\ x[2] = <<fl[x[1]].join, fl[x[1]].tag>>
        BY <1>3, <2>2 DEF AtNode, Waiting
      <3>2. x[1] \notin Doomed(e)
        BY <1>5, <2>0, <3>1
      <3>3. x \notin M
        BY <1>2, <1>3, <3>1 DEF Settled
      <3>4. CASE KeptFlow(fl, x[1]) /\ Settled(e, x[1])
        <4>1. AtNode(e, x[1], x[2])
          BY <3>1, <3>2, <3>4 DEF AtNode, KeptFlow, Waiting
        <4>2. QED
          BY <2>0, <3>1, <3>3, <3>4, <4>1 DEF Tokens
      <3>5. CASE StaysAt(fl, x[1])
        <4>1. /\ Head(todo).op = "edge" /\ Head(todo).i = x[1] /\ x[2] = Place(Head(todo).to)
              /\ Kind[Head(todo).to.node] # "end"
          BY <3>1, <3>5 DEF StaysAt, Place
        <4>2. 1 \in EdgesLeft
          BY <1>1, <4>1 DEF EdgesLeft
        <4>3. OnEdge(e, x[1], x[2])
          BY <1>1, <4>1, <4>2 DEF OnEdge
        <4>4. QED
          BY <1>2, <2>0, <3>3, <4>1, <4>3 DEF Tokens
      <3>6. QED
        BY <1>4, <2>0, <3>1, <3>4, <3>5
    <2>3. QED
      BY <2>0, <2>1, <2>2
  <1>7. Tokens(e)' \subseteq (Tokens(e) \ M) \cup W
    BY <1>6
  <1>8. Routed(e)'
    <2> SUFFICES ASSUME NEW i \in Flow, Settled(e, i)', fl[i].state \in {"PREPARED", "SENT"}
                 PROVE  dlv[e][i].node = fl[i].node /\ route[e][dlv[e][i].req][1] = fl[i].node
      BY <1>3 DEF Routed
    <2>1. KeptFlow(fl, i) /\ Settled(e, i)
      BY <1>4 DEF StaysAt
    <2>2. QED
      BY <2>1 DEF InOrder, Routed, KeptFlow
  <1>9. Tagged(e)'
    <2> SUFFICES ASSUME NEW i \in Flow, Settled(e, i)', fl[i].state = "WAITING"
                 PROVE  <<fl[i].join, fl[i].tag>> \in Places /\ Kind[fl[i].join] = "join"
      BY <1>3 DEF Tagged, Waiting, Places
    <2>1. CASE KeptFlow(fl, i) /\ Settled(e, i)
      BY <2>1 DEF InOrder, Tagged, KeptFlow, Waiting
    <2>2. CASE StaysAt(fl, i)
      <3>1. /\ Head(todo).op = "edge" /\ Kind[Head(todo).to.node] = "join"
            /\ <<fl[i].join, fl[i].tag>> = Place(Head(todo).to)
        BY <2>2 DEF StaysAt
      <3>2. 1 \in EdgesLeft
        BY <1>1, <3>1 DEF EdgesLeft
      <3>3. Head(todo).to \in Target /\ Head(todo).to.tag \in 1 .. JoinSize[Head(todo).to.node]
        BY <1>1, <3>1, <3>2, ChainHead DEF Chain
      <3>4. Place(Head(todo).to) \in Places /\ Place(Head(todo).to)[1] = Head(todo).to.node
        BY <3>3, PlaceOfTarget
      <3>5. fl[i].join = Place(Head(todo).to)[1]
        BY <3>1
      <3>6. QED
        BY <3>1, <3>4, <3>5
    <2>3. QED
      BY <1>4, <2>1, <2>2
  <1>10. \A r \in Req : jdel[e][r] # "none" =>
           route'[e][r][1] = route[e][r][1] /\ <<route[e][r][1], 0>> \in Places
    BY <1>3, GroupAssumption DEF ActionsDelivered, Places
  <1>11. ASSUME NEW x \in Tokens(e) \ M, NEW r \in Req, x \in Tokens(e)', Carries(e, x[1], r)
         PROVE  Carries(e, x[1], r)'
    <2>0. x[1] \in Flow /\ x[1] \notin Busy(e)
      BY <1>11 DEF Carries, Settled, Tokens
    <2>1. x \notin W
      BY DEF Shifts
    <2>2. Settled(e, x[1])' /\ KeptFlow(fl, x[1]) /\ Settled(e, x[1])
      BY <1>6, <1>11, <2>0, <2>1
    <2>3. QED
      BY <1>3, <1>11, <2>2 DEF Carries, KeptFlow
  <1>12. \A n \in Node : Won(e, n) => Won(e, n)'
    BY <1>1, <1>3, ChainWon
  <1>13. \A w \in W : MayEnter(e, w[2])'
    BY <1>12 DEF MayEnter, Entrants
  <1>14. ASSUME NEW i \in Behind(e)' PROVE StaysBehind(e, i)
    <2>1. /\ Behind(e) = Doomed(e) \cup {todo[k].i : k \in {l \in EdgesLeft : todo[l].o = "Success"}}
          /\ Behind(e)' = Doomed(e)' \cup {todo'[k].i : k \in {l \in EdgesLeft' : todo'[l].o = "Success"}}
      BY <1>1 DEF Behind
    <2>2. ASSUME Passed(fl, (Tokens(e) \ M) \cup W, i) PROVE StaysBehind(e, i)
      BY <1>3, <1>7, <2>2 DEF Passed, StaysBehind
    <2>3. CASE i \in StepCuts(steps)
      BY <2>2, <2>3
    <2>4. CASE i \in CutBehind
      <3>1. i \in Behind(e) /\ fl[i].state = flow[e][i].state /\ fl[i].join = flow[e][i].join
        BY <1>2, <2>1, <2>4 DEF Orderly
      <3>2. QED
        BY <1>3, <3>1 DEF StaysBehind
    <2>5. CASE i \notin Doomed(e)'
      <3>1. PICK k \in EdgesLeft' : todo'[k].o = "Success" /\ i = todo'[k].i
        BY <2>1, <2>5
      <3>2. k \in DOMAIN todo' /\ todo'[k].op = "edge"
        BY <3>1 DEF EdgesLeft
      <3>3. CASE k \in DOMAIN steps
        <4>1. k \in StepEdges(steps) /\ todo'[k] = steps[k]
          BY <1>1, <3>2, <3>3 DEF StepEdges
        <4>2. QED
          BY <2>2, <3>1, <4>1
      <3>4. CASE k \notin DOMAIN steps
        <4>1. PICK m \in 2 .. Len(todo) : k = m + Len(steps) - 1
          BY <1>1, <3>2, <3>4
        <4>2. todo'[k] = todo[m] /\ m \in EdgesBehind /\ m \in EdgesLeft
          BY <1>1, <3>2, <4>1 DEF EdgesBehind, EdgesLeft
        <4>3. i \in FlowsBehind /\ i \in Behind(e)
          BY <2>1, <3>1, <4>2 DEF FlowsBehind
        <4>4. fl[i].state = flow[e][i].state /\ fl[i].join = flow[e][i].join
          BY <4>3 DEF Orderly
        <4>5. QED
          BY <1>3, <4>3, <4>4 DEF StaysBehind
      <3>5. QED
        BY <3>3, <3>4
    <2>6. QED
      BY <1>2, <2>3, <2>4, <2>5
  <1>15. \A i \in Behind(e), k \in Nat :
           flow[e][i].state = "WAITING" /\ Kind[flow[e][i].join] = "join"
             /\ k \in 1 .. JoinSize[flow[e][i].join] => <<flow[e][i].join, k>> \in Places
    <2>1. Behind(e) \subseteq Flow
      <3>1. \A k \in EdgesLeft : todo[k] \in ChainStep /\ todo[k].op = "edge"
        BY <1>0 DEF EdgesLeft
      <3>2. \A k \in CutsLeft : todo[k] \in ChainStep /\ todo[k].op = "cut"
        BY <1>0 DEF CutsLeft
      <3>3. \A k \in EdgesLeft : todo[k].i \in Flow
        BY <3>1 DEF ChainStep, EdgeStep
      <3>4. \A k \in CutsLeft : todo[k].flows \subseteq Flow
        BY <3>2 DEF ChainStep, EdgeStep
      <3>5. QED
        BY <3>3, <3>4 DEF Behind, Doomed
    <2>2. \A i \in Flow : flow[e][i].join \in Node
      BY <1>0 DEF FlowRecord
    <2>3. \A n \in Node : Kind[n] = "join" => \A k \in 1 .. JoinSize[n] : k \in 0 .. MaxFlows
      BY GroupAssumption DEF Flow
    <2>4. QED
      BY <2>1, <2>2, <2>3 DEF Places
  <1>16. \A x \in M, r \in Req : Carries(e, x[1], r) => x[2] = <<route[e][r][1], 0>>
    BY CarriedMark DEF InOrder, Shifts
  <1>17. QED
    BY <1>3, <1>7, <1>8, <1>9, <1>10, <1>11, <1>12, <1>13, <1>14, <1>15, <1>16, OrderMoves

\* No chain of edges is being entered for the execution.
Quiet(e) == e # cur[1] \/ todo = <<>>

\* Without a chain nothing waits on an edge or is to be cut.
LEMMA QuietMarks ==
  ASSUME NEW e \in Exec, Quiet(e)
  PROVE  /\ Busy(e) = {} /\ Doomed(e) = {} /\ Behind(e) = {}
         /\ \A i \in Flow : /\ Settled(e, i) <=> flow[e][i].active
                            /\ \A p : ~OnEdge(e, i, p)
  <1>1. CASE e # cur[1]
    BY <1>1 DEF Busy, Doomed, Behind, OnEdge, Settled
  <1>2. CASE todo = <<>>
    <2>1. EdgesLeft = {} /\ CutsLeft = {}
      BY <1>2 DEF EdgesLeft, CutsLeft
    <2>2. QED
      BY <2>1 DEF Busy, Doomed, Behind, OnEdge, Settled
  <1>3. QED
    BY <1>1, <1>2 DEF Quiet

\* An execution without a chain stays in order when its flows keep their work.
LEMMA QuietOrder ==
  ASSUME Acyclic, ActionsDelivered, NEW e \in Exec, InOrder(e), Quiet(e), Quiet(e)',
         \A i \in Flow : flow'[e][i].active =>
           /\ flow[e][i].active /\ flow'[e][i].node = flow[e][i].node
           /\ flow'[e][i].join = flow[e][i].join /\ flow'[e][i].tag = flow[e][i].tag
           /\ \/ flow'[e][i].state = flow[e][i].state
              \/ /\ flow[e][i].state \in {"PREPARED", "SENT"}
                 /\ flow'[e][i].state \in {"PREPARED", "SENT"}
           /\ dlv'[e][i].req = dlv[e][i].req /\ dlv'[e][i].node = dlv[e][i].node,
         \A r \in Req : jdel'[e][r] # "none" => jdel[e][r] # "none",
         route'[e] = route[e],
         \A n \in Node : Won(e, n) => Won(e, n)'
  PROVE  InOrder(e)'
  <1>1. /\ Busy(e) = {} /\ Doomed(e) = {} /\ Behind(e) = {}
        /\ \A i \in Flow : /\ Settled(e, i) <=> flow[e][i].active
                           /\ \A p : ~OnEdge(e, i, p)
    BY QuietMarks
  <1>2. /\ Busy(e)' = {} /\ Doomed(e)' = {} /\ Behind(e)' = {}
        /\ \A i \in Flow : /\ Settled(e, i)' <=> flow'[e][i].active
                           /\ \A p : ~OnEdge(e, i, p)'
    <2>1. CASE e # cur'[1]
      BY <2>1 DEF Busy, Doomed, Behind, OnEdge, Settled
    <2>2. CASE todo' = <<>>
      <3>1. EdgesLeft' = {} /\ CutsLeft' = {}
        BY <2>2 DEF EdgesLeft, CutsLeft
      <3>2. QED
        BY <3>1 DEF Busy, Doomed, Behind, OnEdge, Settled
    <2>3. QED
      BY <2>1, <2>2 DEF Quiet
  <1>3. ASSUME NEW x \in Tokens(e)' PROVE x \in Tokens(e)
    <2>1. x \in Flow \X Places /\ x[1] \in Flow /\ AtNode(e, x[1], x[2])'
      BY <1>2 DEF Tokens, Places
    <2>2. AtNode(e, x[1], x[2])
      BY <1>1, <1>2, <2>1 DEF AtNode, Waiting
    <2>3. QED
      BY <2>1, <2>2 DEF Tokens
  <1>4. Shifts(Tokens(e), {}, {})
    BY DEF Shifts
  <1>5. Routed(e)'
    <2> SUFFICES ASSUME NEW i \in Flow, flow'[e][i].active, flow'[e][i].state \in {"PREPARED", "SENT"}
                 PROVE  /\ dlv'[e][i].node = flow'[e][i].node
                        /\ route'[e][dlv'[e][i].req][1] = flow'[e][i].node
      BY <1>2 DEF Routed
    <2>1. QED
      BY <1>1 DEF InOrder, Routed
  <1>6. Tagged(e)'
    <2> SUFFICES ASSUME NEW i \in Flow, flow'[e][i].active, flow'[e][i].state = "WAITING"
                 PROVE  /\ <<flow'[e][i].join, flow'[e][i].tag>> \in Places
                        /\ Kind[flow'[e][i].join] = "join"
      BY <1>2 DEF Tagged, Waiting, Places
    <2>1. QED
      BY <1>1 DEF InOrder, Tagged, Waiting
  <1>7. \A r \in Req : jdel[e][r] # "none" =>
          route'[e][r][1] = route[e][r][1] /\ <<route[e][r][1], 0>> \in Places
    BY GroupAssumption DEF ActionsDelivered, Places
  <1>8. ASSUME NEW x \in Tokens(e) \ {}, NEW r \in Req, x \in Tokens(e)', Carries(e, x[1], r)
        PROVE  Carries(e, x[1], r)'
    <2>1. x[1] \in Flow /\ AtNode(e, x[1], x[2])'
      BY <1>2, <1>8 DEF Tokens
    <2>2. Settled(e, x[1])'
      BY <2>1 DEF AtNode
    <2>3. QED
      BY <1>2, <1>8, <2>1, <2>2 DEF Carries
  <1>9. /\ \A x \in {}, r \in Req : Carries(e, x[1], r) => x[2] = <<route[e][r][1], 0>>
        /\ \A w \in {} : MayEnter(e, w[2])'
        /\ \A i \in Behind(e)' : StaysBehind(e, i)
        /\ Tokens(e)' \subseteq (Tokens(e) \ {}) \cup {}
    BY <1>2, <1>3
  <1>10. \A i \in Behind(e), k \in Nat :
           flow[e][i].state = "WAITING" /\ Kind[flow[e][i].join] = "join"
             /\ k \in 1 .. JoinSize[flow[e][i].join] => <<flow[e][i].join, k>> \in Places
    BY <1>1
  <1>11. QED
    BY <1>4, <1>5, <1>6, <1>7, <1>8, <1>9, <1>10, OrderMoves

\* What the order of an execution rests on while the loop runs.
OInv == ActionsDelivered /\ Chain /\ \A e \in Exec : InOrder(e)

\* A step of the chain keeps the order of every execution.
LEMMA ChainStepOrder ==
  ASSUME Acyclic, IInv, OInv, pc = "enter",
         NEW e \in Exec, e = cur[1],
         NEW steps \in Seq(ChainStep), GoOn(steps),
         NEW fl \in [Flow -> FlowRecord], flow' = [flow EXCEPT ![cur[1]] = fl],
         UNCHANGED restOfEnter, Orderly(steps, fl), StepsFit(steps, fl),
         NEW M, NEW W, Advances(e, steps, fl, M, W)
  PROVE  Chain' /\ \A f \in Exec : InOrder(f)'
  <1>0. /\ todo \in Seq(ChainStep) /\ todo # <<>> /\ flow \in [Exec -> [Flow -> FlowRecord]]
        /\ ActionsDelivered /\ Chain /\ \A f \in Exec : InOrder(f)
    BY ChainHead DEF IInv, ArenaType, OInv
  <1>1. flow'[cur[1]] = fl
    BY <1>0
  <1>2. Chain'
    BY <1>0, <1>1, ChainKept
  <1>3. InOrder(e)'
    BY <1>0, ChainOrder
  <1>4. ASSUME NEW f \in Exec, f # e PROVE InOrder(f)'
    <2>1. UNCHANGED <<cur, verdict, after>> /\ pc' \in {"enter", after}
      BY <1>0, ChainIndex
    <2>2. UNCHANGED <<jdel, route, dlv>> /\ flow'[f] = flow[f]
      BY <1>0, <1>4 DEF restOfEnter, journalVars
    <2>3. Quiet(f) /\ Quiet(f)'
      BY <1>4, <2>1 DEF Quiet
    <2>4. \A n \in Node : Won(f, n) => Won(f, n)'
      BY <2>1, <2>2, ChainWon
    <2>5. QED
      BY <1>0, <2>2, <2>3, <2>4, QuietOrder
  <1>5. QED
    BY <1>2, <1>3, <1>4

-----------------------------------------------------------------------------
(* The steps of the chain *)

\* A step that asks for nothing, or for the test whether the execution is
\* complete, moves no flow.
LEMMA NoEdges ==
  ASSUME NEW steps, steps \in {<<>>, <<Settle>>}
  PROVE  /\ steps \in Seq(ChainStep) /\ StepEdges(steps) = {} /\ StepCuts(steps) = {}
         /\ StepFlows(steps) = {} /\ \A k \in DOMAIN steps : steps[k].op = "settle"
         /\ steps # <<>> => steps = <<Settle>>
  <1>1. /\ Settle \in ChainStep /\ Settle.op = "settle"
    BY OtherSteps DEF Settle
  <1>2. steps \in Seq(ChainStep) /\ \A k \in DOMAIN steps : steps[k].op = "settle"
    <2>1. CASE steps = <<>>
      BY <2>1
    <2>2. CASE steps = <<Settle>>
      <3>1. steps \in Seq(ChainStep) /\ DOMAIN steps = {1} /\ steps[1] = Settle
        BY <1>1, <2>2
      <3>2. QED
        BY <1>1, <3>1
    <2>3. QED
      BY <2>1, <2>2
  <1>3. StepEdges(steps) = {} /\ {l \in DOMAIN steps : steps[l].op = "cut"} = {}
    BY <1>2 DEF StepEdges
  <1>4. QED
    BY <1>2, <1>3 DEF StepCuts, StepFlows

\* What is known of the edge that is entered, ...
LEMMA HeadEdge ==
  ASSUME IInv, OInv, pc = "enter", Head(todo).op = "edge"
  PROVE  /\ 1 \in EdgesLeft /\ Head(todo) = todo[1] /\ Len(todo) \in Nat \ {0}
         /\ flow[cur[1]][Head(todo).i].active
         /\ Head(todo).i \notin FlowsBehind \cup CutBehind \cup Doomed(cur[1])
         /\ Kind[Head(todo).to.node] = "join" =>
              Head(todo).to.tag \in 1 .. JoinSize[Head(todo).to.node]
         /\ \/ Head(todo).o = "Success" \/ Len(todo) = 1
            \/ Head(todo).o = "none" /\ Head(todo).to.node \in BranchNodes
         /\ Kind[Head(todo).to.node] # "end" =>
              <<Head(todo).i, Place(Head(todo).to)>> \in Tokens(cur[1])
  <1>0. todo \in Seq(ChainStep) /\ todo # <<>> /\ cur[1] \in Exec /\ Head(todo).i \in Flow
        /\ Head(todo).to \in Target
    BY ChainHead
  <1>1. /\ 1 \in EdgesLeft /\ Head(todo) = todo[1] /\ Len(todo) \in Nat \ {0}
        /\ DOMAIN todo = 1 .. Len(todo)
    BY <1>0 DEF EdgesLeft
  <1>2. /\ flow[cur[1]][Head(todo).i].active /\ Head(todo).i \notin Doomed(cur[1])
        /\ Kind[Head(todo).to.node] = "join" =>
              Head(todo).to.tag \in 1 .. JoinSize[Head(todo).to.node]
        /\ \/ Head(todo).o = "Success" \/ DOMAIN todo = {1}
           \/ Head(todo).o = "none" /\ Head(todo).to.node \in BranchNodes
    BY <1>1 DEF OInv, Chain
  <1>3. DOMAIN todo = {1} => Len(todo) = 1
    BY <1>1
  <1>4. Head(todo).i \notin FlowsBehind
    <2> SUFFICES ASSUME NEW m \in EdgesBehind, todo[m].i = todo[1].i PROVE FALSE
      BY <1>1 DEF FlowsBehind
    <2>1. m \in EdgesLeft /\ m # 1
      BY <1>1 DEF EdgesBehind, EdgesLeft
    <2>2. QED
      BY <1>1, <2>1 DEF OInv, Chain
  <1>5. CutBehind \subseteq Doomed(cur[1])
    <2>1. \A m \in 2 .. Len(todo) : todo[m].op = "cut" => m \in CutsLeft
      BY <1>1 DEF CutsLeft
    <2>2. QED
      BY <2>1 DEF CutBehind, Doomed
  <1>6. ASSUME Kind[Head(todo).to.node] # "end"
        PROVE  <<Head(todo).i, Place(Head(todo).to)>> \in Tokens(cur[1])
    <2>1. OnEdge(cur[1], Head(todo).i, Place(Head(todo).to))
      BY <1>1, <1>6 DEF OnEdge
    <2>2. Place(Head(todo).to) \in Places
      BY <1>0, <1>2, PlaceOfTarget
    <2>3. QED
      BY <1>0, <2>1, <2>2 DEF Tokens
  <1>7. QED
    BY <1>1, <1>2, <1>3, <1>4, <1>5, <1>6

\* ... and of what waits behind it.
LEMMA BehindEdge ==
  ASSUME IInv, OInv, pc = "enter", BranchesDoWork
  PROVE  /\ FlowsBehind \cap CutBehind = {} /\ CutBehind \subseteq Doomed(cur[1])
         /\ Doomed(cur[1]) \cap FlowsBehind = {}
         /\ \A i \in FlowsBehind \cup CutBehind : i \in Flow /\ flow[cur[1]][i].active
         /\ Head(todo).op = "cut" => Head(todo).flows \cap (CutBehind \cup FlowsBehind) = {}
         /\ Head(todo).op = "edge" /\ Kind[Head(todo).to.node] \in {"join", "end"} =>
              \A m \in EdgesBehind : todo[m].o = "Success"
         /\ Len(todo) = 1 => FlowsBehind = {} /\ CutBehind = {}
  <1>0. /\ todo \in Seq(ChainStep) /\ todo # <<>> /\ cur[1] \in Exec
        /\ Len(todo) \in Nat \ {0} /\ DOMAIN todo = 1 .. Len(todo) /\ Head(todo) = todo[1]
    BY ChainHead
  <1>1. EdgesBehind \subseteq EdgesLeft /\ EdgesBehind \subseteq 2 .. Len(todo)
    BY <1>0 DEF EdgesBehind, EdgesLeft
  <1>2. \A m \in 2 .. Len(todo) : todo[m].op = "cut" => m \in CutsLeft
    BY <1>0 DEF CutsLeft
  <1>3. CutBehind \subseteq Doomed(cur[1])
    BY <1>2 DEF CutBehind, Doomed
  <1>4. Doomed(cur[1]) \cap FlowsBehind = {}
    BY <1>1 DEF FlowsBehind, OInv, Chain
  <1>5. \A i \in FlowsBehind \cup CutBehind : flow[cur[1]][i].active
    BY <1>1, <1>3 DEF FlowsBehind, OInv, Chain
  <1>6. \A i \in FlowsBehind \cup CutBehind : i \in Flow
    <2>1. \A m \in EdgesBehind : todo[m].i \in Flow
      BY <1>0, <1>1 DEF ChainStep, EdgeStep, EdgesBehind
    <2>2. \A m \in 2 .. Len(todo) : todo[m].op = "cut" => todo[m].flows \subseteq Flow
      BY <1>0 DEF ChainStep, EdgeStep
    <2>3. QED
      BY <2>1, <2>2 DEF FlowsBehind, CutBehind
  <1>7. ASSUME Head(todo).op = "cut"
        PROVE  Head(todo).flows \cap (CutBehind \cup FlowsBehind) = {}
    <2>1. 1 \in CutsLeft
      BY <1>0, <1>7 DEF CutsLeft
    <2>2. ASSUME NEW i \in Head(todo).flows, i \in CutBehind PROVE FALSE
      <3>1. PICK m \in 2 .. Len(todo) : todo[m].op = "cut" /\ i \in todo[m].flows
        BY <2>2 DEF CutBehind
      <3>2. m \in CutsLeft /\ m # 1 /\ todo[1].flows \cap todo[m].flows # {}
        BY <1>0, <1>2, <2>2, <3>1
      <3>3. QED
        BY <2>1, <3>2 DEF OInv, Chain
    <2>3. Head(todo).flows \subseteq Doomed(cur[1])
      BY <1>0, <2>1 DEF Doomed
    <2>4. QED
      BY <1>4, <2>2, <2>3
  <1>8. ASSUME Head(todo).op = "edge", Kind[Head(todo).to.node] \in {"join", "end"},
               NEW m \in EdgesBehind, todo[m].o # "Success"
        PROVE  FALSE
    <2>1. DOMAIN todo # {1} /\ 1 \in 1 .. m /\ m \in EdgesLeft /\ 1 \in EdgesLeft
      BY <1>0, <1>1, <1>8 DEF EdgesLeft
    <2>2. todo[m].o = "none" /\ \A l \in 1 .. m : todo[l].op = "edge" /\ todo[l].o = "none"
      BY <1>8, <2>1 DEF OInv, Chain
    <2>3. todo[1].o = "none"
      BY <2>1, <2>2
    <2>4. todo[1].to.node \in BranchNodes
      BY <2>1, <2>3 DEF OInv, Chain
    <2>5. QED
      BY <1>0, <1>8, <2>4 DEF BranchesDoWork
  <1>9. Len(todo) = 1 => FlowsBehind = {} /\ CutBehind = {}
    <2>1. Len(todo) = 1 => 2 .. Len(todo) = {}
      OBVIOUS
    <2>2. QED
      BY <2>1 DEF FlowsBehind, CutBehind, EdgesBehind
  <1>10. QED
    BY <1>3, <1>4, <1>5, <1>6, <1>7, <1>8, <1>9

\* A step after which no new edge waits keeps the order.
LEMMA StillOrder ==
  ASSUME Ordered, IInv, OInv, pc = "enter", NEW steps, steps \in {<<>>, <<Settle>>}, GoOn(steps),
         Head(todo).op = "edge" /\ Head(todo).o = "none" /\ Len(todo) > 1 => steps = <<>>,
         NEW fl \in [Flow -> FlowRecord], flow' = [flow EXCEPT ![cur[1]] = fl],
         UNCHANGED restOfEnter, Orderly(steps, fl)
  PROVE  Chain' /\ \A f \in Exec : InOrder(f)'
  <1>1. /\ steps \in Seq(ChainStep) /\ StepEdges(steps) = {} /\ StepCuts(steps) = {}
        /\ \A k \in DOMAIN steps : steps[k].op = "settle"
    BY NoEdges
  <1>2. PICK e \in Exec : e = cur[1]
    BY ChainHead
  <1>3. StepsFit(steps, fl)
    <2>1. steps = <<>> => DOMAIN steps = {}
      OBVIOUS
    <2>2. QED
      BY <1>1, <2>1 DEF StepsFit
  <1>4. Advances(e, steps, fl, {}, {})
    BY <1>1 DEF Advances, Shifts
  <1>5. QED
    BY <1>1, <1>2, <1>3, <1>4, ChainStepOrder DEF Ordered

\* An edge into an Action leaves its flow there.
LEMMA OrderEnterAction ==
  ASSUME Ordered, IInv, OInv, EnterAction PROVE Chain' /\ \A f \in Exec : InOrder(f)'
  <1> DEFINE e == cur[1]
             t == Head(todo)
             fl == [flow[e] EXCEPT ![t.i] =
                      [@ EXCEPT !.node = t.to.node, !.state = "READY", !.active = TRUE]]
  <1>1. /\ pc = "enter" /\ t.op = "edge" /\ Kind[t.to.node] = "action"
        /\ flow' = [flow EXCEPT ![e][t.i] =
                      [@ EXCEPT !.node = t.to.node, !.state = "READY", !.active = TRUE]]
        /\ GoOn(<<>>) /\ UNCHANGED restOfEnter
    BY DEF EnterAction, Entering
  <1>2. /\ e \in Exec /\ t.i \in Flow /\ t.to.node \in Node
        /\ flow[e] \in [Flow -> FlowRecord]
    BY <1>1, ChainHead
  <1>3. flow' = [flow EXCEPT ![e] = fl]
    BY <1>1
  <1>4. t.i \notin FlowsBehind \cup CutBehind
    BY <1>1, HeadEdge
  <1>5. \A i \in FlowsBehind \cup CutBehind : i \in Flow
    BY <1>1, BehindEdge DEF Ordered
  <1> HIDE DEF e, t
  <1>6. fl \in [Flow -> FlowRecord]
    BY <1>2 DEF FlowRecord, FlowState
  <1>7. /\ fl[t.i].state = "READY" /\ fl[t.i].node = t.to.node
        /\ \A i \in Flow : i # t.i => fl[i] = flow[e][i]
    BY <1>2 DEF FlowRecord
  <1> HIDE DEF fl
  <1>8. Orderly(<<>>, fl)
    <2>1. ASSUME NEW i \in Flow, fl[i].active, i \notin FlowsBehind
          PROVE  KeptFlow(fl, i) \/ StaysAt(fl, i)
      BY <1>1, <1>7, <2>1 DEF KeptFlow, StaysAt, e, t
    <2>2. \A i \in FlowsBehind \cup CutBehind : fl[i] = flow[e][i]
      BY <1>4, <1>5, <1>7
    <2>3. QED
      BY <1>1, <2>1, <2>2 DEF Orderly, e, t
  <1>9. QED
    BY <1>1, <1>3, <1>6, <1>8, StillOrder DEF e

\* A cut ends flows that nothing waits for.
LEMMA OrderCutFlow ==
  ASSUME Ordered, IInv, OInv, CutFlow PROVE Chain' /\ \A f \in Exec : InOrder(f)'
  <1> DEFINE e == cur[1]
             gone == Head(todo).flows
             fl == [i \in Flow |-> IF i \in gone THEN [flow[e][i] EXCEPT !.active = FALSE]
                                   ELSE flow[e][i]]
  <1>1. /\ pc = "enter" /\ Head(todo).op = "cut" /\ flow' = [flow EXCEPT ![e] = fl]
        /\ GoOn(<<>>) /\ UNCHANGED restOfEnter
    BY DEF CutFlow
  <1>2. /\ e \in Exec /\ flow[e] \in [Flow -> FlowRecord] /\ Head(todo) \in ChainStep
    BY <1>1, ChainHead
  <1>3. gone \subseteq Flow
    BY <1>1, <1>2 DEF ChainStep, EdgeStep
  <1>4. /\ \A i \in FlowsBehind \cup CutBehind : i \in Flow
        /\ gone \cap (CutBehind \cup FlowsBehind) = {}
    BY <1>1, BehindEdge DEF Ordered
  <1> HIDE DEF e, gone
  <1>5. fl \in [Flow -> FlowRecord]
    BY <1>2 DEF FlowRecord
  <1>6. \A i \in Flow : IF i \in gone THEN ~fl[i].active ELSE fl[i] = flow[e][i]
    BY <1>2 DEF FlowRecord
  <1> HIDE DEF fl
  <1>7. Orderly(<<>>, fl)
    <2>1. ASSUME NEW i \in Flow, fl[i].active PROVE KeptFlow(fl, i)
      BY <1>1, <1>6, <2>1 DEF KeptFlow, e
    <2>2. \A i \in FlowsBehind \cup CutBehind : fl[i] = flow[e][i]
      BY <1>4, <1>6
    <2>3. \A i \in gone : ~fl[i].active
      BY <1>3, <1>6
    <2>4. QED
      BY <2>1, <2>2, <2>3 DEF Orderly, e, gone
  <1>8. QED
    BY <1>1, <1>5, <1>7, StillOrder DEF e

\* A terminal ends its flow, and after a failure every other that is not sent; a
\* failure comes at the end of a chain.
LEMMA OrderEnterTerminal ==
  ASSUME Ordered, IInv, OInv, EnterTerminal PROVE Chain' /\ \A f \in Exec : InOrder(f)'
  <1> DEFINE e == cur[1]
             t == Head(todo)
             fl == [i \in Flow |->
                      IF i = t.i THEN [flow[e][i] EXCEPT !.active = FALSE, !.node = t.to.node]
                      ELSE IF t.o # "Success" /\ flow[e][i].state # "SENT"
                           THEN [flow[e][i] EXCEPT !.active = FALSE] ELSE flow[e][i]]
  <1>1. /\ pc = "enter" /\ t.op = "edge" /\ Kind[t.to.node] = "end"
        /\ flow' = [flow EXCEPT ![e] = fl]
        /\ GoOn(<<Settle>>) /\ UNCHANGED restOfEnter
    BY DEF EnterTerminal, Entering
  <1>2. /\ e \in Exec /\ t.i \in Flow /\ t.to.node \in Node
        /\ flow[e] \in [Flow -> FlowRecord]
    BY <1>1, ChainHead
  <1>3. /\ t.i \notin FlowsBehind \cup CutBehind /\ Len(todo) \in Nat
        /\ t.o = "Success" \/ Len(todo) = 1
    BY <1>1, HeadEdge DEF Ordered, BranchesDoWork
  <1>4. /\ \A i \in FlowsBehind \cup CutBehind : i \in Flow
        /\ Len(todo) = 1 => FlowsBehind \cup CutBehind = {}
    BY <1>1, BehindEdge DEF Ordered
  <1> HIDE DEF e, t
  <1>5. fl \in [Flow -> FlowRecord]
    BY <1>2 DEF FlowRecord
  <1>6. /\ ~fl[t.i].active
        /\ \A i \in Flow : i # t.i => (t.o # "Success" /\ ~fl[i].active) \/ fl[i] = flow[e][i]
    BY <1>2 DEF FlowRecord
  <1> HIDE DEF fl
  <1>7. Orderly(<<Settle>>, fl)
    <2>1. ASSUME NEW i \in Flow, fl[i].active PROVE KeptFlow(fl, i)
      BY <1>1, <1>6, <2>1 DEF KeptFlow, e, t
    <2>2. \A i \in FlowsBehind \cup CutBehind : fl[i] = flow[e][i]
      BY <1>3, <1>4, <1>6
    <2>3. Head(todo).op # "cut"
      BY <1>1 DEF t
    <2>4. QED
      BY <2>1, <2>2, <2>3 DEF Orderly, e
  <1>8. ~(t.o = "none" /\ Len(todo) > 1)
    <2>1. CASE t.o = "Success"
      BY <2>1
    <2>2. CASE Len(todo) = 1
      BY <2>2
    <2>3. QED
      BY <1>3, <2>1, <2>2
  <1>9. QED
    BY <1>1, <1>5, <1>7, <1>8, StillOrder DEF e, t

\* The test whether the execution is complete moves nothing.
LEMMA OrderMaybeComplete ==
  ASSUME Ordered, IInv, OInv, MaybeComplete PROVE Chain' /\ \A f \in Exec : InOrder(f)'
  <1> DEFINE e == cur[1]
             fl == flow[e]
  <1>1. /\ pc = "enter" /\ Head(todo).op = "settle" /\ UNCHANGED flow
        /\ GoOn(<<>>) /\ UNCHANGED restOfEnter
    BY DEF MaybeComplete
  <1>2. /\ e \in Exec /\ fl \in [Flow -> FlowRecord]
    BY <1>1, ChainHead
  <1>3. flow' = [flow EXCEPT ![e] = fl]
    BY <1>1, <1>2, SameEntry DEF IInv, ArenaType
  <1>4. Orderly(<<>>, fl)
    BY <1>1 DEF Orderly, KeptFlow
  <1> HIDE DEF fl
  <1>5. QED
    BY <1>1, <1>2, <1>3, <1>4, StillOrder

\* Nothing has to be won before a place that neither an Action nor a Join leads to.
LEMMA FreeEntry ==
  ASSUME OneWayIn, NEW n \in Node, Kind[n] \notin {"action", "join"}, NEW t \in Exits(n),
         Kind[t.node] # "end", NEW e
  PROVE  MayEnter(e, Place(t))
  <1> SUFFICES ASSUME NEW j \in Node, Kind[j] = "join", NEW m \in Entrants(j)
               PROVE  /\ Place(t) # Place(OnSuccess[m])
                      /\ \A k \in DOMAIN JoinOut[j] : Place(t) # Place(JoinOut[j][k])
    BY DEF MayEnter
  <1>1. m \in Node /\ Kind[m] = "action" /\ OnSuccess[m] \in Exits(m)
    BY DEF Entrants, Exits
  <1>2. \A k \in DOMAIN JoinOut[j] : JoinOut[j][k] \in Exits(j)
    BY DEF Exits
  <1>3. QED
    BY <1>1, <1>2 DEF OneWayIn

\* One mark moves along edges of its node.
LEMMA ShiftOne ==
  ASSUME OneWayIn, JoinTags, NEW T \in SUBSET (Flow \X Places), Apart(T), NEW x \in T,
         Kind[x[2][1]] # "join", NEW W \in SUBSET (Flow \X Places),
         \A w \in W : \E t \in Exits(x[2][1]) : Kind[t.node] # "end" /\ w[2] = Place(t),
         \A v, w \in W : v[1] = w[1] \/ v[2] = w[2] => v = w,
         \A w \in W : w[1] = x[1] \/ \A y \in T : y[1] # w[1]
  PROVE  Shifts(T, {x}, W)
  <1>1. x[1] \in Flow /\ x[2] \in Places /\ x[2][1] \in Node /\ x[2] = <<x[2][1], 0>>
    BY DEF Places
  <1>2. ASSUME NEW w \in W PROVE Follows(x[2], w[2])
    BY <1>2 DEF Follows
  <1>3. ASSUME NEW w \in W, NEW p \in Places, Follows(p, w[2]) PROVE x[2] = p
    <2>1. PICK t \in Exits(x[2][1]) : Kind[t.node] # "end" /\ w[2] = Place(t)
      OBVIOUS
    <2>2. p[1] = x[2][1]
      BY <1>1, <1>3, <2>1, OneSource
    <2>3. p = <<p[1], p[2]>> /\ p[2] = 0
      BY <2>2 DEF Places
    <2>4. QED
      BY <1>1, <2>2, <2>3
  <1>4. ASSUME NEW w \in W, NEW y \in T \ {x} PROVE w[1] # y[1]
    BY DEF Apart
  <1>5. QED
    BY <1>2, <1>3, <1>4 DEF Shifts

\* A Dispatch hands its flow on along one of its cases.
LEMMA OrderEnterDispatch ==
  ASSUME Ordered, IInv, OInv, EnterDispatch PROVE Chain' /\ \A f \in Exec : InOrder(f)'
  <1> DEFINE e == cur[1]
             t == Head(todo)
             n == t.to.node
             fl == [flow[e] EXCEPT ![t.i] = [@ EXCEPT !.node = t.to.node]]
  <1>1. /\ pc = "enter" /\ t.op = "edge" /\ Kind[n] = "dispatch"
        /\ flow' = [flow EXCEPT ![e][t.i].node = n]
        /\ UNCHANGED restOfEnter
    BY DEF EnterDispatch, Entering
  <1>2. PICK k \in 1 .. Len(Case[n]) : GoOn(<<Enter(t.i, Case[n][k], t.o)>>)
    BY DEF EnterDispatch
  <1>3. /\ e \in Exec /\ t.i \in Flow /\ n \in Node /\ t.o \in Outcome \cup {"none"}
        /\ flow[e] \in [Flow -> FlowRecord] /\ Head(todo).to \in Target
    BY <1>1, ChainHead
  <1>4. flow' = [flow EXCEPT ![e] = fl]
    BY <1>1
  <1> DEFINE c == Case[n][k]
  <1>5. c \in Target /\ c \in Exits(n)
    BY <1>1, <1>2, <1>3, GroupAssumption DEF Exits
  <1>6. /\ t.i \notin FlowsBehind \cup CutBehind /\ flow[e][t.i].active
        /\ t.o = "Success" \/ Len(todo) = 1 \/ (t.o = "none" /\ n \in BranchNodes)
        /\ <<t.i, Place(t.to)>> \in Tokens(e) /\ 1 \in EdgesLeft /\ t = todo[1]
    BY <1>1, HeadEdge
  <1>7. \A i \in FlowsBehind \cup CutBehind : i \in Flow
    BY <1>1, BehindEdge DEF Ordered
  <1>8. Place(t.to) = <<n, 0>>
    BY <1>1 DEF Place
  <1>9. PICK e0 \in Exec : e0 = e
    BY <1>3
  <1>10. t.o = "Success" => t.i \in Behind(e)
    BY <1>6 DEF Behind
  <1>11. n \in BranchNodes => c.node \in BranchNodes
    <2>1. c.node \in Node
      BY <1>5 DEF Target
    <2>2. QED
      BY <1>1, <1>2, <2>1 DEF BranchNodes, BranchSet
  <1> HIDE DEF e, t, n
  <1>12. Kind[c.node] = "join" => c.tag \in 1 .. JoinSize[c.node]
    BY <1>3, <1>5 DEF Ordered, JoinTags
  <1> DEFINE s == Enter(t.i, c, t.o)
             steps == <<s>>
             x == <<t.i, Place(t.to)>>
             W == IF Kind[c.node] = "end" THEN {} ELSE {<<t.i, Place(c)>>}
  <1>13. s \in ChainStep /\ s.op = "edge" /\ s.i = t.i /\ s.to = c /\ s.o = t.o
    BY <1>3, <1>5, EnterIsStep DEF Enter
  <1>14. Place(c) \in Places
    BY <1>5, <1>12, PlaceOfTarget
  <1> HIDE DEF c, s
  <1>15. /\ steps \in Seq(ChainStep) /\ Len(steps) = 1 /\ DOMAIN steps = {1} /\ steps[1] = s
         /\ StepEdges(steps) = {1}
    BY <1>13 DEF StepEdges
  <1>16. GoOn(steps)
    BY <1>2 DEF s, c
  <1>17. fl \in [Flow -> FlowRecord]
    BY <1>3 DEF FlowRecord, n
  <1>18. /\ fl[t.i].active = flow[e][t.i].active /\ fl[t.i].state = flow[e][t.i].state
         /\ fl[t.i].join = flow[e][t.i].join
         /\ \A i \in Flow : i # t.i => fl[i] = flow[e][i]
    BY <1>3 DEF FlowRecord
  <1> HIDE DEF fl, steps
  <1>19. StepFlows(steps) = {t.i} /\ StepCuts(steps) = {}
    <2>1. StepFlows(steps) = {t.i}
      BY <1>13, <1>15 DEF StepFlows
    <2>2. {l \in DOMAIN steps : steps[l].op = "cut"} = {}
      BY <1>13, <1>15
    <2>3. QED
      BY <2>1, <2>2 DEF StepCuts
  <1>20. Orderly(steps, fl)
    <2>1. ASSUME NEW i \in Flow, fl[i].active, i \notin StepFlows(steps) \cup FlowsBehind
          PROVE  KeptFlow(fl, i)
      BY <1>18, <1>19, <2>1 DEF KeptFlow, e, t
    <2>2. \A i \in FlowsBehind \cup CutBehind : fl[i] = flow[e][i]
      BY <1>6, <1>7, <1>18
    <2>3. Head(todo).op # "cut"
      BY <1>1 DEF t
    <2>4. QED
      BY <2>1, <2>2, <2>3 DEF Orderly, e
  <1>21. StepsFit(steps, fl)
    <2>1. /\ fl[s.i].active /\ s.i \notin FlowsBehind \cup StepCuts(steps) \cup CutBehind
          /\ Kind[s.to.node] = "join" => s.to.tag \in 1 .. JoinSize[s.to.node]
      BY <1>6, <1>12, <1>13, <1>18, <1>19
    <2>2. \/ s.o = "Success"
          \/ Len(todo) = 1 /\ Len(steps) = 1
          \/ s.o = "none" /\ s.to.node \in BranchNodes
      BY <1>6, <1>11, <1>13, <1>15
    <2>3. \A l \in 1 .. 1 : l = 1
      OBVIOUS
    <2>4. t.o = "none" => \A l \in DOMAIN steps : steps[l].op = "edge" /\ steps[l].o = "none"
      BY <1>13, <1>15
    <2>5. QED
      BY <1>13, <1>15, <1>19, <2>1, <2>2, <2>3, <2>4 DEF StepsFit, t
  <1>22. Advances(e0, steps, fl, {x}, W)
    <2>1. /\ x \in Tokens(e0) /\ x[1] = t.i /\ x[2] = <<n, 0>> /\ x[2][1] = n
      BY <1>6, <1>8, <1>9
    <2>2. /\ Tokens(e0) \in SUBSET (Flow \X Places) /\ Apart(Tokens(e0))
      BY DEF Tokens, OInv, InOrder
    <2>3. W \in SUBSET (Flow \X Places)
      BY <1>3, <1>14
    <2>4. /\ \A w \in W : w[1] = t.i /\ w[2] = Place(c) /\ Kind[c.node] # "end"
          /\ \A v, w \in W : v = w
          /\ Kind[c.node] # "end" => <<t.i, Place(c)>> \in W
      OBVIOUS
    <2> HIDE DEF x, W
    <2>5. Shifts(Tokens(e0), {x}, W)
      <3>1. c \in Exits(x[2][1]) /\ Kind[x[2][1]] # "join"
        BY <1>1, <1>5, <2>1 DEF c
      <3>2. \A w \in W : \E u \in Exits(x[2][1]) : Kind[u.node] # "end" /\ w[2] = Place(u)
        BY <2>4, <3>1
      <3>3. QED
        BY <2>1, <2>2, <2>3, <2>4, <3>1, <3>2, ShiftOne DEF Ordered
    <2>6. \A w \in W : MayEnter(e0, w[2])
      <3>1. Kind[c.node] # "end" => MayEnter(e0, Place(c))
        BY <1>1, <1>3, <1>5, FreeEntry DEF Ordered, c
      <3>2. QED
        BY <2>4, <3>1
    <2>7. s.o = "Success" => Passed(fl, (Tokens(e0) \ {x}) \cup W, s.i)
      BY <1>10, <1>13, <1>18 DEF Passed, e
    <2>8. QED
      BY <1>6, <1>13, <1>15, <1>19, <2>1, <2>4, <2>5, <2>6, <2>7 DEF Advances
  <1>23. QED
    BY <1>1, <1>4, <1>9, <1>15, <1>16, <1>17, <1>20, <1>21, <1>22, ChainStepOrder DEF Ordered, e

\* The flows that a Fork takes for its branches are different ones.
LEMMA LowestDiffer ==
  ASSUME NEW S \in SUBSET Flow, NEW k \in 1 .. Cardinality(S), NEW l \in 1 .. Cardinality(S),
         Lowest(S, k) = Lowest(S, l)
  PROVE  k = l
  <1>1. /\ Cardinality({j \in S : j < Lowest(S, k)}) = k - 1
        /\ Cardinality({j \in S : j < Lowest(S, l)}) = l - 1
    BY LowestFlow
  <1>2. k - 1 = l - 1 /\ k \in Int /\ l \in Int
    BY <1>1
  <1>3. QED
    BY <1>2

\* A Fork sends its own flow and idle ones into its branches.
LEMMA OrderEnterFork ==
  ASSUME Ordered, IInv, OInv, EnterFork PROVE Chain' /\ \A f \in Exec : InOrder(f)'
  <1> DEFINE e == cur[1]
             t == Head(todo)
             n == t.to.node
             size == Len(Branch[n])
             free == Idle(e) \ {t.i}
             at(k) == IF k = 1 THEN t.i ELSE Lowest(free, k - 1)
             others == {at(k) : k \in 2 .. size}
             fl == [i \in Flow |->
                      IF i = t.i THEN [flow[e][i] EXCEPT !.node = n]
                      ELSE IF i \in others THEN [flow[e][i] EXCEPT !.active = TRUE]
                           ELSE flow[e][i]]
             steps == [k \in 1 .. size |-> Enter(at(k), Branch[n][k], "none")]
  <1>1. /\ pc = "enter" /\ t.op = "edge" /\ Kind[n] = "fork" /\ Cardinality(free) >= size - 1
        /\ flow' = [flow EXCEPT ![e] = fl]
        /\ GoOn(steps) /\ UNCHANGED restOfEnter
    BY DEF EnterFork, Entering
  <1>2. /\ e \in Exec /\ t.i \in Flow /\ n \in Node /\ flow[e] \in [Flow -> FlowRecord]
    BY <1>1, ChainHead
  <1>3. Branch[n] \in Seq(Target) /\ Branch[n] # <<>>
    BY <1>1, <1>2, GroupAssumption
  <1>4. /\ t.i \notin FlowsBehind \cup CutBehind /\ flow[e][t.i].active
        /\ <<t.i, Place(t.to)>> \in Tokens(e)
    BY <1>1, HeadEdge
  <1>5. \A i \in FlowsBehind \cup CutBehind : i \in Flow /\ flow[e][i].active
    BY <1>1, BehindEdge DEF Ordered
  <1>6. Place(t.to) = <<n, 0>>
    BY <1>1 DEF Place
  <1>7. PICK e0 \in Exec : e0 = e
    BY <1>2
  <1> HIDE DEF e, t
  <1>8. size \in Nat \ {0} /\ \A k \in 1 .. size : Branch[n][k] \in Target
    BY <1>3
  <1> HIDE DEF n
  <1>9. ASSUME NEW k \in 1 .. size
        PROVE  /\ Branch[n][k] \in Exits(n) /\ Branch[n][k].node \in BranchNodes
               /\ Kind[Branch[n][k].node] \notin {"join", "end"}
               /\ Place(Branch[n][k]) \in Places
    <2>1. Branch[n][k].node \in Node
      BY <1>8 DEF Target
    <2>2. Branch[n][k].node \in BranchNodes
      BY <1>1, <1>2, <2>1 DEF BranchNodes, BranchSet
    <2>3. Branch[n][k] \in Exits(n)
      BY <1>1 DEF Exits
    <2>4. Kind[Branch[n][k].node] \notin {"join", "end"}
      BY <2>2 DEF Ordered, BranchesDoWork
    <2>5. QED
      BY <1>8, <2>2, <2>3, <2>4, PlaceOfTarget
  <1> HIDE DEF size
  <1>10. /\ \A k \in 1 .. size : at(k) \in Flow
         /\ \A k \in 2 .. size : ~flow[e][at(k)].active /\ at(k) # t.i
         /\ \A k, l \in 1 .. size : at(k) = at(l) => k = l
         /\ at(1) = t.i
    <2>1. free \in SUBSET Flow /\ \A i \in free : ~flow[e][i].active /\ i # t.i
      BY DEF Idle
    <2>2. Cardinality(free) \in Nat /\ \A k \in 1 .. Cardinality(free) : Lowest(free, k) \in free
      BY <2>1, LowestFlow, FS_CardinalityType
    <2> HIDE DEF free
    <2>3. \A k \in 2 .. size : k - 1 \in 1 .. Cardinality(free)
      BY <1>1, <1>8, <2>2
    <2>4. ASSUME NEW k \in 2 .. size, NEW l \in 2 .. size, Lowest(free, k - 1) = Lowest(free, l - 1)
          PROVE  k = l
      <3>1. k - 1 = l - 1
        BY <2>1, <2>3, <2>4, LowestDiffer
      <3>2. QED
        BY <1>8, <3>1
    <2>5. \A k \in 1 .. size : k = 1 \/ (k \in 2 .. size /\ k # 1)
      BY <1>8
    <2>6. \A k \in 2 .. size : k # 1
      BY <1>8
    <2>7. QED
      BY <1>2, <2>1, <2>2, <2>3, <2>4, <2>5, <2>6
  <1> HIDE DEF free, at
  <1>11. "none" \in Outcome \cup {"none"}
    OBVIOUS
  <1>12. \A k \in 1 .. size : /\ Enter(at(k), Branch[n][k], "none") \in ChainStep
                              /\ Enter(at(k), Branch[n][k], "none").op = "edge"
                              /\ Enter(at(k), Branch[n][k], "none").i = at(k)
                              /\ Enter(at(k), Branch[n][k], "none").to = Branch[n][k]
                              /\ Enter(at(k), Branch[n][k], "none").o = "none"
    <2>1. \A k \in 1 .. size : Enter(at(k), Branch[n][k], "none") \in ChainStep
      BY <1>8, <1>10, <1>11, EnterIsStep
    <2>2. QED
      BY <2>1 DEF Enter
  <1>13. /\ steps \in Seq(ChainStep) /\ DOMAIN steps = 1 .. size
         /\ \A k \in 1 .. size : /\ steps[k].op = "edge" /\ steps[k].i = at(k)
                                 /\ steps[k].to = Branch[n][k] /\ steps[k].o = "none"
    BY <1>8, <1>12
  <1>14. fl \in [Flow -> FlowRecord]
    BY <1>2 DEF FlowRecord
  <1>15. /\ fl[t.i].active
         /\ \A i \in others : i \in Flow => fl[i].active
         /\ \A i \in Flow : i # t.i /\ i \notin others => fl[i] = flow[e][i]
    BY <1>2, <1>4 DEF FlowRecord
  <1>16. others = {at(k) : k \in 2 .. size}
    OBVIOUS
  <1> HIDE DEF fl, steps, others
  <1>17. /\ StepEdges(steps) = 1 .. size /\ StepCuts(steps) = {}
         /\ StepFlows(steps) = others \cup {t.i}
    <2>1. StepEdges(steps) = 1 .. size
      BY <1>13 DEF StepEdges
    <2>2. {l \in DOMAIN steps : steps[l].op = "cut"} = {}
      BY <1>13
    <2>3. \A k \in 1 .. size : k = 1 \/ k \in 2 .. size
      BY <1>8
    <2>4. 1 \in 1 .. size /\ 2 .. size \subseteq 1 .. size
      BY <1>8
    <2>5. StepFlows(steps) = {at(k) : k \in 1 .. size}
      BY <1>13, <2>1 DEF StepFlows
    <2>6. StepFlows(steps) = others \cup {t.i}
      BY <1>10, <1>16, <2>3, <2>4, <2>5
    <2>7. QED
      BY <2>1, <2>2, <2>6 DEF StepCuts
  <1>18. \A i \in others : ~flow[e][i].active /\ i \in Flow
    <2>1. 2 .. size \subseteq 1 .. size
      BY <1>8
    <2>2. QED
      BY <1>10, <1>16, <2>1
  <1>19. Orderly(steps, fl)
    <2>1. ASSUME NEW i \in Flow, fl[i].active, i \notin StepFlows(steps) \cup FlowsBehind
          PROVE  KeptFlow(fl, i)
      BY <1>15, <1>17, <2>1 DEF KeptFlow, e, t
    <2>2. \A i \in FlowsBehind \cup CutBehind : fl[i] = flow[e][i]
      BY <1>4, <1>5, <1>15, <1>18
    <2>3. Head(todo).op # "cut"
      BY <1>1 DEF t
    <2>4. QED
      BY <2>1, <2>2, <2>3 DEF Orderly, e
  <1>20. StepsFit(steps, fl)
    <2>1. ASSUME NEW k \in 1 .. size
          PROVE  /\ fl[steps[k].i].active
                 /\ steps[k].i \notin FlowsBehind \cup StepCuts(steps) \cup CutBehind
      <3>1. steps[k].i \in others \cup {t.i}
        BY <1>17, <2>1 DEF StepFlows
      <3>2. QED
        BY <1>4, <1>5, <1>15, <1>17, <1>18, <3>1
    <2>2. \A k, l \in 1 .. size : steps[k].i = steps[l].i => k = l
      BY <1>10, <1>13
    <2>3. \A k \in 1 .. size : /\ Kind[steps[k].to.node] # "join" /\ steps[k].o = "none"
                               /\ steps[k].to.node \in BranchNodes
      BY <1>9, <1>13
    <2>4. \A k \in 1 .. size : 1 .. k \subseteq 1 .. size
      BY <1>8
    <2>5. \A k \in 1 .. size : \A l \in 1 .. k : steps[l].op = "edge" /\ steps[l].o = "none"
      BY <1>13, <2>4
    <2>6. \A k \in DOMAIN steps : steps[k].op # "cut" /\ steps[k].op = "edge" /\ steps[k].o = "none"
      BY <1>13
    <2>7. QED
      BY <1>17, <2>1, <2>2, <2>3, <2>5, <2>6 DEF StepsFit
  <1> DEFINE x == <<t.i, Place(t.to)>>
             W == {<<at(k), Place(Branch[n][k])>> : k \in 1 .. size}
  <1>21. Advances(e0, steps, fl, {x}, W)
    <2>1. /\ x \in Tokens(e0) /\ x[1] = t.i /\ x[2] = <<n, 0>> /\ x[2][1] = n
      BY <1>4, <1>6, <1>7
    <2>2. /\ Tokens(e0) \in SUBSET (Flow \X Places) /\ Apart(Tokens(e0))
      BY DEF Tokens, OInv, InOrder
    <2>3. W \in SUBSET (Flow \X Places)
      BY <1>9, <1>10
    <2>4. /\ \A w \in W : \E k \in 1 .. size : w = <<at(k), Place(Branch[n][k])>>
          /\ \A k \in 1 .. size : <<at(k), Place(Branch[n][k])>> \in W
      OBVIOUS
    <2> HIDE DEF x, W
    <2>5. Shifts(Tokens(e0), {x}, W)
      <3>1. Kind[x[2][1]] # "join"
        BY <1>1, <2>1
      <3>2. ASSUME NEW w \in W PROVE \E u \in Exits(x[2][1]) : Kind[u.node] # "end" /\ w[2] = Place(u)
        <4>1. PICK k \in 1 .. size : w = <<at(k), Place(Branch[n][k])>>
          BY <2>4
        <4>2. w[2] = Place(Branch[n][k])
          BY <4>1
        <4>3. QED
          BY <1>9, <2>1, <4>2
      <3>3. ASSUME NEW v \in W, NEW w \in W, v[1] = w[1] \/ v[2] = w[2] PROVE v = w
        <4>1. PICK k \in 1 .. size : v = <<at(k), Place(Branch[n][k])>>
          BY <2>4
        <4>2. PICK l \in 1 .. size : w = <<at(l), Place(Branch[n][l])>>
          BY <2>4
        <4>3. \/ at(k) = at(l)
              \/ Kind[Branch[n][k].node] # "end" /\ Place(Branch[n][k]) = Place(Branch[n][l])
          BY <1>9, <3>3, <4>1, <4>2
        <4>4. k = l
          BY <1>1, <1>2, <1>10, <4>3 DEF Ordered, OneWayIn, size
        <4>5. QED
          BY <4>1, <4>2, <4>4
      <3>4. ASSUME NEW w \in W PROVE w[1] = x[1] \/ \A y \in Tokens(e0) : y[1] # w[1]
        <4>1. PICK k \in 1 .. size : w = <<at(k), Place(Branch[n][k])>>
          BY <2>4
        <4>2. \A y \in Tokens(e0) : flow[e0][y[1]].active
          BY DEF Tokens, OnEdge, AtNode, Settled, OInv, Chain
        <4>3. k = 1 \/ k \in 2 .. size
          BY <1>8
        <4>4. k = 1 => w[1] = x[1]
          BY <1>10, <2>1, <4>1
        <4>5. k \in 2 .. size => ~flow[e0][w[1]].active
          BY <1>7, <1>10, <4>1
        <4>6. QED
          BY <4>2, <4>3, <4>4, <4>5
      <3>5. QED
        BY <2>1, <2>2, <2>3, <3>1, <3>2, <3>3, <3>4, ShiftOne DEF Ordered
    <2>6. ASSUME NEW w \in W PROVE MayEnter(e0, w[2])
      <3>1. PICK k \in 1 .. size : w = <<at(k), Place(Branch[n][k])>>
        BY <2>4
      <3>2. MayEnter(e0, Place(Branch[n][k]))
        BY <1>1, <1>2, <1>9, FreeEntry DEF Ordered
      <3>3. QED
        BY <3>1, <3>2
    <2>7. \A k \in StepEdges(steps) : steps[k].o # "Success"
      BY <1>13, <1>17
    <2>8. \A k \in StepEdges(steps) : <<steps[k].i, Place(steps[k].to)>> \in W
      BY <1>13, <1>17, <2>4
    <2>9. QED
      BY <1>4, <1>17, <2>1, <2>5, <2>6, <2>7, <2>8 DEF Advances
  <1> HIDE DEF x, W
  <1>22. QED
    BY <1>1, <1>7, <1>13, <1>14, <1>19, <1>20, <1>21, ChainStepOrder DEF Ordered, e

\* The flows after an edge into a Join.
AtJoin(fl) ==
  fl = [flow[cur[1]] EXCEPT ![Head(todo).i] =
          [@ EXCEPT !.node = Head(todo).to.node, !.join = Head(todo).to.node,
                    !.tag = Head(todo).to.tag, !.state = "WAITING"]]

\* What an edge into a Join does to the flows, whether the Join is resolved or not.
LEMMA JoinFlows ==
  ASSUME Ordered, IInv, OInv, Entering("join"), NEW fl, AtJoin(fl)
  PROVE  /\ fl \in [Flow -> FlowRecord] /\ Head(todo).i \in Flow
         /\ fl[Head(todo).i].active /\ fl[Head(todo).i].state = "WAITING"
         /\ fl[Head(todo).i].join = Head(todo).to.node /\ fl[Head(todo).i].tag = Head(todo).to.tag
         /\ \A i \in Flow : i # Head(todo).i => fl[i] = flow[cur[1]][i]
         /\ \A steps : Orderly(steps, fl)
         /\ ~(Head(todo).o = "none" /\ Len(todo) > 1)
         /\ Place(Head(todo).to) = <<Head(todo).to.node, Head(todo).to.tag>>
  <1> DEFINE e == cur[1]
             t == Head(todo)
             n == t.to.node
  <1>1. pc = "enter" /\ t.op = "edge" /\ Kind[n] = "join"
    BY DEF Entering
  <1>2. /\ e \in Exec /\ t.i \in Flow /\ n \in Node /\ t.to.tag \in Nat
        /\ flow[e] \in [Flow -> FlowRecord]
    BY <1>1, ChainHead
  <1>3. /\ flow[e][t.i].active /\ t.i \notin FlowsBehind \cup CutBehind /\ Len(todo) \in Nat
        /\ t.o = "Success" \/ Len(todo) = 1
    BY <1>1, HeadEdge DEF Ordered, BranchesDoWork
  <1>4. \A i \in FlowsBehind \cup CutBehind : i \in Flow
    BY <1>1, BehindEdge DEF Ordered
  <1>5. Place(t.to) = <<n, t.to.tag>>
    BY <1>1 DEF Place
  <1>6. fl = [flow[e] EXCEPT ![t.i] =
                [@ EXCEPT !.node = n, !.join = n, !.tag = t.to.tag, !.state = "WAITING"]]
    BY DEF AtJoin
  <1> HIDE DEF e, t, n
  <1>7. fl \in [Flow -> FlowRecord]
    <2> DEFINE v == [flow[e][t.i] EXCEPT !.node = n, !.join = n, !.tag = t.to.tag, !.state = "WAITING"]
    <2>1. v \in FlowRecord
      BY <1>2 DEF FlowRecord, FlowState
    <2>2. fl = [flow[e] EXCEPT ![t.i] = v]
      BY <1>6
    <2> HIDE DEF v
    <2>3. QED
      BY <1>2, <2>1, <2>2
  <1>8. /\ fl[t.i].active /\ fl[t.i].state = "WAITING" /\ fl[t.i].join = n /\ fl[t.i].tag = t.to.tag
        /\ \A i \in Flow : i # t.i => fl[i] = flow[e][i]
    BY <1>2, <1>3, <1>6 DEF FlowRecord
  <1>9. ASSUME NEW steps PROVE Orderly(steps, fl)
    <2>1. ASSUME NEW i \in Flow, fl[i].active PROVE KeptFlow(fl, i) \/ StaysAt(fl, i)
      <3>1. i = t.i => StaysAt(fl, i)
        BY <1>1, <1>5, <1>8 DEF StaysAt, t, n
      <3>2. i # t.i => KeptFlow(fl, i)
        BY <1>8, <2>1 DEF KeptFlow, e, t
      <3>3. QED
        BY <3>1, <3>2
    <2>2. \A i \in FlowsBehind \cup CutBehind : fl[i] = flow[e][i]
      BY <1>3, <1>4, <1>8
    <2>3. Head(todo).op # "cut"
      BY <1>1 DEF t
    <2>4. QED
      BY <2>1, <2>2, <2>3 DEF Orderly, e
  <1>10. ~(t.o = "none" /\ Len(todo) > 1)
    <2>1. CASE t.o = "Success"
      BY <2>1
    <2>2. CASE Len(todo) = 1
      BY <2>2
    <2>3. QED
      BY <1>3, <2>1, <2>2
  <1>11. QED
    BY <1>2, <1>5, <1>7, <1>8, <1>9, <1>10 DEF e, t, n

\* Whoever has arrived at the Join has a mark there, and is not behind the chain.
LEMMA ArrivedMarks ==
  ASSUME Ordered, IInv, OInv, Entering("join"), NEW fl, AtJoin(fl),
         NEW n \in Node, n = Head(todo).to.node,
         NEW k \in 1 .. JoinSize[n], NEW i \in Arrived(fl, n, k)
  PROVE  /\ i \in Flow /\ fl[i].active /\ fl[i].state = "WAITING" /\ fl[i].join = n /\ fl[i].tag = k
         /\ <<i, <<n, k>>>> \in Tokens(cur[1]) /\ i \notin FlowsBehind \cup CutBehind
  <1> DEFINE t == Head(todo)
  <1>1. pc = "enter" /\ t.op = "edge" /\ Kind[n] = "join"
    BY DEF Entering
  <1>2. PICK e \in Exec : e = cur[1]
    BY <1>1, ChainHead
  <1>3. /\ t.i \in Flow /\ fl[t.i].tag = t.to.tag /\ Place(t.to) = <<n, t.to.tag>>
        /\ \A j \in Flow : j # t.i => fl[j] = flow[e][j]
    BY <1>2, JoinFlows
  <1>4. /\ t.i \notin FlowsBehind \cup CutBehind /\ <<t.i, Place(t.to)>> \in Tokens(e)
        /\ t.to.tag \in 1 .. JoinSize[n] /\ 1 \in EdgesLeft /\ t = todo[1]
    BY <1>1, <1>2, HeadEdge
  <1>5. /\ i \in Flow /\ fl[i].active /\ fl[i].state = "WAITING" /\ fl[i].join = n /\ fl[i].tag = k
    BY DEF Arrived
  <1>6. <<n, k>> \in Places /\ <<n, t.to.tag>> \in Places
    BY <1>1, <1>4, GroupAssumption DEF Places, Flow
  <1>7. CASE i = t.i
    BY <1>2, <1>3, <1>4, <1>5, <1>7
  <1>8. CASE i # t.i
    <2>1. flow[e][i].active /\ flow[e][i].state = "WAITING" /\ Waiting(e, i) = <<n, k>>
          /\ flow[e][i].join = n
      BY <1>3, <1>5, <1>8 DEF Waiting
    <2>2. i \notin Behind(e)
      <3> SUFFICES ASSUME i \in Behind(e) PROVE FALSE
        OBVIOUS
      <3>1. JoinsPassed(e)
        BY DEF OInv, InOrder
      <3>2. ~Leads(<<t.i, Place(t.to)>>[2], <<n, t.to.tag>>)
        BY <1>1, <1>4, <2>1, <3>1 DEF JoinsPassed
      <3>3. QED
        BY <1>3, <1>6, <3>2, LeadsToItself
    <2>3. \A m \in EdgesBehind : todo[m].o = "Success"
      BY <1>1, BehindEdge DEF Ordered
    <2>4. EdgesBehind \subseteq EdgesLeft
      BY <1>1, ChainHead DEF EdgesBehind, EdgesLeft
    <2>5. Doomed(e) \cup FlowsBehind \subseteq Behind(e)
      BY <1>2, <2>3, <2>4 DEF Behind, FlowsBehind
    <2>6. i \notin Busy(e)
      <3> SUFFICES ASSUME NEW m \in EdgesLeft, todo[m].i = i PROVE FALSE
        BY DEF Busy
      <3>1. m = 1 \/ m \in EdgesBehind
        <4>1. todo \in Seq(ChainStep)
          BY <1>1, ChainHead
        <4>2. QED
          BY <4>1 DEF EdgesLeft, EdgesBehind
      <3>2. QED
        BY <1>4, <1>8, <2>2, <2>5, <3>1 DEF FlowsBehind
    <2>7. AtNode(e, i, <<n, k>>)
      BY <2>1, <2>2, <2>5, <2>6 DEF AtNode, Settled
    <2>8. <<i, <<n, k>>>> \in Tokens(e)
      BY <1>5, <1>6, <2>7 DEF Tokens
    <2>9. CutBehind \subseteq Doomed(e)
      BY <1>1, <1>2, BehindEdge DEF Ordered
    <2>10. QED
      BY <1>2, <1>5, <2>2, <2>5, <2>8, <2>9
  <1>9. QED
    BY <1>7, <1>8

\* A flow waits at a Join until all have arrived; then those whose result is used go
\* on, and nothing can reach the Join any more.
LEMMA OrderEnterJoin ==
  ASSUME Ordered, IInv, OInv, EnterJoin PROVE Chain' /\ \A f \in Exec : InOrder(f)'
  <1> DEFINE t == Head(todo)
             n == t.to.node
             fl == [flow[cur[1]] EXCEPT ![t.i] =
                      [@ EXCEPT !.node = n, !.join = n, !.tag = t.to.tag, !.state = "WAITING"]]
             leave(k) == IF k \in DOMAIN JoinOut[n]
                           THEN Enter(Lowest(Arrived(fl, n, k), 1), JoinOut[n][k], "Success")
                           ELSE Cut(Arrived(fl, n, k))
             all == [k \in 1 .. JoinSize[n] |-> leave(k)]
             steps == Append(all, Settle)
  <1>1. /\ pc = "enter" /\ t.op = "edge" /\ Kind[n] = "join" /\ Entering("join")
        /\ flow' = [flow EXCEPT ![cur[1]] = fl]
        /\ IF Resolved(fl, n) THEN GoOn(steps) ELSE GoOn(<<Settle>>)
        /\ UNCHANGED restOfEnter
    BY DEF EnterJoin, Entering
  <1>2. PICK e \in Exec : e = cur[1]
    BY <1>1, ChainHead
  <1>3. n \in Node /\ JoinSize[n] \in Nat
    BY <1>1, ChainHead, GroupAssumption DEF Flow
  <1>4. AtJoin(fl)
    BY DEF AtJoin
  <1> HIDE DEF fl
  <1>5. /\ fl \in [Flow -> FlowRecord] /\ \A s : Orderly(s, fl)
        /\ ~(t.o = "none" /\ Len(todo) > 1)
    BY <1>1, <1>4, JoinFlows
  <1>6. CASE ~Resolved(fl, n)
    BY <1>1, <1>5, <1>6, StillOrder
  <1>7. CASE Resolved(fl, n)
    <2> DEFINE size == JoinSize[n]
               Here(k) == Arrived(fl, n, k)
               who(k) == Lowest(Here(k), 1)
    <2>1. ASSUME NEW k \in 1 .. size, NEW i \in Here(k)
          PROVE  /\ i \in Flow /\ fl[i].active /\ fl[i].state = "WAITING" /\ fl[i].join = n
                 /\ fl[i].tag = k /\ <<i, <<n, k>>>> \in Tokens(e)
                 /\ i \notin FlowsBehind \cup CutBehind
      BY <1>1, <1>2, <1>3, <1>4, <2>1, ArrivedMarks
    <2>2. ASSUME NEW k \in 1 .. size
          PROVE  Here(k) \subseteq Flow /\ who(k) \in Here(k)
      <3>1. Here(k) \in SUBSET Flow /\ Here(k) # {}
        BY <1>7 DEF Resolved, Arrived
      <3>2. QED
        BY <3>1, LowestFlow
    <2> HIDE DEF n, t, Here, who
    <2>3. /\ Tokens(e) \in SUBSET (Flow \X Places) /\ Apart(Tokens(e)) /\ Entered(e)
      BY DEF Tokens, OInv, InOrder
    <2>4. ASSUME NEW x \in Tokens(e), x[2][1] = n
          PROVE  \E k \in 1 .. size : x = <<who(k), <<n, k>>>>
      <3>1. x[2] \in Places /\ x[2] = <<n, x[2][2]>> /\ x[2][2] \in 1 .. size
        BY <1>1, <2>3, <2>4 DEF Places
      <3>2. <<who(x[2][2]), <<n, x[2][2]>>>> \in Tokens(e)
        BY <2>1, <2>2, <3>1
      <3>3. Leads(x[2], x[2])
        BY <3>1, LeadsToItself
      <3>4. x = <<who(x[2][2]), <<n, x[2][2]>>>>
        BY <2>3, <3>1, <3>2, <3>3 DEF Apart
      <3>5. QED
        BY <3>1, <3>4
    <2>5. /\ \A k \in 1 .. size : k \in DOMAIN JoinOut[n] =>
               /\ JoinOut[n][k] \in Target /\ JoinOut[n][k] \in Exits(n)
               /\ Kind[JoinOut[n][k].node] = "join" =>
                    JoinOut[n][k].tag \in 1 .. JoinSize[JoinOut[n][k].node]
      BY <1>1, <1>3, GroupAssumption DEF Exits, Ordered, JoinTags
    <2>6. \A k \in 1 .. size : k \in DOMAIN JoinOut[n] => Place(JoinOut[n][k]) \in Places
      BY <2>5, PlaceOfTarget
    <2>7. "Success" \in Outcome \cup {"none"}
      BY DEF Outcome
    <2>8. ASSUME NEW k \in 1 .. size
          PROVE  /\ leave(k) \in ChainStep
                 /\ k \in DOMAIN JoinOut[n] =>
                      /\ leave(k).op = "edge" /\ leave(k).i = who(k)
                      /\ leave(k).to = JoinOut[n][k] /\ leave(k).o = "Success"
                 /\ k \notin DOMAIN JoinOut[n] => leave(k).op = "cut" /\ leave(k).flows = Here(k)
      <3>1. CASE k \in DOMAIN JoinOut[n]
        <4>1. leave(k) = Enter(who(k), JoinOut[n][k], "Success")
          BY <3>1 DEF who, Here
        <4>2. leave(k) \in ChainStep
          BY <2>2, <2>5, <2>7, <3>1, <4>1, EnterIsStep
        <4>3. QED
          BY <3>1, <4>1, <4>2 DEF Enter
      <3>2. CASE k \notin DOMAIN JoinOut[n]
        <4>1. leave(k) = Cut(Here(k))
          BY <3>2 DEF Here
        <4>2. leave(k) \in ChainStep
          BY <2>2, <4>1, OtherSteps
        <4>3. QED
          BY <3>2, <4>1, <4>2 DEF Cut
      <3>3. QED
        BY <3>1, <3>2
    <2> HIDE DEF leave
    <2>9. /\ all \in Seq(ChainStep) /\ Len(all) = size /\ \A k \in 1 .. size : all[k] = leave(k)
      BY <1>3, <2>8
    <2> HIDE DEF all
    <2>10. /\ Settle \in ChainStep /\ Settle.op = "settle"
      BY OtherSteps DEF Settle
    <2>11. /\ steps \in Seq(ChainStep) /\ DOMAIN steps = 1 .. size + 1
           /\ \A k \in 1 .. size : steps[k] = leave(k)
           /\ steps[size + 1].op = "settle"
      <3> HIDE DEF Settle
      <3>1. /\ steps \in Seq(ChainStep) /\ Len(steps) = size + 1
            /\ \A k \in 1 .. size : steps[k] = all[k]
            /\ steps[size + 1] = Settle
        BY <1>3, <2>9, <2>10, AppendProperties
      <3>2. QED
        BY <1>3, <2>9, <2>10, <3>1
    <2> HIDE DEF steps
    <2>12. \A k \in DOMAIN steps : k \in 1 .. size \/ k = size + 1
      BY <1>3, <2>11
    <2>13. 1 .. size \subseteq DOMAIN steps
      BY <1>3, <2>11
    <2>14. StepEdges(steps) = {k \in 1 .. size : k \in DOMAIN JoinOut[n]}
      BY <2>8, <2>11, <2>12, <2>13 DEF StepEdges
    <2>15. {l \in DOMAIN steps : steps[l].op = "cut"} = {k \in 1 .. size : k \notin DOMAIN JoinOut[n]}
      BY <2>8, <2>11, <2>12, <2>13
    <2>16. /\ \A i \in StepCuts(steps) : \E k \in 1 .. size : k \notin DOMAIN JoinOut[n] /\ i \in Here(k)
           /\ \A k \in 1 .. size : k \notin DOMAIN JoinOut[n] => Here(k) \subseteq StepCuts(steps)
      BY <2>8, <2>11, <2>15 DEF StepCuts
    <2>17. \A k \in 1 .. size : k \in DOMAIN JoinOut[n] => who(k) \in StepFlows(steps)
      BY <2>8, <2>11, <2>14 DEF StepFlows
    <2>18. StepsFit(steps, fl)
      <3>1. ASSUME NEW k \in StepEdges(steps), NEW l \in StepEdges(steps), steps[k].i = steps[l].i
            PROVE  k = l
        <4>1. /\ k \in 1 .. size /\ l \in 1 .. size /\ steps[k].i = who(k) /\ steps[l].i = who(l)
          BY <2>8, <2>11, <2>14
        <4>2. fl[who(k)].tag = k /\ fl[who(l)].tag = l
          BY <2>1, <2>2, <4>1
        <4>3. QED
          BY <3>1, <4>1, <4>2
      <3>2. ASSUME NEW k \in StepEdges(steps)
            PROVE  /\ fl[steps[k].i].active
                   /\ steps[k].i \notin FlowsBehind \cup StepCuts(steps) \cup CutBehind
                   /\ Kind[steps[k].to.node] = "join" =>
                        steps[k].to.tag \in 1 .. JoinSize[steps[k].to.node]
                   /\ steps[k].o = "Success"
        <4>1. /\ k \in 1 .. size /\ k \in DOMAIN JoinOut[n] /\ steps[k].i = who(k)
              /\ steps[k].to = JoinOut[n][k] /\ steps[k].o = "Success"
          BY <2>8, <2>11, <2>14
        <4>2. /\ fl[who(k)].active /\ fl[who(k)].tag = k /\ who(k) \notin FlowsBehind \cup CutBehind
          BY <2>1, <2>2, <4>1
        <4>3. who(k) \notin StepCuts(steps)
          <5> SUFFICES ASSUME who(k) \in StepCuts(steps) PROVE FALSE
            OBVIOUS
          <5>1. PICK l \in 1 .. size : l \notin DOMAIN JoinOut[n] /\ who(k) \in Here(l)
            BY <2>16
          <5>2. fl[who(k)].tag = l
            BY <2>1, <5>1
          <5>3. QED
            BY <4>1, <4>2, <5>1, <5>2
        <4>4. QED
          BY <2>5, <4>1, <4>2, <4>3
      <3>3. ASSUME NEW k \in DOMAIN steps, NEW l \in DOMAIN steps,
                   steps[k].op = "cut", steps[l].op = "cut", steps[k].flows \cap steps[l].flows # {}
            PROVE  k = l
        <4>1. /\ k \in 1 .. size /\ l \in 1 .. size /\ steps[k].flows = Here(k) /\ steps[l].flows = Here(l)
          BY <2>8, <2>11, <2>15, <3>3
        <4>2. PICK i : i \in Here(k) /\ i \in Here(l)
          BY <3>3, <4>1
        <4>3. fl[i].tag = k /\ fl[i].tag = l
          BY <2>1, <4>1, <4>2
        <4>4. QED
          BY <4>3
      <3>4. \A i \in StepCuts(steps) : /\ i \notin CutBehind \cup FlowsBehind
                                       /\ fl[i].active /\ fl[i].state = "WAITING"
        BY <2>1, <2>16
      <3>5. ~(Head(todo).o = "none" /\ Len(todo) > 1)
        BY <1>5 DEF t
      <3>6. QED
        BY <3>1, <3>2, <3>3, <3>4, <3>5 DEF StepsFit
    <2> DEFINE M == {x \in Tokens(e) : x[2][1] = n}
               on == {k \in 1 .. size : k \in DOMAIN JoinOut[n] /\ Kind[JoinOut[n][k].node] # "end"}
               W == {<<who(k), Place(JoinOut[n][k])>> : k \in on}
    <2>19. /\ \A w \in W : \E k \in on : w = <<who(k), Place(JoinOut[n][k])>>
           /\ \A k \in on : /\ <<who(k), Place(JoinOut[n][k])>> \in W
                            /\ k \in 1 .. size /\ k \in DOMAIN JoinOut[n]
                            /\ Kind[JoinOut[n][k].node] # "end"
           /\ W \subseteq Flow \X Places /\ M \subseteq Tokens(e)
           /\ \A k \in 1 .. size : k \in DOMAIN JoinOut[n] /\ Kind[JoinOut[n][k].node] # "end" => k \in on
      BY <2>2, <2>6
    <2>20. \A k \in 1 .. size : <<who(k), <<n, k>>>> \in M
      BY <2>1, <2>2
    <2>21. \A x \in Tokens(e) : x \in M <=> x[2][1] = n
      OBVIOUS
    <2> HIDE DEF M, W, on
    <2>22. \A k \in 1 .. size : <<n, k>> \in Places
      <3>1. \A k \in 1 .. size : <<who(k), <<n, k>>>> \in Flow \X Places
        BY <2>3, <2>19, <2>20
      <3>2. QED
        BY <3>1
    <2>23. ASSUME NEW k \in on, NEW l \in 1 .. size
           PROVE  Follows(<<n, l>>, Place(JoinOut[n][k]))
      BY <2>5, <2>19 DEF Follows
    <2>24. Shifts(Tokens(e), M, W)
      <3>1. ASSUME NEW w \in W PROVE \E x \in M : Follows(x[2], w[2])
        <4>1. PICK k \in on : w = <<who(k), Place(JoinOut[n][k])>>
          BY <2>19
        <4>2. <<who(k), <<n, k>>>> \in M /\ Follows(<<n, k>>, w[2])
          BY <2>19, <2>20, <2>23, <4>1
        <4>3. QED
          BY <4>2
      <3>2. ASSUME NEW w \in W, NEW p \in Places, Follows(p, w[2]) PROVE \E x \in M : x[2] = p
        <4>1. PICK k \in on : w = <<who(k), Place(JoinOut[n][k])>>
          BY <2>19
        <4>2. p[1] = n
          BY <1>3, <2>5, <2>19, <3>2, <4>1, OneSource DEF Ordered
        <4>3. p = <<n, p[2]>> /\ p[2] \in 1 .. size
          BY <1>1, <4>2 DEF Places
        <4>4. <<who(p[2]), <<n, p[2]>>>> \in M
          BY <2>20, <4>3
        <4>5. QED
          BY <4>3, <4>4
      <3>3. ASSUME NEW w \in W, NEW v \in W, v[1] = w[1] \/ v[2] = w[2] PROVE v = w
        <4>1. PICK k \in on : w = <<who(k), Place(JoinOut[n][k])>>
          BY <2>19
        <4>2. PICK l \in on : v = <<who(l), Place(JoinOut[n][l])>>
          BY <2>19
        <4>3. k \in 1 .. size /\ l \in 1 .. size /\ k \in DOMAIN JoinOut[n] /\ l \in DOMAIN JoinOut[n]
              /\ Kind[JoinOut[n][l].node] # "end"
          BY <2>19
        <4>4. who(k) = who(l) \/ Place(JoinOut[n][l]) = Place(JoinOut[n][k])
          BY <3>3, <4>1, <4>2
        <4>5. who(k) = who(l) => k = l
          <5>1. fl[who(k)].tag = k /\ fl[who(l)].tag = l
            BY <2>1, <2>2, <4>3
          <5>2. QED
            BY <5>1
        <4>6. Place(JoinOut[n][l]) = Place(JoinOut[n][k]) => k = l
          BY <1>1, <1>3, <4>3 DEF Ordered, OneWayIn
        <4>7. QED
          BY <4>1, <4>2, <4>4, <4>5, <4>6
      <3>4. ASSUME NEW w \in W, NEW x \in Tokens(e) \ M PROVE w[1] # x[1]
        <4>1. PICK k \in on : w = <<who(k), Place(JoinOut[n][k])>>
          BY <2>19
        <4>2. <<who(k), <<n, k>>>> \in M /\ <<who(k), <<n, k>>>> \in Tokens(e)
          BY <2>19, <2>20
        <4>3. w[1] = who(k) /\ <<who(k), <<n, k>>>>[1] = who(k)
          BY <4>1
        <4>4. QED
          BY <2>3, <4>2, <4>3 DEF Apart
      <3>5. QED
        BY <2>19, <3>1, <3>2, <3>3, <3>4 DEF Shifts
    <2>25. ASSUME NEW w \in W PROVE MayEnter(e, w[2])
      <3>1. PICK k \in on : w = <<who(k), Place(JoinOut[n][k])>>
        BY <2>19
      <3>2. /\ k \in DOMAIN JoinOut[n] /\ Kind[JoinOut[n][k].node] # "end" /\ JoinOut[n][k] \in Exits(n)
            /\ w[2] = Place(JoinOut[n][k])
        BY <2>5, <2>19, <3>1
      <3> SUFFICES ASSUME NEW j \in Node, Kind[j] = "join", NEW m \in Entrants(j)
                   PROVE  /\ w[2] # Place(OnSuccess[m])
                          /\ \A l \in DOMAIN JoinOut[j] : w[2] = Place(JoinOut[j][l]) => Won(e, m)
        BY DEF MayEnter
      <3>3. m \in Node /\ Kind[m] = "action" /\ OnSuccess[m] \in Exits(m) /\ OnSuccess[m].node = j
        BY DEF Entrants, Exits
      <3>4. w[2] # Place(OnSuccess[m])
        BY <1>1, <1>3, <3>2, <3>3 DEF Ordered, OneWayIn
      <3>5. ASSUME NEW l \in DOMAIN JoinOut[j], w[2] = Place(JoinOut[j][l]) PROVE Won(e, m)
        <4>1. JoinOut[j][l] \in Exits(j)
          BY DEF Exits
        <4>2. j = n
          <5>1. Place(JoinOut[n][k]) = Place(JoinOut[j][l])
            BY <3>2, <3>5
          <5>2. QED
            BY <1>3, <3>2, <4>1, <5>1 DEF Ordered, OneWayIn
        <4>3. OnSuccess[m].tag \in 1 .. size /\ Place(OnSuccess[m]) = <<n, OnSuccess[m].tag>>
          BY <1>1, <3>3, <4>2 DEF Ordered, JoinTags, Place
        <4>4. <<who(OnSuccess[m].tag), <<n, OnSuccess[m].tag>>>> \in Tokens(e)
          BY <2>19, <2>20, <4>3
        <4>5. MayEnter(e, <<n, OnSuccess[m].tag>>)
          BY <2>3, <4>4 DEF Entered
        <4>6. QED
          BY <4>3, <4>5 DEF MayEnter
      <3>6. QED
        BY <3>4, <3>5
    <2>26. ASSUME NEW x \in (Tokens(e) \ M) \cup W, NEW k \in 1 .. size
           PROVE  ~Leads(x[2], <<n, k>>)
      <3>1. CASE x \in Tokens(e) \ M
        <4>1. <<who(k), <<n, k>>>> \in M /\ <<who(k), <<n, k>>>> \in Tokens(e)
          BY <2>19, <2>20
        <4>2. <<who(k), <<n, k>>>>[2] = <<n, k>>
          OBVIOUS
        <4>3. QED
          BY <2>3, <3>1, <4>1, <4>2 DEF Apart
      <3>2. CASE x \in W
        <4>1. PICK l \in on : x = <<who(l), Place(JoinOut[n][l])>>
          BY <2>19, <3>2
        <4>2. Follows(<<n, k>>, x[2]) /\ x[2] \in Places
          BY <2>6, <2>19, <2>23, <4>1
        <4>3. QED
          BY <2>22, <4>2 DEF Ordered, Acyclic
      <3>3. QED
        BY <3>1, <3>2
    <2>27. ASSUME NEW k \in 1 .. size, NEW i \in Here(k)
           PROVE  Passed(fl, (Tokens(e) \ M) \cup W, i)
      <3>1. fl[i].join = n
        BY <2>1, <2>27
      <3>2. \A x \in (Tokens(e) \ M) \cup W, l \in 1 .. JoinSize[n] : ~Leads(x[2], <<n, l>>)
        BY <2>26
      <3>3. QED
        BY <3>1, <3>2 DEF Passed
    <2>28. Advances(e, steps, fl, M, W)
      <3>1. \A k \in StepEdges(steps) :
              Kind[steps[k].to.node] # "end" => <<steps[k].i, Place(steps[k].to)>> \in W
        BY <2>8, <2>11, <2>14, <2>19
      <3>2. ASSUME NEW x \in M
            PROVE  x[1] \notin FlowsBehind /\ x[1] \in StepFlows(steps) \cup StepCuts(steps)
        <4>1. PICK k \in 1 .. size : x = <<who(k), <<n, k>>>>
          BY <2>4, <2>19, <2>21
        <4>2. x[1] = who(k)
          BY <4>1
        <4>3. who(k) \in Here(k) /\ who(k) \notin FlowsBehind
          BY <2>1, <2>2
        <4>4. QED
          BY <2>16, <2>17, <4>2, <4>3
      <3>3. \A i \in StepCuts(steps) : Passed(fl, (Tokens(e) \ M) \cup W, i)
        BY <2>16, <2>27
      <3>4. \A k \in StepEdges(steps) : Passed(fl, (Tokens(e) \ M) \cup W, steps[k].i)
        BY <2>2, <2>8, <2>11, <2>14, <2>27
      <3>5. QED
        BY <2>24, <2>25, <3>1, <3>2, <3>3, <3>4 DEF Advances
    <2>29. GoOn(steps) /\ Orderly(steps, fl) /\ Acyclic
      BY <1>1, <1>5, <1>7 DEF Ordered
    <2>30. QED
      BY <1>1, <1>2, <1>5, <2>11, <2>18, <2>28, <2>29, ChainStepOrder
  <1>8. QED
    BY <1>6, <1>7
\* Every step of a chain keeps the order.
LEMMA OrderEdges ==
  ASSUME Ordered, IInv, OInv, Edges PROVE Chain' /\ \A f \in Exec : InOrder(f)'
  <1>1. ~AdmitItem /\ ~Collect /\ ~EachFinish /\ ~EnterEach
    <2>1. ASSUME pc = "enter" PROVE each[cur[1]].region = "none"
      <3>1. each[cur[1]] \in EachRecord
        BY <2>1, ChainHead
      <3>2. QED
        BY <3>1 DEF EachRecord, AllOnly, Ordered
    <2>2. ~Entering("each")
      BY ChainHead DEF Entering, AllOnly, Ordered
    <2>3. ~EnterEach
      BY <2>2 DEF EnterEach
    <2>4. ~AdmitItem
      BY <2>1 DEF AdmitItem
    <2>5. ~Collect
      BY <2>1 DEF Collect, Entering
    <2>6. ~EachFinish
      BY <2>1 DEF EachFinish
    <2>7. QED
      BY <2>3, <2>4, <2>5, <2>6
  <1>2. QED
    BY <1>1, OrderEnterAction, OrderEnterFork, OrderEnterDispatch, OrderEnterJoin, OrderCutFlow,
       OrderEnterTerminal, OrderMaybeComplete DEF Edges

-----------------------------------------------------------------------------
(* What the loop does outside the chain *)

\* The step prepares nothing, and the journal forgets no success.
Remembers ==
  /\ route' = route
  /\ \A e \in Exec, r \in Req : /\ jdel'[e][r] # "none" => jdel[e][r] # "none"
                                /\ jdel[e][r] = "Success" => jdel'[e][r] = "Success"

\* Nothing new is delivered, so what was delivered in order stays so.
LEMMA JournalOrder ==
  ASSUME JInv, Remembers PROVE JInv'
  <1>1. ActionsDelivered'
    BY DEF JInv, Remembers, ActionsDelivered
  <1>2. NodesRunOnce'
    BY DEF JInv, Remembers, NodesRunOnce
  <1>3. ASSUME NEW e \in Exec PROVE JoinsWaited(e)'
    <2>1. ASSUME NEW n PROVE Succeeded(e, n) \subseteq Succeeded(e, n)'
      BY DEF Remembers, Succeeded
    <2>2. JoinsWaited(e)
      BY DEF JInv
    <2> SUFFICES ASSUME NEW j \in Node, NEW r \in Req, Kind[j] = "join", NEW k \in DOMAIN JoinOut[j],
                        NEW n \in Entrants(j), jdel'[e][r] # "none",
                        route'[e][r][1] = JoinOut[j][k].node
                 PROVE  Succeeded(e, n)' # {}
      BY DEF JoinsWaited, Entrants
    <2>3. jdel[e][r] # "none" /\ route[e][r][1] = JoinOut[j][k].node
      BY DEF Remembers
    <2>4. Succeeded(e, n) # {}
      BY <2>2, <2>3 DEF JoinsWaited
    <2>5. QED
      BY <2>1, <2>4
  <1>4. QED
    BY <1>1, <1>2, <1>3 DEF JInv, Remembers

\* A record about an open delivery forgets nothing.
LEMMA OpenFact ==
  ASSUME UNCHANGED route, NEW e \in Exec, NEW r \in Req, IsOpen(e, r), NEW o,
         \A f \in Exec, q \in Req : jdel'[f][q] = IF f = e /\ q = r THEN o ELSE jdel[f][q]
  PROVE  Remembers
  BY DEF Remembers, IsOpen

\* A step without a record forgets nothing.
LEMMA SameFacts ==
  ASSUME UNCHANGED <<route, jdel>> PROVE Remembers
  BY DEF Remembers

\* What a step that starts no chain leaves of the flows.
KeepsWork ==
  \A e \in Exec, i \in Flow : flow'[e][i].active =>
    /\ flow[e][i].active /\ flow'[e][i].node = flow[e][i].node
    /\ flow'[e][i].join = flow[e][i].join /\ flow'[e][i].tag = flow[e][i].tag
    /\ \/ flow'[e][i].state = flow[e][i].state
       \/ /\ flow[e][i].state \in {"PREPARED", "SENT"}
          /\ flow'[e][i].state \in {"PREPARED", "SENT"}
    /\ dlv'[e][i].req = dlv[e][i].req /\ dlv'[e][i].node = dlv[e][i].node

\* A chain without steps is in order.
LEMMA NoChain ==
  ASSUME todo' = <<>> PROVE Chain'
  <1>1. EdgesLeft' = {} /\ CutsLeft' = {}
    BY DEF EdgesLeft, CutsLeft
  <1>2. Doomed(cur[1])' = {}
    BY <1>1 DEF Doomed
  <1>3. QED
    BY <1>1, <1>2 DEF Chain

\* A step that starts no chain keeps the order.
LEMMA IdleStep ==
  ASSUME Ordered, OInv, todo = <<>>, todo' = <<>>, Remembers, KeepsWork,
         \A e \in Exec, n \in Node : Winning(e, n) => Won(e, n)'
  PROVE  Chain' /\ \A e \in Exec : InOrder(e)'
  <1>1. Chain'
    BY NoChain
  <1>2. ASSUME NEW e \in Exec PROVE InOrder(e)'
    <2>1. Quiet(e) /\ Quiet(e)'
      BY DEF Quiet
    <2>2. ASSUME NEW n \in Node, Won(e, n) PROVE Won(e, n)'
      <3>1. Succeeded(e, n) \subseteq Succeeded(e, n)'
        BY DEF Remembers, Succeeded
      <3>2. QED
        BY <2>2, <3>1 DEF Won
    <2>3. /\ ActionsDelivered /\ InOrder(e) /\ Acyclic /\ route'[e] = route[e]
          /\ \A r \in Req : jdel'[e][r] # "none" => jdel[e][r] # "none"
      BY DEF OInv, Ordered, Remembers
    <2>4. \A i \in Flow : flow'[e][i].active =>
           /\ flow[e][i].active /\ flow'[e][i].node = flow[e][i].node
           /\ flow'[e][i].join = flow[e][i].join /\ flow'[e][i].tag = flow[e][i].tag
           /\ \/ flow'[e][i].state = flow[e][i].state
              \/ /\ flow[e][i].state \in {"PREPARED", "SENT"}
                 /\ flow'[e][i].state \in {"PREPARED", "SENT"}
           /\ dlv'[e][i].req = dlv[e][i].req /\ dlv'[e][i].node = dlv[e][i].node
      BY DEF KeepsWork
    <2>5. QED
      BY <2>1, <2>2, <2>3, <2>4, QuietOrder
  <1>3. QED
    BY <1>1, <1>2
\* The invariant while the loop runs.
LEMMA OrderParts ==
  ASSUME TInv, pc # "ended" PROVE JInv /\ OInv
  BY DEF TInv, JInv, OInv

\* A step outside the chain that starts none keeps the invariant.
LEMMA OutsideStep ==
  ASSUME Ordered, IInv, TInv, pc \notin {"enter", "ended"}, todo' = <<>>, Remembers, KeepsWork,
         \A e \in Exec, n \in Node : Winning(e, n) => Won(e, n)'
  PROVE  TInv'
  <1>1. todo = <<>> /\ JInv /\ OInv
    BY OrderParts DEF IInv, Control
  <1>2. JInv'
    BY <1>1, JournalOrder
  <1>3. Chain' /\ \A e \in Exec : InOrder(e)'
    BY <1>1, IdleStep
  <1>4. QED
    BY <1>2, <1>3 DEF JInv, TInv

\* A delivery that keeps its request and its node keeps its work.
LEMMA WorkKept ==
  ASSUME UNCHANGED flow,
         \/ UNCHANGED dlv
         \/ \A e \in Exec, i \in Flow : /\ dlv'[e][i].req = dlv[e][i].req
                                        /\ dlv'[e][i].node = dlv[e][i].node
  PROVE  KeepsWork
  BY DEF KeepsWork

\* The steps that leave the flows and the deliveries alone.
LEMMA OrderUnmoved ==
  ASSUME Ordered, IInv, TInv, pc \notin {"enter", "closing", "ended"},
         UNCHANGED <<flow, dlv, jdel, route, todo>>
  PROVE  TInv'
  <1>1. todo' = <<>>
    BY DEF IInv, Control
  <1>2. KeepsWork
    BY WorkKept
  <1>3. Remembers
    BY SameFacts
  <1>4. \A e \in Exec, n \in Node : ~Winning(e, n)
    BY DEF Winning
  <1>5. QED
    BY <1>1, <1>2, <1>3, <1>4, OutsideStep

\* The steps that change who owns an Action, and nothing else of the work.
LEMMA OrderOwner ==
  ASSUME Ordered, IInv, TInv, pc \notin {"enter", "closing", "ended"},
         NEW e \in Exec, NEW i \in Flow, NEW b \in BOOLEAN, dlv' = [dlv EXCEPT ![e][i].owns = b],
         UNCHANGED <<flow, jdel, route, todo>>
  PROVE  TInv'
  <1>1. todo' = <<>> /\ dlv \in [Exec -> [Flow -> DlvRecord]]
    BY DEF IInv, Control, ArenaType
  <1>2. \A f \in Exec, j \in Flow : dlv'[f][j].req = dlv[f][j].req /\ dlv'[f][j].node = dlv[f][j].node
    BY <1>1, OwnsEffect
  <1>3. KeepsWork
    BY <1>2, WorkKept
  <1>4. Remembers
    BY SameFacts
  <1>5. \A f \in Exec, n \in Node : ~Winning(f, n)
    BY DEF Winning
  <1>6. QED
    BY <1>1, <1>3, <1>4, <1>5, OutsideStep

\* hermas_group_mark_sent: a prepared flow becomes sent.
LEMMA OrderMarkSent ==
  ASSUME Ordered, IInv, TInv, MarkSent PROVE TInv'
  <1>1. /\ JournalTypeOK /\ ArenaType /\ Control /\ Served1 /\ LoopType /\ pc = "sent"
        /\ \A e \in Exec, i \in Flow : Owned(e, i)
    BY Parts DEF MarkSent
  <1>2. PICK e \in Exec, i \in Flow : cur = <<e, i>>
    BY <1>1 DEF Control, ArenaType
  <1>3. /\ dlv[e][i].owns /\ flow[e][i].state = "PREPARED" /\ dlv[e][i].req \in Req
        /\ IsOpen(e, dlv[e][i].req) /\ todo = <<>>
    BY <1>1, <1>2 DEF Served1, Owned, Control, ArenaType, DlvRecord
  <1>4. /\ UNCHANGED <<route, todo, dlv>> /\ AppendSent(e, dlv[e][i].req)
        /\ UNCHANGED flow \/ flow' = [flow EXCEPT ![e][i].state = "SENT"]
    BY <1>2 DEF MarkSent
  <1>5. Remembers
    <2> DEFINE r == dlv[e][i].req
    <2>1. \A f \in Exec, q \in Req : jdel'[f][q] = IF f = e /\ q = r THEN "sent" ELSE jdel[f][q]
      BY <1>1, <1>3, <1>4, SentEffect
    <2>2. r \in Req /\ IsOpen(e, r)
      BY <1>3
    <2> HIDE DEF r
    <2>3. QED
      BY <1>4, <2>1, <2>2, OpenFact
  <1>6. KeepsWork
    <2>1. CASE UNCHANGED flow
      BY <1>4, <2>1, WorkKept
    <2>2. CASE flow' = [flow EXCEPT ![e][i].state = "SENT"]
      <3>1. flow \in [Exec -> [Flow -> FlowRecord]]
        BY <1>1 DEF ArenaType
      <3>2. ASSUME NEW f \in Exec, NEW j \in Flow
            PROVE  flow'[f][j] = IF f = e /\ j = i THEN [flow[e][i] EXCEPT !.state = "SENT"] ELSE flow[f][j]
        BY <2>2, <3>1
      <3>3. flow[e][i] \in FlowRecord
        BY <3>1
      <3>4. ASSUME NEW f \in Exec, NEW j \in Flow
            PROVE  /\ flow'[f][j].active = flow[f][j].active /\ flow'[f][j].node = flow[f][j].node
                   /\ flow'[f][j].join = flow[f][j].join /\ flow'[f][j].tag = flow[f][j].tag
                   /\ \/ flow'[f][j].state = flow[f][j].state
                      \/ flow[f][j].state = "PREPARED" /\ flow'[f][j].state = "SENT"
        BY <1>3, <3>2, <3>3 DEF FlowRecord
      <3>5. QED
        BY <1>4, <3>4 DEF KeepsWork
    <2>3. QED
      BY <1>4, <2>1, <2>2
  <1>7. \A f \in Exec, n \in Node : ~Winning(f, n)
    BY <1>1 DEF Winning
  <1>8. QED
    BY <1>1, <1>3, <1>4, <1>5, <1>6, <1>7, OutsideStep

\* The closing fact of an accepted success is a success of its node.
LEMMA OrderClose ==
  ASSUME Ordered, IInv, TInv, Close PROVE TInv'
  <1>1. /\ JournalTypeOK /\ ArenaType /\ Control /\ Accepting /\ LoopType /\ pc = "closing"
        /\ \A e \in Exec, i \in Flow : Owned(e, i)
    BY Parts DEF Close
  <1>2. PICK e \in Exec, i \in Flow : cur = <<e, i>>
    BY <1>1 DEF Control, ArenaType
  <1>3. /\ dlv[e][i].owns /\ dlv[e][i].req \in Req /\ verdict \in Outcome
        /\ IsOpen(e, dlv[e][i].req) /\ todo = <<>>
    BY <1>1, <1>2 DEF Accepting, Owned, Control, ArenaType, DlvRecord, LoopType, Outcome
  <1>4. /\ UNCHANGED <<flow, route, todo>> /\ AppendClosing(e, dlv[e][i].req, verdict)
        /\ dlv' = [dlv EXCEPT ![e][i].owns = FALSE]
    BY <1>2 DEF Close, runVars
  <1> DEFINE r == dlv[e][i].req
  <1>5. \A f \in Exec, q \in Req : jdel'[f][q] = IF f = e /\ q = r THEN verdict ELSE jdel[f][q]
    BY <1>1, <1>3, <1>4, ClosingEffect
  <1>6. r \in Req /\ IsOpen(e, r) /\ r = dlv[e][i].req
    BY <1>3
  <1> HIDE DEF r
  <1>7. Remembers
    BY <1>4, <1>5, <1>6, OpenFact
  <1>8. KeepsWork
    <2>1. \A f \in Exec, j \in Flow : dlv'[f][j].req = dlv[f][j].req /\ dlv'[f][j].node = dlv[f][j].node
      BY <1>1, <1>4, OwnsEffect DEF ArenaType
    <2>2. QED
      BY <1>4, <2>1, WorkKept
  <1>9. ASSUME NEW f \in Exec, NEW n \in Node, Winning(f, n) PROVE Won(f, n)'
    <2>1. f = e /\ verdict = "Success" /\ route[e][r][1] = n
      BY <1>2, <1>6, <1>9 DEF Winning
    <2>2. r \in Succeeded(e, n)'
      BY <1>4, <1>5, <1>6, <2>1 DEF Succeeded
    <2>3. QED
      BY <2>1, <2>2 DEF Won
  <1>10. QED
    BY <1>1, <1>3, <1>4, <1>7, <1>8, <1>9, OutsideStep

\* hermas_daemon_loop_release: a returned execution has no flow left.
LEMMA OrderReturn ==
  ASSUME Ordered, IInv, TInv, NEW e \in Exec, Return(e) PROVE TInv'
  <1>1. /\ pc = "idle" /\ UNCHANGED <<jdel, route, todo>>
        /\ flow' = [flow EXCEPT ![e] = [i \in Flow |-> NoFlow]]
        /\ dlv' = [dlv EXCEPT ![e] = [i \in Flow |-> NoDlv]]
    BY DEF Return, journalVars, pcVars
  <1>2. /\ todo = <<>> /\ flow \in [Exec -> [Flow -> FlowRecord]]
        /\ dlv \in [Exec -> [Flow -> DlvRecord]]
    BY <1>1 DEF IInv, Control, ArenaType
  <1>3. KeepsWork
    <2>1. \A f \in Exec : f # e => flow'[f] = flow[f] /\ dlv'[f] = dlv[f]
      BY <1>1, <1>2
    <2>2. \A i \in Flow : ~flow'[e][i].active
      BY <1>1, <1>2 DEF NoFlow
    <2>3. QED
      BY <2>1, <2>2 DEF KeepsWork
  <1>4. Remembers
    BY <1>1, SameFacts
  <1>5. \A f \in Exec, n \in Node : ~Winning(f, n)
    BY <1>1 DEF Winning
  <1>6. QED
    BY <1>1, <1>2, <1>3, <1>4, <1>5, OutsideStep
\* The steps of the apps, and steps that change nothing.
LEMMA OrderFrame ==
  ASSUME TInv, UNCHANGED <<jdel, route, flow, dlv, pc, cur, verdict, after, todo>> PROVE TInv'
  <1>1. EdgesLeft' = EdgesLeft /\ CutsLeft' = CutsLeft
    BY DEF EdgesLeft, CutsLeft
  <1>2. \A e, i : /\ Busy(e)' = Busy(e) /\ Doomed(e)' = Doomed(e) /\ Behind(e)' = Behind(e)
                  /\ Settled(e, i)' = Settled(e, i)
    BY <1>1 DEF Busy, Doomed, Behind, Settled
  <1>3. \A e, n : Succeeded(e, n)' = Succeeded(e, n) /\ (Winning(e, n)' <=> Winning(e, n))
    BY DEF Succeeded, Winning
  <1>4. \A e : Tokens(e)' = Tokens(e)
    BY <1>1, <1>2 DEF Tokens, OnEdge, AtNode, Waiting
  <1>5. ASSUME NEW e \in Exec, InOrder(e) PROVE InOrder(e)'
    <2>1. Routed(e)' /\ Tagged(e)' /\ Apart(Tokens(e))'
      BY <1>2, <1>4, <1>5 DEF InOrder, Routed, Tagged, Waiting, Apart, Leads, Closed, Follows
    <2>2. JoinsPassed(e)'
      BY <1>2, <1>4, <1>5 DEF InOrder, JoinsPassed, Leads, Closed, Follows
    <2>3. DeliveriesPassed(e)'
      BY <1>2, <1>4, <1>5 DEF InOrder, DeliveriesPassed, Carries, Leads, Closed, Follows
    <2>4. Entered(e)'
      BY <1>3, <1>4, <1>5 DEF InOrder, Entered, MayEnter, Won, Entrants
    <2>5. QED
      BY <2>1, <2>2, <2>3, <2>4 DEF InOrder
  <1>6. Chain => Chain'
    BY <1>1, <1>2 DEF Chain
  <1>7. JInv'
    BY SameFacts, JournalOrder DEF TInv, JInv
  <1>8. QED
    BY <1>5, <1>6, <1>7 DEF TInv, JInv

\* A flow whose delivery ends takes an edge of its node, or enters a terminal.
LEMMA ChainStarts ==
  ASSUME Ordered, IInv, TInv, pc \notin {"enter", "closing", "ended"},
         NEW e \in Exec, NEW i \in Flow, flow[e][i].active, flow[e][i].state \in {"PREPARED", "SENT"},
         UNCHANGED flow, Remembers,
         \A f \in Exec, j \in Flow : dlv'[f][j].req = dlv[f][j].req /\ dlv'[f][j].node = dlv[f][j].node,
         NEW to \in Target, NEW o, cur' = <<e, i>>, todo' = <<Enter(i, to, o)>>,
         \/ Kind[to.node] = "end"
         \/ to \in Exits(flow[e][i].node) /\ MayEnter(e, Place(to))'
  PROVE  TInv'
  <1>1. /\ todo = <<>> /\ JInv /\ OInv /\ ArenaType
        /\ \A f \in Exec, j \in Flow : InStep(f, j)
    BY OrderParts, Parts DEF Control
  <1> DEFINE n == flow[e][i].node
  <1>2. /\ n \in Node /\ Kind[n] = "action" /\ <<n, 0>> \in Places /\ <<n, 0>>[1] = n
    <2>1. Settled(e, i)
      BY <1>1, NothingBusy
    <2>2. n \in Node /\ Kind[n] = "action"
      BY <1>1, <2>1 DEF InStep, ArenaType, FlowRecord
    <2>3. QED
      BY <2>2, GroupAssumption DEF Places
  <1>3. Kind[to.node] = "join" => to.tag \in 1 .. JoinSize[to.node]
    BY <1>2 DEF Ordered, JoinTags
  <1>4. Place(to) \in Places
    BY <1>3, PlaceOfTarget
  <1>5. /\ EdgesLeft' = {1} /\ CutsLeft' = {} /\ DOMAIN todo' = {1} /\ cur'[1] = e
        /\ todo'[1].i = i /\ todo'[1].to = to /\ todo'[1].o = o /\ todo'[1].op = "edge"
    BY DEF EdgesLeft, CutsLeft, Enter
  <1>6. /\ Busy(e)' = {i} /\ Doomed(e)' = {} /\ Behind(e)' \subseteq {i}
        /\ \A j \in Flow : Settled(e, j)' <=> flow[e][j].active /\ j # i
    BY <1>5 DEF Busy, Doomed, Behind, Settled
  <1>7. /\ Busy(e) = {} /\ Doomed(e) = {} /\ Behind(e) = {}
        /\ \A j \in Flow : /\ Settled(e, j) <=> flow[e][j].active
                           /\ \A p : ~OnEdge(e, j, p)
    BY <1>1, QuietMarks DEF Quiet
  <1>8. Chain'
    <2>1. Doomed(cur[1])' = {}
      BY <1>5, <1>6
    <2>2. QED
      BY <1>3, <1>5, <2>1 DEF Chain
  <1>9. JInv'
    BY <1>1, JournalOrder
  <1> DEFINE x0 == <<i, <<n, 0>>>>
             W == IF Kind[to.node] = "end" THEN {} ELSE {<<i, Place(to)>>}
             T == Tokens(e)
  <1>10. x0 \in T /\ x0[1] = i /\ x0[2] = <<n, 0>> /\ T \in SUBSET (Flow \X Places) /\ Apart(T)
    <2>1. AtNode(e, i, <<n, 0>>)
      BY <1>7 DEF AtNode
    <2>2. QED
      BY <1>1, <1>2, <2>1 DEF Tokens, OInv, InOrder
  <1>11. /\ W \in SUBSET (Flow \X Places) /\ \A w \in W : w[1] = i /\ w[2] = Place(to)
         /\ \A v, w \in W : v = w
         /\ W # {} => to \in Exits(n) /\ Kind[to.node] # "end" /\ MayEnter(e, Place(to))'
    BY <1>4
  <1>12. \A j \in Flow : \A p : OnEdge(e, j, p)' => <<j, p>> \in W
    BY <1>5 DEF OnEdge
  <1> HIDE DEF n, x0, W, T
  <1>13. Shifts(T, {x0}, W)
    <2>1. /\ \A w \in W : \E t \in Exits(x0[2][1]) : Kind[t.node] # "end" /\ w[2] = Place(t)
          /\ Kind[x0[2][1]] # "join"
          /\ \A v, w \in W : v[1] = w[1] \/ v[2] = w[2] => v = w
          /\ \A w \in W : w[1] = x0[1] \/ \A y \in T : y[1] # w[1]
      BY <1>2, <1>10, <1>11
    <2>2. QED
      BY <1>10, <1>11, <2>1, ShiftOne DEF Ordered
  <1>14. Tokens(e)' \subseteq (T \ {x0}) \cup W
    <2> SUFFICES ASSUME NEW x \in Tokens(e)', x \notin W PROVE x \in T /\ x # x0
      OBVIOUS
    <2>1. /\ x \in Flow \X Places /\ x[1] \in Flow /\ x = <<x[1], x[2]>>
          /\ OnEdge(e, x[1], x[2])' \/ AtNode(e, x[1], x[2])'
      BY DEF Tokens, Places
    <2>2. AtNode(e, x[1], x[2])'
      BY <1>12, <2>1
    <2>3. x[1] # i
      BY <1>6, <2>1, <2>2 DEF AtNode
    <2>4. AtNode(e, x[1], x[2])
      BY <1>6, <1>7, <2>1, <2>2 DEF AtNode, Waiting
    <2>5. QED
      BY <1>10, <2>1, <2>3, <2>4 DEF Tokens, T
  <1>15. Routed(e)' /\ Tagged(e)'
    <2>1. Routed(e) /\ Tagged(e)
      BY <1>1 DEF OInv, InOrder
    <2>2. Routed(e)'
      BY <1>6, <1>7, <2>1 DEF Routed, Remembers
    <2>3. Tagged(e)'
      BY <1>6, <1>7, <2>1 DEF Tagged, Waiting, Places
    <2>4. QED
      BY <2>2, <2>3
  <1>16. \A x \in {x0}, r \in Req : Carries(e, x[1], r) => x[2] = <<route[e][r][1], 0>>
    BY <1>1, <1>10 DEF OInv, InOrder, Carries, Routed, n
  <1>17. \A x \in T \ {x0}, r \in Req : x \in Tokens(e)' /\ Carries(e, x[1], r) => Carries(e, x[1], r)'
    <2> SUFFICES ASSUME NEW x \in T \ {x0}, NEW r \in Req, Carries(e, x[1], r) PROVE Carries(e, x[1], r)'
      OBVIOUS
    <2>1. x[1] \in Flow /\ x[1] # i
      BY <1>10 DEF Apart
    <2>2. QED
      BY <1>6, <1>7, <2>1 DEF Carries
  <1>18. ASSUME NEW f \in Exec, NEW m \in Node, Won(f, m) PROVE Won(f, m)'
    <2>1. Succeeded(f, m) \subseteq Succeeded(f, m)'
      BY DEF Remembers, Succeeded
    <2>2. QED
      BY <1>18, <2>1 DEF Won, Winning
  <1>19. /\ \A w \in W : MayEnter(e, w[2])'
         /\ \A j \in Behind(e)' : StaysBehind(e, j)
         /\ \A j \in Behind(e), k \in Nat :
              flow[e][j].state = "WAITING" /\ Kind[flow[e][j].join] = "join"
                /\ k \in 1 .. JoinSize[flow[e][j].join] => <<flow[e][j].join, k>> \in Places
    <2>1. \A w \in W : MayEnter(e, w[2])'
      BY <1>11 DEF MayEnter
    <2>2. \A j \in Behind(e)' : StaysBehind(e, j)
      BY <1>6 DEF StaysBehind
    <2>3. QED
      BY <1>7, <2>1, <2>2
  <1>20. /\ \A f \in Exec, r \in Req : jdel'[f][r] # "none" => jdel[f][r] # "none"
         /\ \A f \in Exec : route'[f] = route[f]
         /\ \A f \in Exec, r \in Req : jdel[f][r] # "none" =>
              route'[f][r][1] = route[f][r][1] /\ <<route[f][r][1], 0>> \in Places
    BY <1>1, GroupAssumption DEF Remembers, OInv, ActionsDelivered, Places
  <1>21. InOrder(e)'
    BY <1>1, <1>13, <1>14, <1>15, <1>16, <1>17, <1>18, <1>19, <1>20, OrderMoves DEF T, OInv, Ordered
  <1>22. ASSUME NEW f \in Exec, f # e PROVE InOrder(f)'
    <2>1. Quiet(f) /\ Quiet(f)'
      BY <1>1, <1>5, <1>22 DEF Quiet
    <2>2. QED
      BY <1>1, <1>18, <1>20, <2>1, QuietOrder DEF OInv, Ordered
  <1>23. QED
    BY <1>8, <1>9, <1>21, <1>22 DEF TInv, JInv
\* A delivery that ends without a value.
LEMMA OrderEndDelivery ==
  ASSUME Ordered, IInv, TInv, pc \in {"idle", "round"}, NEW e \in Exec, NEW i \in Flow, dlv[e][i].owns,
         NEW o \in Outcome, NEW required \in {"PREPARED", "SENT"}, EndDelivery(e, i, o, required)
  PROVE  TInv'
  <1>1. /\ JournalTypeOK /\ ArenaType /\ JInv /\ dlv \in [Exec -> [Flow -> DlvRecord]]
        /\ dlv[e][i].req \in Req /\ IsOpen(e, dlv[e][i].req)
    BY Parts, OrderParts DEF Owned, ArenaType, DlvRecord
  <1>2. UNCHANGED <<flow, route>> /\ AppendClosing(e, dlv[e][i].req, o)
    BY DEF EndDelivery, runVars
  <1>3. Remembers
    <2> DEFINE r == dlv[e][i].req
    <2>1. \A f \in Exec, q \in Req : jdel'[f][q] = IF f = e /\ q = r THEN o ELSE jdel[f][q]
      BY <1>1, <1>2, ClosingEffect
    <2>2. r \in Req /\ IsOpen(e, r)
      BY <1>1
    <2> HIDE DEF r
    <2>3. QED
      BY <1>2, <2>1, <2>2, OpenFact
  <1>4. CASE pc' = "ended"
    BY <1>1, <1>3, <1>4, JournalOrder DEF JInv, TInv
  <1>5. CASE pc' # "ended"
    <2>1. /\ flow[e][i].active /\ flow[e][i].state = required /\ dlv' = [dlv EXCEPT ![e][i].owns = FALSE]
          /\ cur' = <<e, i>> /\ todo' = <<Enter(i, End, o)>>
      BY <1>5 DEF EndDelivery
    <2>2. \A f \in Exec, j \in Flow : dlv'[f][j].req = dlv[f][j].req /\ dlv'[f][j].node = dlv[f][j].node
      BY <1>1, <2>1, OwnsEffect
    <2>3. End \in Target /\ Kind[End.node] = "end"
      BY GroupAssumption DEF End, Target
    <2> HIDE DEF End
    <2>4. QED
      BY <1>2, <1>3, <2>1, <2>2, <2>3, ChainStarts
  <1>6. QED
    BY <1>4, <1>5

\* An accepted result takes the success edge of its node, which it has won, or the
\* error edge.
LEMMA OrderAccept ==
  ASSUME Ordered, IInv, AInv, TInv, NEW e \in Exec, NEW i \in Flow, Accept(e, i) PROVE TInv'
  <1> DEFINE f == Head(answers[ActionAt(e, i)])
  <1>1. /\ Receiving(e, i) /\ UNCHANGED <<flow, route, dlv, jdel>> /\ pc = "round"
        /\ pc' = "enter" /\ after' = "closing" /\ verdict' = f.kind
    BY DEF Accept, runVars, journalVars, Receiving
  <1>2. PICK j \in Matching(e, ActionAt(e, i), f) :
          /\ cur' = <<e, j>> /\ todo' = <<Enter(j, ResultEdge(flow[e][j].node, f.kind), f.kind)>>
    BY DEF Accept
  <1>3. /\ j \in Flow /\ flow[e][j].active /\ flow[e][j].state = "SENT"
    BY <1>2 DEF Matching
  <1>a. PICK n \in Node : n = flow[e][j].node
    BY <1>1, <1>3, Parts DEF ArenaType, FlowRecord
  <1>b. PICK o : o = f.kind
    OBVIOUS
  <1>c. PICK to : to = ResultEdge(n, o)
    OBVIOUS
  <1>4. /\ n \in Node /\ Kind[n] = "action" /\ todo = <<>> /\ OInv
        /\ route[e][dlv[e][j].req][1] = n
    <2>1. /\ todo = <<>> /\ OInv /\ ArenaType /\ InStep(e, j)
      BY <1>1, <1>3, OrderParts, Parts DEF Control
    <2>2. Settled(e, j)
      BY <1>3, <2>1, NothingBusy
    <2>3. QED
      BY <1>3, <1>a, <1>b, <1>c, <2>1, <2>2 DEF InStep, ArenaType, FlowRecord, OInv, InOrder, Routed
  <1>5. /\ o = "Success" => to = OnSuccess[n]
        /\ o # "Success" => to = OnAppError[n]
        /\ OnSuccess[n] \in Exits(n) /\ OnAppError[n] \in Exits(n) /\ to \in Exits(n)
    BY <1>a, <1>b, <1>c, <1>4 DEF ResultEdge, Exits
  <1>6. /\ todo' = <<Enter(j, to, o)>> /\ verdict' = o /\ n = flow[e][j].node
    BY <1>1, <1>2, <1>a, <1>b, <1>c
  <1>7. to \in Target
    BY <1>4, <1>5, ExitIsTarget
  <1> HIDE DEF f
  <1>8. ASSUME Kind[to.node] # "end" PROVE MayEnter(e, Place(to))'
    <2> SUFFICES ASSUME NEW g \in Node, Kind[g] = "join", NEW m \in Entrants(g)
                 PROVE  /\ Place(to) = Place(OnSuccess[m]) => Won(e, m)'
                        /\ \A k \in DOMAIN JoinOut[g] : Place(to) = Place(JoinOut[g][k]) => Won(e, m)'
      BY DEF MayEnter, Entrants
    <2>1. /\ m \in Node /\ Kind[m] = "action" /\ OnSuccess[m] \in Exits(m) /\ OnSuccess[m].node = g
      BY DEF Entrants, Exits
    <2>2. \A k \in DOMAIN JoinOut[g] : JoinOut[g][k] \in Exits(g)
      BY DEF Exits
    <2>3. \A k \in DOMAIN JoinOut[g] : Place(to) # Place(JoinOut[g][k])
      <3> SUFFICES ASSUME NEW k \in DOMAIN JoinOut[g], Place(to) = Place(JoinOut[g][k]) PROVE FALSE
        OBVIOUS
      <3>1. n = g
        BY <1>4, <1>5, <1>8, <2>2 DEF OneWayIn, Ordered
      <3>2. QED
        BY <1>4, <3>1
    <2>4. ASSUME Place(to) = Place(OnSuccess[m]) PROVE Won(e, m)'
      <3>1. n = m
        BY <1>4, <1>5, <1>8, <2>1, <2>4 DEF OneWayIn, Ordered
      <3>2. o = "Success"
        <4> SUFFICES ASSUME o # "Success" PROVE FALSE
          OBVIOUS
        <4>1. to = OnAppError[m] /\ Kind[OnSuccess[m].node] # "end"
          BY <1>5, <2>1, <3>1
        <4>2. QED
          BY <2>1, <2>4, <4>1 DEF OneWayIn, Ordered
      <3>3. cur'[1] = e /\ cur'[2] = j
        BY <1>2
      <3>4. Winning(e, m)'
        BY <1>1, <1>4, <1>6, <3>1, <3>2, <3>3 DEF Winning
      <3>5. QED
        BY <3>4 DEF Won
    <2>5. QED
      BY <2>3, <2>4
  <1>9. Remembers
    BY <1>1, SameFacts
  <1>10. QED
    BY <1>1, <1>2, <1>3, <1>5, <1>6, <1>7, <1>8, <1>9, ChainStarts
\* hermas_group_start: the first flow waits on the input edge of a new execution.
LEMMA OrderAdmit ==
  ASSUME Ordered, IInv, TInv, NEW e \in Exec, Admit(e) PROVE TInv'
  <1>1. /\ pc = "idle" /\ e > jlast /\ e \notin used /\ UNCHANGED <<jdel, route, dlv>>
        /\ flow' = [flow EXCEPT ![e] = [i \in Flow |-> [NoFlow EXCEPT !.active = (i = 1)]]]
        /\ cur' = <<e, 1>> /\ todo' = <<Enter(1, Input, "none")>>
    BY DEF Admit, journalVars
  <1>2. /\ todo = <<>> /\ JInv /\ OInv /\ flow \in [Exec -> [Flow -> FlowRecord]] /\ Numbered(e)
    BY <1>1, OrderParts, Parts DEF Control, ArenaType
  <1>3. /\ \A f \in Exec : f # e => flow'[f] = flow[f]
        /\ \A i \in Flow : flow'[e][i].active <=> i = 1
    BY <1>1, <1>2 DEF NoFlow
  <1>4. \A r \in Req : jdel'[e][r] = "none"
    <2>1. nreq[e] = 1 /\ \A r \in Req : r >= nreq[e] => jdel[e][r] = "none"
      BY <1>1, <1>2 DEF Numbered
    <2>2. QED
      BY <1>1, <2>1, JournalAssumption DEF Req
  <1>5. /\ EdgesLeft' = {1} /\ CutsLeft' = {} /\ DOMAIN todo' = {1} /\ cur'[1] = e
        /\ todo'[1].i = 1 /\ todo'[1].to = Input /\ todo'[1].o = "none" /\ todo'[1].op = "edge"
    BY <1>1 DEF EdgesLeft, CutsLeft, Enter
  <1>6. /\ Busy(e)' = {1} /\ Doomed(e)' = {} /\ Behind(e)' = {} /\ \A i \in Flow : ~Settled(e, i)'
    BY <1>3, <1>5 DEF Busy, Doomed, Behind, Settled
  <1>7. ASSUME NEW x \in Tokens(e)' PROVE x = <<1, Place(Input)>> /\ Kind[Input.node] # "end"
    <2>1. x \in Flow \X Places /\ x = <<x[1], x[2]>> /\ x[1] \in Flow
      BY DEF Tokens, Places
    <2>2. OnEdge(e, x[1], x[2])'
      BY <1>6, <2>1 DEF Tokens, AtNode
    <2>3. QED
      BY <1>5, <2>1, <2>2 DEF OnEdge
  <1>8. Input \in Target /\ 1 \in Flow /\ (Kind[Input.node] = "join" => Input.tag \in 1 .. JoinSize[Input.node])
    BY GroupAssumption DEF Ordered, JoinTags, Flow
  <1>9. Chain'
    <2>1. Doomed(cur[1])' = {}
      BY <1>5, <1>6
    <2>2. QED
      BY <1>3, <1>5, <1>8, <2>1 DEF Chain
  <1>10. ASSUME Kind[Input.node] # "end" PROVE MayEnter(e, Place(Input))'
    <2> SUFFICES ASSUME NEW j \in Node, Kind[j] = "join", NEW m \in Entrants(j)
                 PROVE  /\ Place(Input) # Place(OnSuccess[m])
                        /\ \A k \in DOMAIN JoinOut[j] : Place(Input) # Place(JoinOut[j][k])
      BY DEF MayEnter, Entrants
    <2>1. /\ m \in Node /\ OnSuccess[m] \in Exits(m) /\ Kind[OnSuccess[m].node] # "end"
      BY DEF Entrants, Exits
    <2>2. Place(Input) # Place(OnSuccess[m])
      BY <2>1 DEF OneWayIn, Ordered
    <2>3. ASSUME NEW k \in DOMAIN JoinOut[j], Place(Input) = Place(JoinOut[j][k]) PROVE FALSE
      <3>1. JoinOut[j][k] \in Exits(j)
        BY DEF Exits
      <3>2. Kind[JoinOut[j][k].node] # "end"
        BY <1>10, <2>3 DEF Place
      <3>3. QED
        BY <2>3, <3>1, <3>2 DEF OneWayIn, Ordered
    <2>4. QED
      BY <2>2, <2>3
  <1>11. InOrder(e)'
    <2>1. Routed(e)' /\ Tagged(e)'
      BY <1>6 DEF Routed, Tagged
    <2>2. Apart(Tokens(e))'
      <3>1. \A x, y \in Tokens(e)' : x = y
        BY <1>7
      <3>2. QED
        BY <3>1 DEF Apart
    <2>3. JoinsPassed(e)' /\ DeliveriesPassed(e)'
      BY <1>4, <1>6 DEF JoinsPassed, DeliveriesPassed
    <2>4. Entered(e)'
      <3> SUFFICES ASSUME NEW x \in Tokens(e)' PROVE MayEnter(e, x[2])'
        BY DEF Entered
      <3>1. x[2] = Place(Input) /\ Kind[Input.node] # "end"
        BY <1>7
      <3>2. QED
        BY <1>10, <3>1 DEF MayEnter
    <2>5. QED
      BY <2>1, <2>2, <2>3, <2>4 DEF InOrder
  <1>12. ASSUME NEW f \in Exec, f # e PROVE InOrder(f)'
    <2>1. Quiet(f) /\ Quiet(f)' /\ flow'[f] = flow[f]
      BY <1>2, <1>3, <1>5, <1>12 DEF Quiet
    <2>2. \A m \in Node : Won(f, m) => Won(f, m)'
      BY <1>1 DEF Won, Winning, Succeeded
    <2>3. QED
      BY <1>1, <1>2, <2>1, <2>2, QuietOrder DEF OInv, Ordered
  <1>13. JInv'
    BY <1>1, <1>2, SameFacts, JournalOrder
  <1>14. QED
    BY <1>9, <1>11, <1>12, <1>13 DEF TInv, JInv

\* hermas_group_prepare: a node that may be entered is delivered for the first time.
LEMMA OrderPrepare ==
  ASSUME Ordered, IInv, TInv, NEW e \in Exec, NEW i \in Flow, Prepare(e, i) PROVE TInv'
  <1>0. PICK r, n : r = nreq[e] /\ n = flow[e][i].node
    OBVIOUS
  <1>1. /\ pc = "idle" /\ Preparable(e, i) /\ AppendPrepared(e, r) /\ UNCHANGED <<pc, cur, todo, after, verdict>>
        /\ flow' = [flow EXCEPT ![e][i] = [@ EXCEPT !.state = "PREPARED", !.req = r]]
        /\ dlv' = [dlv EXCEPT ![e][i] = [req |-> r, node |-> n, owns |-> FALSE]]
        /\ route' = [route EXCEPT ![e][r] = <<n, flow[e][i].item>>]
    BY <1>0 DEF Prepare, pcVars
  <1>2. /\ e \in used /\ flow[e][i].active /\ flow[e][i].state = "READY" /\ nreq[e] <= MaxReqId
    BY <1>1 DEF Preparable
  <1>3. /\ JournalTypeOK /\ ArenaType /\ flow \in [Exec -> [Flow -> FlowRecord]]
        /\ dlv \in [Exec -> [Flow -> DlvRecord]] /\ todo = <<>> /\ JInv /\ OInv
        /\ \A j \in Flow : Owned(e, j) /\ InStep(e, j) /\ (Settled(e, j) <=> flow[e][j].active)
        /\ Numbered(e)
    BY <1>1, OrderParts, Parts, NothingBusy DEF Control, ArenaType
  <1>4. r \in Req /\ r \in Nat
    BY <1>0, <1>2, <1>3, JournalAssumption DEF ArenaType, Req
  <1>5. n \in Node /\ Kind[n] = "action" /\ <<n, 0>> \in Places
    BY <1>0, <1>2, <1>3, GroupAssumption DEF InStep, FlowRecord, Places
  <1>6. \A f \in Exec, q \in Req : jdel'[f][q] = IF f = e /\ q = r THEN "prepared" ELSE jdel[f][q]
    BY <1>1, <1>3, <1>4, PreparedEffect
  <1>7. jdel[e][r] = "none"
    BY <1>0, <1>2, <1>3, <1>4 DEF Numbered
  <1>8. /\ \A f \in Exec, q \in Req : f # e \/ q # r => route'[f][q] = route[f][q]
        /\ route'[e][r][1] = n /\ route' \in [Exec -> [Req -> Node \X Nat]]
    <2>1. route \in [Exec -> [Req -> Node \X Nat]] /\ flow[e][i].item \in Nat
      BY <1>3 DEF JInv, FlowRecord
    <2> DEFINE v == <<n, flow[e][i].item>>
    <2>2. v \in Node \X Nat /\ v[1] = n
      BY <1>5, <2>1
    <2>3. route' = [route EXCEPT ![e][r] = v]
      BY <1>1
    <2> HIDE DEF v
    <2>4. QED
      BY <1>4, <2>1, <2>2, <2>3
  <1>9. /\ \A f \in Exec, j \in Flow : f # e \/ j # i => flow'[f][j] = flow[f][j] /\ dlv'[f][j] = dlv[f][j]
        /\ flow'[e][i].active /\ flow'[e][i].state = "PREPARED" /\ flow'[e][i].node = n
        /\ dlv'[e][i].req = r /\ dlv'[e][i].node = n
    <2> DEFINE v == [flow[e][i] EXCEPT !.state = "PREPARED", !.req = r]
               d == [req |-> r, node |-> n, owns |-> FALSE]
    <2>1. /\ v.active /\ v.state = "PREPARED" /\ v.node = n /\ d.req = r /\ d.node = n
      BY <1>0, <1>2, <1>3 DEF FlowRecord
    <2>2. flow' = [flow EXCEPT ![e][i] = v] /\ dlv' = [dlv EXCEPT ![e][i] = d]
      BY <1>1
    <2> HIDE DEF v, d
    <2>3. QED
      BY <1>3, <2>1, <2>2
  <1>10. \A f \in Exec : f # e => flow'[f] = flow[f] /\ dlv'[f] = dlv[f] /\ route'[f] = route[f]
    BY <1>1, <1>3 DEF JInv
  <1>11. \A j \in Flow : /\ Settled(e, j)' <=> flow'[e][j].active
                         /\ Settled(e, j) <=> flow[e][j].active
                         /\ \A p : ~OnEdge(e, j, p) /\ ~OnEdge(e, j, p)'
                         /\ j \notin Doomed(e) /\ j \notin Doomed(e)'
    <2>1. EdgesLeft = {} /\ EdgesLeft' = {} /\ CutsLeft = {} /\ CutsLeft' = {}
      BY <1>1, <1>3 DEF EdgesLeft, CutsLeft
    <2>2. QED
      BY <2>1 DEF Settled, Busy, OnEdge, Doomed
  <1> DEFINE x0 == <<i, <<n, 0>>>>
  <1>12. x0 \in Tokens(e) /\ x0[1] = i /\ x0[2] = <<n, 0>>
    <2>1. AtNode(e, i, <<n, 0>>)
      BY <1>0, <1>2, <1>11 DEF AtNode
    <2>2. QED
      BY <1>5, <2>1 DEF Tokens
  <1>13. \A q \in Req : ~Carries(e, i, q)
    BY <1>2 DEF Carries
  <1>14. /\ \A f \in Exec, m \in Node : Won(f, m) <=> Succeeded(f, m) # {}
         /\ \A f \in Exec, m \in Node : Succeeded(f, m) \subseteq Succeeded(f, m)'
    BY <1>1, <1>6, <1>7, <1>8 DEF Won, Winning, Succeeded
  <1> HIDE DEF x0
  <1>15. JInv'
    <2>1. ActionsDelivered'
      <3> SUFFICES ASSUME NEW f \in Exec, NEW q \in Req, jdel'[f][q] # "none"
                   PROVE  route'[f][q][1] \in Node /\ Kind[route'[f][q][1]] = "action"
        BY DEF ActionsDelivered
      <3>1. CASE f = e /\ q = r
        BY <1>5, <1>8, <3>1
      <3>2. CASE f # e \/ q # r
        <4>1. jdel[f][q] # "none" /\ route'[f][q] = route[f][q]
          BY <1>6, <1>8, <3>2
        <4>2. QED
          BY <1>3, <4>1 DEF JInv, ActionsDelivered
      <3>3. QED
        BY <3>1, <3>2
    <2>2. ASSUME NEW q \in Req, jdel[e][q] # "none" PROVE route[e][q][1] # n
      <3> SUFFICES ASSUME route[e][q][1] = n PROVE FALSE
        OBVIOUS
      <3>1. Leads(x0[2], <<route[e][q][1], 0>>)
        BY <1>5, <1>12, LeadsToItself
      <3>2. Carries(e, i, q)
        BY <1>3, <1>12, <2>2, <3>1 DEF OInv, InOrder, DeliveriesPassed
      <3>3. QED
        BY <1>13, <3>2
    <2>3. NodesRunOnce'
      <3> SUFFICES ASSUME NEW f \in Exec, NEW p \in Req, NEW q \in Req, jdel'[f][p] # "none",
                          jdel'[f][q] # "none", route'[f][p][1] = route'[f][q][1]
                   PROVE  p = q
        BY DEF NodesRunOnce
      <3>1. CASE f # e \/ (p # r /\ q # r)
        <4>1. jdel[f][p] # "none" /\ jdel[f][q] # "none" /\ route[f][p][1] = route[f][q][1]
          BY <1>6, <1>8, <3>1
        <4>2. QED
          BY <1>3, <4>1 DEF JInv, NodesRunOnce
      <3>2. CASE f = e /\ p = r /\ q # r
        BY <1>6, <1>8, <2>2, <3>2
      <3>3. CASE f = e /\ q = r /\ p # r
        BY <1>6, <1>8, <2>2, <3>3
      <3>4. QED
        BY <3>1, <3>2, <3>3
    <2>4. ASSUME NEW f \in Exec PROVE JoinsWaited(f)'
      <3> SUFFICES ASSUME NEW j \in Node, NEW q \in Req, Kind[j] = "join", NEW k \in DOMAIN JoinOut[j],
                          NEW m \in Entrants(j), jdel'[f][q] # "none",
                          route'[f][q][1] = JoinOut[j][k].node
                   PROVE  Succeeded(f, m)' # {}
        BY DEF JoinsWaited, Entrants
      <3>1. m \in Node
        BY DEF Entrants
      <3>2. Succeeded(f, m) # {}
        <4>1. CASE f # e \/ q # r
          <5>1. jdel[f][q] # "none" /\ route[f][q][1] = JoinOut[j][k].node
            BY <1>6, <1>8, <4>1
          <5>2. JoinsWaited(f)
            BY <1>3 DEF JInv
          <5>3. QED
            BY <5>1, <5>2 DEF JoinsWaited
        <4>2. CASE f = e /\ q = r
          <5>1. JoinOut[j][k].node = n
            BY <1>8, <4>2
          <5>2. x0[2] = Place(JoinOut[j][k])
            BY <1>5, <1>12, <5>1 DEF Place
          <5>3. MayEnter(e, x0[2])
            BY <1>3, <1>12 DEF OInv, InOrder, Entered
          <5>4. Won(e, m)
            BY <5>2, <5>3 DEF MayEnter
          <5>5. QED
            BY <1>14, <3>1, <4>2, <5>4
        <4>3. QED
          BY <4>1, <4>2
      <3>3. QED
        BY <1>14, <3>1, <3>2
    <2>5. QED
      BY <1>8, <2>1, <2>3, <2>4 DEF JInv
  <1>16. ASSUME NEW x \in Tokens(e)' PROVE x \in Tokens(e)
    <2>1. x \in Flow \X Places /\ x[1] \in Flow /\ x = <<x[1], x[2]>> /\ AtNode(e, x[1], x[2])'
      BY <1>11 DEF Tokens, Places
    <2>2. CASE x[1] = i
      <3>1. x[2] = <<n, 0>>
        BY <1>9, <2>1, <2>2 DEF AtNode
      <3>2. QED
        BY <1>12, <2>1, <2>2, <3>1 DEF x0
    <2>3. CASE x[1] # i
      <3>1. AtNode(e, x[1], x[2])
        BY <1>9, <1>11, <2>1, <2>3 DEF AtNode, Waiting
      <3>2. QED
        BY <2>1, <3>1 DEF Tokens
    <2>4. QED
      BY <2>2, <2>3
  <1>17. InOrder(e)'
    <2>0. InOrder(e)
      BY <1>3 DEF OInv
    <2>1. Routed(e)'
      <3> SUFFICES ASSUME NEW j \in Flow, flow'[e][j].active, flow'[e][j].state \in {"PREPARED", "SENT"}
                   PROVE  /\ dlv'[e][j].node = flow'[e][j].node
                          /\ route'[e][dlv'[e][j].req][1] = flow'[e][j].node
        BY <1>11 DEF Routed
      <3>1. CASE j = i
        BY <1>8, <1>9, <3>1
      <3>2. CASE j # i
        <4>1. /\ flow'[e][j] = flow[e][j] /\ dlv'[e][j] = dlv[e][j] /\ flow[e][j].active
              /\ flow[e][j].state \in {"PREPARED", "SENT"} /\ Settled(e, j)
          BY <1>3, <1>9, <3>2
        <4>2. dlv[e][j].node = flow[e][j].node /\ route[e][dlv[e][j].req][1] = flow[e][j].node
          BY <2>0, <4>1 DEF InOrder, Routed
        <4>3. Current(e, j)
          BY <1>3, <4>1 DEF InStep, Owned
        <4>4. dlv[e][j].req # r /\ dlv[e][j].req \in Req
          BY <1>0, <1>3, <1>4, <4>3 DEF Current, Numbered, DlvRecord
        <4>5. QED
          BY <1>8, <4>1, <4>2, <4>4
      <3>3. QED
        BY <3>1, <3>2
    <2>2. Tagged(e)'
      <3>1. \A j \in Flow : flow'[e][j].active /\ flow'[e][j].state = "WAITING" =>
              j # i /\ flow'[e][j] = flow[e][j]
        BY <1>9
      <3>2. QED
        BY <1>11, <2>0, <3>1 DEF InOrder, Tagged, Waiting, Places
    <2>3. Apart(Tokens(e))'
      <3>1. \A x, y \in Tokens(e)' : x[1] = y[1] \/ Leads(x[2], y[2]) => x = y
        BY <1>16, <2>0 DEF InOrder, Apart
      <3>2. QED
        BY <3>1 DEF Apart, Leads, Closed, Follows
    <2>4. JoinsPassed(e)'
      <3>1. Behind(e)' = {}
        <4>1. EdgesLeft' = {} /\ CutsLeft' = {}
          BY <1>1, <1>3 DEF EdgesLeft, CutsLeft
        <4>2. QED
          BY <4>1 DEF Behind, Doomed
      <3>2. QED
        BY <3>1 DEF JoinsPassed
    <2>5. DeliveriesPassed(e)'
      <3> SUFFICES ASSUME NEW x \in Tokens(e)', NEW q \in Req, jdel'[e][q] # "none",
                          Leads(x[2], <<route'[e][q][1], 0>>)
                   PROVE  Carries(e, x[1], q)'
        BY DEF DeliveriesPassed, Leads, Closed, Follows
      <3>1. CASE q = r
        <4>1. Leads(x[2], x0[2])
          BY <1>8, <1>12, <3>1
        <4>2. x = x0
          BY <1>12, <1>16, <2>0, <4>1 DEF InOrder, Apart
        <4>3. QED
          BY <1>9, <1>11, <1>12, <3>1, <4>2 DEF Carries
      <3>2. CASE q # r
        <4>1. Carries(e, x[1], q)
          BY <1>6, <1>8, <1>16, <2>0, <3>2 DEF InOrder, DeliveriesPassed
        <4>2. x[1] \in Flow /\ x[1] # i
          BY <1>13, <4>1 DEF Tokens
        <4>3. QED
          BY <1>9, <1>11, <4>1, <4>2 DEF Carries
      <3>3. QED
        BY <3>1, <3>2
    <2>6. Entered(e)'
      <3> SUFFICES ASSUME NEW x \in Tokens(e)' PROVE MayEnter(e, x[2])'
        BY DEF Entered
      <3>1. MayEnter(e, x[2])
        BY <1>16, <2>0 DEF InOrder, Entered
      <3>2. \A m \in Node : Won(e, m) => Won(e, m)'
        BY <1>14 DEF Won
      <3>3. QED
        BY <3>1, <3>2 DEF MayEnter, Entrants
    <2>7. QED
      BY <2>1, <2>2, <2>3, <2>4, <2>5, <2>6 DEF InOrder
  <1>18. ASSUME NEW f \in Exec, f # e PROVE InOrder(f)'
    <2>1. Quiet(f) /\ Quiet(f)' /\ flow'[f] = flow[f] /\ dlv'[f] = dlv[f] /\ route'[f] = route[f]
      BY <1>1, <1>3, <1>10, <1>18 DEF Quiet
    <2>2. \A m \in Node : Won(f, m) => Won(f, m)'
      BY <1>14 DEF Won
    <2>3. \A q \in Req : jdel'[f][q] = jdel[f][q]
      BY <1>6, <1>18
    <2>4. QED
      BY <1>3, <2>1, <2>2, <2>3, QuietOrder DEF OInv, Ordered
  <1>19. Chain'
    BY <1>1, <1>3, NoChain
  <1>20. QED
    BY <1>15, <1>17, <1>18, <1>19 DEF TInv
-----------------------------------------------------------------------------
(* The theorems *)

\* The order is kept by every step.
LEMMA NextTInv ==
  ASSUME Ordered, IInv, AInv, TInv, [Next]_vars PROVE TInv'
  <1>0. /\ LoopType /\ Control /\ ArenaType /\ OneOwner /\ RoundOwns
        /\ pc # "enter" => todo = <<>>
    BY DEF IInv, AInv, Control
  <1>01. ASSUME UNCHANGED <<jdel, route, flow, dlv, pc, cur, verdict, after, todo>> PROVE TInv'
    BY <1>01, OrderFrame
  <1>02. ASSUME NEW e \in Exec, NEW i \in Flow, <<e, i>> \in round, pc = "round" PROVE dlv[e][i].owns
    BY <1>0, <1>02 DEF RoundOwns
  <1>1. CASE UNCHANGED vars
    BY <1>1, <1>01 DEF vars, runVars, pcVars, journalVars
  <1>2. CASE Edges
    <2>1. pc = "enter" /\ UNCHANGED restOfEnter
      BY <1>2 DEF Edges, EnterAction, EnterFork, EnterDispatch, EnterJoin, CutFlow, EnterTerminal,
                  MaybeComplete, EnterEach, AdmitItem, Collect, EachFinish, Entering
    <2>2. JInv /\ OInv
      BY <2>1, OrderParts
    <2>3. UNCHANGED <<route, jdel>>
      BY <2>1 DEF restOfEnter, journalVars
    <2>4. JInv'
      BY <2>2, <2>3, SameFacts, JournalOrder
    <2>5. Chain' /\ \A f \in Exec : InOrder(f)'
      BY <1>2, <2>2, OrderEdges
    <2>6. QED
      BY <2>4, <2>5 DEF TInv
  <1>3. CASE Started \/ Finish \/ Poll
    <2>1. /\ UNCHANGED <<flow, dlv, jdel, route, todo>> /\ pc \notin {"enter", "closing", "ended"}
      BY <1>3 DEF Started, Finish, Poll, runVars, journalVars, AppendStarted, AppendFinished
    <2>2. QED
      BY <2>1, OrderUnmoved
  <1>4. CASE MarkSent
    BY <1>4, OrderMarkSent
  <1>5. CASE Close
    BY <1>5, OrderClose
  <1>6. ASSUME NEW e \in Exec, Admit(e) \/ Return(e) PROVE TInv'
    BY <1>6, OrderAdmit, OrderReturn
  <1>7. ASSUME NEW e \in Exec, NEW i \in Flow, Prepare(e, i) PROVE TInv'
    BY <1>7, OrderPrepare
  <1>8. ASSUME NEW e \in Exec, NEW i \in Flow, Assign(e, i) PROVE TInv'
    <2>1. /\ UNCHANGED <<flow, jdel, route, todo>> /\ dlv' = [dlv EXCEPT ![e][i].owns = TRUE]
          /\ pc = "idle"
      BY <1>8 DEF Assign, runVars, journalVars, pcVars
    <2>2. QED
      BY <2>1, OrderOwner
  <1>9. ASSUME NEW e \in Exec, NEW i \in Flow, Reconcile(e, i) PROVE TInv'
    <2>1. pc = "idle" /\ dlv[e][i].owns
      BY <1>9 DEF Reconcile, Missing
    <2>2. CASE EndDelivery(e, i, "Unknown", "SENT")
      <3>1. "Unknown" \in Outcome
        BY DEF Outcome
      <3>2. QED
        BY <2>1, <2>2, <3>1, OrderEndDelivery
    <2>3. CASE ~EndDelivery(e, i, "Unknown", "SENT")
      <3>1. /\ UNCHANGED <<flow, jdel, route, todo>> /\ dlv' = [dlv EXCEPT ![e][i].owns = FALSE]
        BY <1>9, <2>3 DEF Reconcile, runVars, journalVars, pcVars
      <3>2. QED
        BY <2>1, <3>1, OrderOwner
    <2>4. QED
      BY <2>2, <2>3
  <1>10. ASSUME NEW e \in Exec, NEW i \in Flow, Send(e, i) \/ ReceiveNothing(e, i) PROVE TInv'
    <2>1. /\ UNCHANGED <<flow, dlv, jdel, route, todo>> /\ pc = "round"
      BY <1>10 DEF Send, ReceiveNothing, Sending, runVars, journalVars
    <2>2. QED
      BY <2>1, OrderUnmoved
  <1>11. ASSUME NEW e \in Exec, NEW i \in Flow, SendNowhere(e, i) PROVE TInv'
    <2>1. /\ UNCHANGED <<flow, jdel, route, todo>> /\ pc = "round"
          /\ dlv' = [dlv EXCEPT ![e][i].owns = FALSE]
      BY <1>11 DEF SendNowhere, Sending, runVars, journalVars
    <2>2. QED
      BY <2>1, OrderOwner
  <1>12. ASSUME NEW e \in Exec, NEW i \in Flow, SendFails(e, i) \/ Lose(e, i) PROVE TInv'
    <2>1. /\ pc = "round" /\ <<e, i>> \in round
          /\ EndDelivery(e, i, "NotSent", "PREPARED") \/ EndDelivery(e, i, "Unknown", "SENT")
      BY <1>12 DEF SendFails, Lose, Sending, Receiving, First
    <2>2. "Unknown" \in Outcome /\ "NotSent" \in Outcome /\ dlv[e][i].owns
      BY <1>02, <2>1 DEF Outcome
    <2>3. QED
      BY <2>1, <2>2, OrderEndDelivery
  <1>13. ASSUME NEW e \in Exec, NEW i \in Flow, Reject(e, i) PROVE TInv'
    <2>1. Receiving(e, i) /\ pc = "round" /\ <<e, i>> \in round
      BY <1>13 DEF Reject, Receiving, First
    <2>2. PICK j \in Matching(e, ActionAt(e, i), Head(answers[ActionAt(e, i)])) \cup {i} :
            EndDelivery(e, j, "Unknown", "SENT")
      BY <1>13 DEF Reject
    <2>3. j = i
      BY <1>0, <2>1, <2>2, OwnAnswer
    <2>4. "Unknown" \in Outcome /\ dlv[e][i].owns
      BY <1>02, <2>1 DEF Outcome
    <2>5. QED
      BY <2>1, <2>2, <2>3, <2>4, OrderEndDelivery
  <1>14. ASSUME NEW e \in Exec, NEW i \in Flow, Accept(e, i) PROVE TInv'
    BY <1>14, OrderAccept
  <1>15. ASSUME NEW a \in Action, Register(a) \/ AppRun(a) \/ AppDies(a) PROVE TInv'
    BY <1>01, <1>15 DEF Register, AppRun, AppDies, runVars, pcVars, journalVars
  <1>16. ASSUME NEW d \in Exec \X Req, AppRunLate(d) PROVE TInv'
    BY <1>01, <1>16 DEF AppRunLate, runVars, pcVars, journalVars
  <1>17. QED
    BY <1>1, <1>2, <1>3, <1>4, <1>5, <1>6, <1>7, <1>8, <1>9, <1>10, <1>11, <1>12, <1>13, <1>14,
       <1>15, <1>16 DEF Next, Served

\* Before the first execution nothing is delivered and no flow runs.
LEMMA InitTInv == Init => TInv
  <1> SUFFICES ASSUME Init PROVE TInv
    OBVIOUS
  <1>1. /\ todo = <<>> /\ flow = [e \in Exec |-> [i \in Flow |-> NoFlow]]
        /\ route = [e \in Exec |-> [r \in Req |-> <<Input.node, 0>>]]
        /\ jdel = [e \in Exec |-> [r \in Req |-> "none"]]
    BY DEF Init, JournalInit
  <1>2. JInv
    <2>1. Input.node \in Node
      BY GroupAssumption DEF Target
    <2>2. \A e \in Exec, r \in Req : jdel[e][r] = "none"
      BY <1>1
    <2>3. QED
      BY <1>1, <2>1, <2>2 DEF JInv, ActionsDelivered, NodesRunOnce, JoinsWaited
  <1>3. EdgesLeft = {} /\ CutsLeft = {}
    BY <1>1 DEF EdgesLeft, CutsLeft
  <1>4. Chain
    BY <1>3 DEF Chain, Doomed
  <1>5. ASSUME NEW e \in Exec PROVE InOrder(e)
    <2>1. \A i \in Flow : ~Settled(e, i) /\ \A p : ~OnEdge(e, i, p)
      BY <1>1, <1>3 DEF Settled, NoFlow, OnEdge
    <2>2. Tokens(e) = {}
      BY <2>1 DEF Tokens, AtNode
    <2>3. QED
      BY <2>1, <2>2 DEF InOrder, Routed, Tagged, Apart, JoinsPassed, DeliveriesPassed, Entered
  <1>6. QED
    BY <1>2, <1>4, <1>5 DEF TInv

\* No Action node of an `all` graph is delivered twice in one execution.
THEOREM NodesAreDeliveredOnce ==
  ASSUME Ordered PROVE Spec => []NodesRunOnce
  <1>1. Init => IInv /\ AInv /\ TInv
    BY InitIInv, InitAInv, InitTInv
  <1>2. IInv /\ AInv /\ TInv /\ [Next]_vars => (IInv /\ AInv /\ TInv)'
    BY NextIInv, NextAInv, NextTInv DEF Ordered
  <1>3. TInv => NodesRunOnce
    BY DEF TInv, JInv
  <1>4. QED
    BY <1>1, <1>2, <1>3, PTL DEF Spec

\* What follows a Join is delivered once, after every Action that enters the Join
\* has succeeded.
THEOREM JoinsWaitForAll ==
  ASSUME Ordered PROVE Spec => []JoinWaitsForAll
  <1>1. Init => IInv /\ AInv /\ TInv
    BY InitIInv, InitAInv, InitTInv
  <1>2. IInv /\ AInv /\ TInv /\ [Next]_vars => (IInv /\ AInv /\ TInv)'
    BY NextIInv, NextAInv, NextTInv DEF Ordered
  <1>3. TInv => JoinWaitsForAll
    <2> SUFFICES ASSUME TInv, NEW e \in Exec, NEW j \in Node, Kind[j] = "join", NEW k \in DOMAIN JoinOut[j]
                 PROVE  LET next == {r \in Req : jdel[e][r] # "none" /\ route[e][r][1] = JoinOut[j][k].node}
                        IN /\ Cardinality(next) <= 1
                           /\ next # {} => \A n \in Node : Kind[n] = "action" =>
                                (OnSuccess[n].node = j => Succeeded(e, n) # {})
      BY DEF JoinWaitsForAll
    <2> DEFINE next == {r \in Req : jdel[e][r] # "none" /\ route[e][r][1] = JoinOut[j][k].node}
    <2>1. NodesRunOnce /\ JoinsWaited(e)
      BY DEF TInv, JInv
    <2>2. \A r, q \in next : r = q
      BY <2>1 DEF NodesRunOnce
    <2>3. next # {} => \A n \in Node : Kind[n] = "action" => (OnSuccess[n].node = j => Succeeded(e, n) # {})
      BY <2>1 DEF JoinsWaited, Entrants
    <2> HIDE DEF next
    <2>4. Cardinality(next) <= 1
      <3>1. CASE next = {}
        BY <3>1, FS_EmptySet
      <3>2. CASE next # {}
        <4>1. PICK r : next = {r}
          BY <2>2, <3>2
        <4>2. QED
          BY <4>1, FS_Singleton
      <3>3. QED
        BY <3>1, <3>2
    <2>5. QED
      BY <2>3, <2>4 DEF next
  <1>4. QED
    BY <1>1, <1>2, <1>3, PTL DEF Spec

=============================================================================
