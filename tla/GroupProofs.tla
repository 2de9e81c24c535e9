---------------------------- MODULE GroupProofs ----------------------------
(***************************************************************************)
(* Theorems about GroupLoop, for every graph, number of flows, executions  *)
(* and requests.                                                           *)
(*                                                                         *)
(* A flow keeps its last state when it ends, and is given other work with  *)
(* that state still in it.  So the state of a flow says something about    *)
(* its delivery only while it is active and no edge of the chain waits for *)
(* it (Settled); what the loop may do over a stale entry of the round rests*)
(* on the ownership of the Action instead (Owned).                         *)
(***************************************************************************)
EXTENDS GroupGraph, TLAPS, FiniteSetTheorems, SequenceTheorems,
  WellFoundedInduction

FlowState == {"EMPTY", "READY", "PREPARED", "SENT", "WAITING"}
FlowRecord == [active : BOOLEAN, state : FlowState, node : Node, req : 0 .. MaxReqId,
               join : Node, tag : Nat, region : Node \cup {"none"}, item : Nat]
DlvRecord  == [req : Req, node : Node, owns : BOOLEAN]
EachRecord == [region : {n \in Node : Kind[n] = "each"} \cup {"none"}, coord : Flow,
               count : Nat, next : Nat, flush : Nat]
EdgeStep   == [op : {"edge"}, i : Flow, to : Target, o : Outcome \cup {"none"}]
ChainStep  == EdgeStep \cup [op : {"cut"}, flows : SUBSET Flow]
                \cup [op : {"settle", "admit", "collected"}]
Invocation == Exec \X Req
Frame      == [e : Exec, r : Req, kind : Answer]

-----------------------------------------------------------------------------
(* The invariant *)

ArenaType ==
  /\ flow \in [Exec -> [Flow -> FlowRecord]]
  /\ dlv \in [Exec -> [Flow -> DlvRecord]]
  /\ used \subseteq Exec /\ IsFiniteSet(used) /\ Cardinality(used) <= MaxGroups
  /\ nreq \in [Exec -> 1 .. MaxReqId + 1]
  /\ pending \in [Exec -> Outcome \cup {"none"}]
  /\ complete \in [Exec -> BOOLEAN]
  /\ each \in [Exec -> EachRecord]

LoopType ==
  /\ pc \in {"idle", "started", "round", "sent", "enter", "closing", "finish", "ended"}
  /\ after \in {"idle", "started", "closing", "finish"}
  /\ cur \in (Exec \X Flow) \cup {<<0, 0>>}
  /\ verdict \in {"none", "Success", "AppError"}
  /\ todo \in Seq(ChainStep)
  /\ round \subseteq Exec \X Flow /\ hups \subseteq Exec \X Flow

WorldType ==
  /\ results \in [Exec -> {"none", "Success", "AppError"}]
  /\ told \in [Exec -> Outcome \cup {"none"}]
  /\ fd \in [Action -> {"none", "open", "hup"}]
  /\ inbox \in [Action -> SUBSET Invocation]
  /\ answers \in [Action -> Seq(Frame)]
  /\ late \subseteq Invocation
  /\ sends \in [Exec -> [Req -> {0, 1}]]
  /\ ran \in [Exec -> [Req -> BOOLEAN]]

\* Where the thread is, and for which execution.
Control ==
  /\ pc = "enter" <=> todo # <<>>
  /\ pc = "enter" => after # "idle"
  /\ pc \in {"enter", "started", "sent", "closing", "finish"} => cur \in used \X Flow
  /\ round \subseteq used \X Flow
  /\ pc \in {"idle", "started"} \/ (pc = "enter" /\ after = "started") => round = {}
  /\ \A e \in used :
       e <= jlast \/ (cur[1] = e /\ (pc = "started" \/ (pc = "enter" /\ after = "started")))
  /\ \A e \in Exec : complete[e] => pending[e] # "none"

\* An invocation is in one place, and only until it is run.
InFlight(d) == d \in late \/ \E a \in Action : d \in inbox[a]
Flight(e, r) ==
  /\ ran[e][r] => sends[e][r] = 1
  /\ InFlight(<<e, r>>) => /\ sends[e][r] = 1 /\ ~ran[e][r]
                           /\ jdel[e][r] \in {"prepared", "sent", "Unknown"}
  /\ \A a \in Action : <<e, r>> \in inbox[a] =>
       /\ <<e, r>> \notin late
       /\ \A b \in Action : <<e, r>> \in inbox[b] => a = b
Flights ==
  /\ \A e \in Exec, r \in Req : Flight(e, r)
  /\ \A a \in Action : \A k \in DOMAIN answers[a] : ran[answers[a][k].e][answers[a][k].r]

\* The flows that an edge of the chain waits for.
EdgesLeft == {k \in DOMAIN todo : todo[k].op = "edge"}
Busy(e) == IF e = cur[1] THEN {todo[k].i : k \in EdgesLeft} ELSE {}
Settled(e, i) == flow[e][i].active /\ i \notin Busy(e)

Sending1(e, i) == pc = "sent" /\ cur = <<e, i>>

\* The delivery that a flow was last prepared for.
Current(e, i) ==
  /\ flow[e][i].req = dlv[e][i].req /\ Kind[dlv[e][i].node] = "action"
Fresh(e, i) == LET r == dlv[e][i].req IN
  jdel[e][r] = "prepared" /\ (sends[e][r] = 0 \/ Sending1(e, i))

Owned(e, i) ==
  dlv[e][i].owns =>
    /\ e \in used /\ Current(e, i) /\ IsOpen(e, dlv[e][i].req)
    /\ flow[e][i].state = "PREPARED" => Fresh(e, i)

InStep(e, i) ==
  Settled(e, i) =>
    /\ flow[e][i].state \in {"READY", "PREPARED", "SENT"} => Kind[flow[e][i].node] = "action"
    /\ flow[e][i].state = "PREPARED" => Current(e, i) /\ Fresh(e, i)
    /\ flow[e][i].state = "SENT" => dlv[e][i].owns

\* Requests of one execution are numbered, and each is one flow's.
Numbered(e) ==
  /\ \A i \in Flow : flow[e][i].req < nreq[e]
  /\ \A i, j \in Flow : flow[e][i].req # 0 /\ flow[e][i].req = flow[e][j].req => i = j
  /\ e \notin used => nreq[e] = 1
  /\ e \in used \/ e > jlast =>
       \A r \in Req : r >= nreq[e] => jdel[e][r] = "none" /\ sends[e][r] = 0

\* The flow whose result is being accepted.
Accepting ==
  pc = "closing" \/ (pc = "enter" /\ after = "closing") =>
    LET e == cur[1]
        i == cur[2]
    IN /\ dlv[e][i].owns /\ ran[e][dlv[e][i].req] /\ verdict # "none"
       /\ flow[e][i].state # "PREPARED"
       /\ ~(Settled(e, i) /\ flow[e][i].state = "SENT")

Served1 ==
  /\ pc = "sent" => dlv[cur[1]][cur[2]].owns /\ flow[cur[1]][cur[2]].state = "PREPARED" /\ cur \notin round
  /\ \A x \in round : flow[x[1]][x[2]].state = "PREPARED" => dlv[x[1]][x[2]].owns

Working ==
  /\ \A e \in Exec, i \in Flow : Owned(e, i) /\ InStep(e, i)
  /\ \A e \in Exec : Numbered(e)
  /\ Accepting /\ Served1

\* The inductive invariant.
IInv ==
  /\ JournalTypeOK /\ ArenaType /\ LoopType /\ WorldType
  /\ Control /\ Flights
  /\ pc # "ended" => Working

-----------------------------------------------------------------------------
(* The lowest idle flows *)

\* A set of numbers that is not empty has a smallest member.
LEMMA SmallestMember ==
  ASSUME NEW B, B \subseteq Nat, B # {}
  PROVE  \E x \in B : \A y \in B : ~(y < x)
  <1>1. PICK x \in B : \A y \in B : ~(<<y, x>> \in OpToRel(<, Nat))
    BY WFMin, NatLessThanWellFounded
  <1>2. QED
    BY <1>1 DEF OpToRel

\* A finite set of numbers has a k-th member for every k up to its size, so
\* that group_enter_fork and group_each_admit find the flows they count on.
LEMMA LowestIsMember ==
  ASSUME NEW S, S \subseteq Nat, IsFiniteSet(S), NEW k \in 1 .. Cardinality(S)
  PROVE  Lowest(S, k) \in S /\ Cardinality({j \in S : j < Lowest(S, k)}) = k - 1
  <1> DEFINE Below(i) == {j \in S : j < i}
             n == Cardinality(S)
             B == {m \in 0 .. n - 1 : ~\E i \in S : Cardinality(Below(i)) = m}
  <1>1. n \in Nat
    BY FS_CardinalityType
  <1>2. B = {}
    <2> SUFFICES ASSUME B # {} PROVE FALSE
      OBVIOUS
    <2>1. B \subseteq Nat
      BY <1>1
    <2> HIDE DEF B
    <2>2. PICK m \in B : \A y \in B : ~(y < m)
      BY <2>1, SmallestMember
    <2>3. m \in 0 .. n - 1 /\ ~\E i \in S : Cardinality(Below(i)) = m
      BY <2>2 DEF B
    <2>4. ASSUME NEW D, D \subseteq S, Cardinality(D) = m,
                 \A d \in D, s \in S : s < d => s \in D
          PROVE  FALSE
      <3>0. D # S
        BY <1>1, <2>3, <2>4
      <3>1. S \ D # {} /\ S \ D \subseteq Nat
        BY <2>4, <3>0
      <3>2. PICK i \in S \ D : \A y \in S \ D : ~(y < i)
        BY <3>1, SmallestMember
      <3>3. \A d \in D : d < i
        BY <2>4, <3>2
      <3>4. Below(i) = D
        BY <2>4, <3>2, <3>3
      <3>5. QED
        BY <2>3, <2>4, <3>2, <3>4
    <2>5. CASE m = 0
      BY <2>4, <2>5, FS_EmptySet
    <2>6. CASE m # 0
      <3>1. m - 1 \in 0 .. n - 1 /\ m - 1 \notin B
        BY <2>2, <2>3, <2>6, <1>1
      <3>2. PICK i \in S : Cardinality(Below(i)) = m - 1
        BY <3>1 DEF B
      <3> DEFINE D == Below(i) \cup {i}
      <3>3. IsFiniteSet(Below(i)) /\ i \notin Below(i)
        BY FS_Subset
      <3>4. Cardinality(D) = m
        <4>1. Cardinality(D) = Cardinality(Below(i)) + 1
          BY <3>3, FS_AddElement
        <4>2. QED
          BY <1>1, <2>3, <3>2, <4>1
      <3>5. D \subseteq S /\ \A d \in D, s \in S : s < d => s \in D
        OBVIOUS
      <3> HIDE DEF D
      <3>6. QED
        BY <2>4, <3>4, <3>5
    <2>7. QED
      BY <2>5, <2>6
  <1>3. k - 1 \in 0 .. n - 1
    BY <1>1
  <1>4. \E i \in S : Cardinality({j \in S : j < i}) = k - 1
    BY <1>2, <1>3
  <1>5. QED
    BY <1>4 DEF Lowest

\* The flows of a set are finite in number, and its lowest one is a flow.
LEMMA LowestFlow ==
  ASSUME NEW S \in SUBSET Flow
  PROVE  /\ IsFiniteSet(S)
         /\ S # {} => Lowest(S, 1) \in S
         /\ \A k \in 1 .. Cardinality(S) :
              Lowest(S, k) \in S /\ Cardinality({j \in S : j < Lowest(S, k)}) = k - 1
  <1>1. IsFiniteSet(Flow) /\ Flow \subseteq Nat
    BY FS_Interval, GroupAssumption DEF Flow
  <1>2. IsFiniteSet(S) /\ S \subseteq Nat
    BY <1>1, FS_Subset
  <1>3. \A k \in 1 .. Cardinality(S) :
          Lowest(S, k) \in S /\ Cardinality({j \in S : j < Lowest(S, k)}) = k - 1
    BY <1>2, LowestIsMember
  <1>4. S # {} => 1 \in 1 .. Cardinality(S)
    BY <1>2, FS_EmptySet, FS_CardinalityType
  <1>5. QED
    BY <1>2, <1>3, <1>4

-----------------------------------------------------------------------------
(* What the loop appends to the journal *)

\* ActionSucceeded, ActionFailed and ActionUnknown change one delivery.
LEMMA ClosingEffect ==
  ASSUME JournalTypeOK, NEW e \in Exec, NEW r \in Req, NEW o \in Outcome,
         AppendClosing(e, r, o)
  PROVE  /\ JournalTypeOK'
         /\ \A f \in Exec, q \in Req :
              jdel'[f][q] = IF f = e /\ q = r THEN o ELSE jdel[f][q]
         /\ UNCHANGED jlast
  <1>1. \A p \in Outcome \cup {"none"} : Stronger(o, p) \in Outcome \cup {"none"}
    BY DEF Stronger
  <1>2. JournalTypeOK'
    BY <1>1 DEF AppendClosing, JournalTypeOK, Delivery, Sound
  <1>3. QED
    BY <1>2 DEF AppendClosing, JournalTypeOK

\* DeliveryPrepared changes one delivery and the largest request id.
LEMMA PreparedEffect ==
  ASSUME JournalTypeOK, NEW e \in Exec, NEW r \in Req, AppendPrepared(e, r)
  PROVE  /\ JournalTypeOK'
         /\ \A f \in Exec, q \in Req :
              jdel'[f][q] = IF f = e /\ q = r THEN "prepared" ELSE jdel[f][q]
         /\ UNCHANGED jlast
  <1>1. jhi' \in [Exec -> 0 .. MaxReqId] /\ jok' \in BOOLEAN
    BY JournalAssumption DEF AppendPrepared, JournalTypeOK, Req, Sound
  <1>2. QED
    BY <1>1 DEF AppendPrepared, JournalTypeOK, Delivery

\* DeliverySent changes one delivery.
LEMMA SentEffect ==
  ASSUME JournalTypeOK, NEW e \in Exec, NEW r \in Req, AppendSent(e, r)
  PROVE  /\ JournalTypeOK'
         /\ \A f \in Exec, q \in Req :
              jdel'[f][q] = IF f = e /\ q = r THEN "sent" ELSE jdel[f][q]
         /\ UNCHANGED jlast
  BY DEF AppendSent, JournalTypeOK, Delivery, Sound

-----------------------------------------------------------------------------
(* The chain of edges *)

\* What the steps of the chain may do to the flows of the execution at hand:
\* requests and deliveries stay, no flow becomes prepared, and a flow that no
\* edge waits for any more is where an edge has left it.
ChainKeeps ==
  LET e == cur[1] IN
  \A i \in Flow :
    /\ flow'[e][i].req = flow[e][i].req
    /\ flow'[e][i].state = "PREPARED" => flow[e][i].state = "PREPARED"
    /\ flow'[e][i].active /\ i \notin Busy(e)' =>
         \/ flow'[e][i].state \in {"EMPTY", "WAITING"}
         \/ flow'[e][i].state = "READY" /\ Kind[flow'[e][i].node] = "action"
         \/ /\ flow'[e][i].state = flow[e][i].state /\ flow'[e][i].node = flow[e][i].node
            /\ Settled(e, i)

\* A chain step keeps the types, and only touches the execution at hand.
ChainTypes ==
  /\ flow' \in [Exec -> [Flow -> FlowRecord]]
  /\ \A f \in Exec : f # cur[1] => flow'[f] = flow[f]
  /\ pending' \in [Exec -> Outcome \cup {"none"}]
  /\ complete' \in [Exec -> BOOLEAN]
  /\ each' \in [Exec -> EachRecord]
  /\ \A f \in Exec : complete'[f] => pending'[f] # "none"

ChainGoesOn == \E steps \in Seq(ChainStep) : GoOn(steps)

\* The flows that edges wait for: a step of the chain serves the one at its
\* head, and the steps it asks for are waited for next.
LEMMA ChainMoves ==
  ASSUME todo \in Seq(ChainStep), todo # <<>>, NEW steps \in Seq(ChainStep), GoOn(steps)
  PROVE  /\ todo' \in Seq(ChainStep)
         /\ pc' = IF todo' = <<>> THEN after ELSE "enter"
         /\ UNCHANGED <<cur, verdict, after>>
         /\ \A k \in DOMAIN steps : steps[k].op = "edge" => steps[k].i \in Busy(cur[1])'
         /\ \A i \in Busy(cur[1]) : i \notin Busy(cur[1])' =>
              Head(todo).op = "edge" /\ Head(todo).i = i
  <1> DEFINE rest == Tail(todo)
  <1>1. /\ rest \in Seq(ChainStep) /\ Len(rest) = Len(todo) - 1
        /\ \A k \in 1 .. Len(rest) : rest[k] = todo[k + 1]
    OBVIOUS
  <1>2. /\ todo' = steps \o rest /\ pc' = (IF todo' = <<>> THEN after ELSE "enter")
        /\ UNCHANGED <<cur, verdict, after>>
    BY DEF GoOn
  <1> HIDE DEF rest
  <1>3. /\ todo' \in Seq(ChainStep) /\ Len(todo') = Len(steps) + Len(rest)
        /\ \A k \in 1 .. Len(steps) : todo'[k] = steps[k]
        /\ \A k \in 1 .. Len(rest) : todo'[Len(steps) + k] = rest[k]
    <2>1. Len(steps) \in Nat /\ Len(rest) \in Nat
      BY <1>1
    <2>2. /\ todo' \in Seq(ChainStep) /\ Len(todo') = Len(steps) + Len(rest)
          /\ \A k \in 1 .. Len(steps) + Len(rest) :
               todo'[k] = IF k <= Len(steps) THEN steps[k] ELSE rest[k - Len(steps)]
      BY <1>1, <1>2, ConcatProperties
    <2>3. QED
      BY <2>1, <2>2
  <1>4. Busy(cur[1])' = {todo'[k].i : k \in {m \in 1 .. Len(todo') : todo'[m].op = "edge"}}
    <2>1. DOMAIN todo' = 1 .. Len(todo')
      BY <1>3
    <2>2. QED
      BY <1>2, <2>1 DEF Busy, EdgesLeft
  <1>5. Busy(cur[1]) = {todo[k].i : k \in {m \in 1 .. Len(todo) : todo[m].op = "edge"}}
    BY DEF Busy, EdgesLeft
  <1>6. ASSUME NEW k \in DOMAIN steps, steps[k].op = "edge" PROVE steps[k].i \in Busy(cur[1])'
    <2>1. k \in 1 .. Len(todo') /\ todo'[k] = steps[k]
      BY <1>1, <1>3
    <2>2. QED
      BY <1>4, <1>6, <2>1
  <1>7. ASSUME NEW i \in Busy(cur[1]), i \notin Busy(cur[1])'
        PROVE  Head(todo).op = "edge" /\ Head(todo).i = i
    <2>1. PICK m \in 1 .. Len(todo) : todo[m].op = "edge" /\ todo[m].i = i
      BY <1>5
    <2>2. CASE m = 1
      BY <2>1, <2>2
    <2>3. CASE m # 1
      <3>1. m - 1 \in 1 .. Len(rest) /\ rest[m - 1] = todo[m]
        BY <1>1, <2>3
      <3>2. /\ Len(steps) + (m - 1) \in 1 .. Len(todo')
            /\ todo'[Len(steps) + (m - 1)] = todo[m]
        BY <1>1, <1>3, <3>1
      <3>3. QED
        BY <1>4, <1>7, <2>1, <3>2
    <2>4. QED
      BY <2>2, <2>3
  <1>8. QED
    BY <1>2, <1>3, <1>6, <1>7

\* A step of the chain that keeps the flows in order keeps the invariant.
LEMMA ChainInvariant ==
  ASSUME IInv, pc = "enter", ChainGoesOn, ChainTypes, ChainKeeps, UNCHANGED restOfEnter
  PROVE  IInv'
  <1>0. /\ JournalTypeOK /\ ArenaType /\ LoopType /\ WorldType /\ Control /\ Flights
        /\ Working
    BY DEF IInv
  <1>1. /\ todo' \in Seq(ChainStep)
        /\ pc' = (IF todo' = <<>> THEN after ELSE "enter")
        /\ UNCHANGED <<cur, verdict, after>>
    BY <1>0, ChainMoves DEF ChainGoesOn, Control, LoopType
  <1>2. /\ cur[1] \in used /\ cur[1] \in Exec /\ cur[2] \in Flow /\ cur \in used \X Flow
        /\ after \in {"started", "closing", "finish"}
    BY <1>0 DEF Control, LoopType, ArenaType
  <1>3. pc' \in {"enter", "started", "closing", "finish"}
    BY <1>1, <1>2
  <1>4. UNCHANGED <<journalVars, dlv, used, nreq, route, round, hups, results, sends, told,
                    fd, inbox, late, answers, ran, jok, jtail, jlast, jphase, jdel, jhi, jagg>>
    BY DEF restOfEnter, appVars, journalVars
  <1>5. JournalTypeOK' /\ WorldType'
    BY <1>0, <1>4 DEF JournalTypeOK, WorldType
  <1>6. ArenaType'
    BY <1>0, <1>4 DEF ArenaType, ChainTypes
  <1>7. LoopType'
    BY <1>0, <1>1, <1>3, <1>4 DEF LoopType
  <1>8. Control'
    <2>1. (pc = "enter" <=> todo # <<>>)'
      BY <1>1, <1>2
    <2>2. (\A e \in Exec : complete[e] => pending[e] # "none")'
      BY DEF ChainTypes
    <2>3. QED
      BY <1>0, <1>1, <1>2, <1>3, <1>4, <2>1, <2>2 DEF Control
  <1>9. Flights'
    BY <1>0, <1>4 DEF Flights, Flight, InFlight
  <1>10. ASSUME NEW e \in Exec, NEW i \in Flow
         PROVE  /\ flow'[e][i].req = flow[e][i].req
                /\ flow'[e][i].state = "PREPARED" => flow[e][i].state = "PREPARED"
                /\ Settled(e, i)' =>
                     \/ flow'[e][i].state \in {"EMPTY", "WAITING"}
                     \/ flow'[e][i].state = "READY" /\ Kind[flow'[e][i].node] = "action"
                     \/ /\ flow'[e][i].state = flow[e][i].state
                        /\ flow'[e][i].node = flow[e][i].node
                        /\ Settled(e, i)
    <2>1. CASE e = cur[1]
      BY <1>1, <2>1 DEF ChainKeeps, Settled
    <2>2. CASE e # cur[1]
      <3>1. flow'[e] = flow[e] /\ Busy(e) = {} /\ Busy(e)' = {}
        BY <1>1, <2>2 DEF ChainTypes, Busy
      <3>2. QED
        BY <3>1 DEF Settled
    <2>3. QED
      BY <2>1, <2>2
  <1>11. ASSUME NEW e \in Exec, NEW i \in Flow
         PROVE  /\ Current(e, i)' <=> Current(e, i)
                /\ Fresh(e, i)' <=> Fresh(e, i)
    <2>1. ~Sending1(e, i) /\ ~Sending1(e, i)'
      BY <1>3 DEF Sending1
    <2>2. QED
      BY <1>4, <1>10, <2>1 DEF Current, Fresh
  <1>12. ASSUME NEW e \in Exec, NEW i \in Flow PROVE Owned(e, i)' /\ InStep(e, i)'
    <2>1. Owned(e, i) /\ InStep(e, i)
      BY <1>0 DEF Working
    <2>2. Owned(e, i)'
      BY <1>4, <1>10, <1>11, <2>1 DEF Owned, IsOpen
    <2>3. InStep(e, i)'
      BY <1>4, <1>10, <1>11, <2>1 DEF InStep
    <2>4. QED
      BY <2>2, <2>3
  <1>13. ASSUME NEW e \in Exec PROVE Numbered(e)'
    <2>1. Numbered(e)
      BY <1>0 DEF Working
    <2>2. QED
      BY <1>4, <1>10, <2>1 DEF Numbered
  <1>14. Accepting'
    BY <1>0, <1>1, <1>2, <1>4, <1>10 DEF Accepting, Working
  <1>15. Served1'
    BY <1>0, <1>2, <1>3, <1>4, <1>10 DEF Served1, Working, Control, LoopType
  <1>16. Working'
    BY <1>12, <1>13, <1>14, <1>15 DEF Working
  <1>17. QED
    BY <1>5, <1>6, <1>7, <1>8, <1>9, <1>16 DEF IInv

\* How one flow may leave a step of the chain that goes on with these steps: it
\* ends, it waits, it is ready for its Action, an edge is entered for it next, or
\* the step was not about it.
Left(steps, fl, i) ==
  /\ fl[i].req = flow[cur[1]][i].req
  /\ fl[i].state = "PREPARED" => flow[cur[1]][i].state = "PREPARED"
  /\ \/ ~fl[i].active
     \/ fl[i].state \in {"EMPTY", "WAITING"}
     \/ fl[i].state = "READY" /\ Kind[fl[i].node] = "action"
     \/ \E k \in DOMAIN steps : steps[k].op = "edge" /\ steps[k].i = i
     \/ /\ fl[i] = flow[cur[1]][i]
        /\ ~(Head(todo).op = "edge" /\ Head(todo).i = i)

\* What the chain works on while it is being entered.
LEMMA ChainHead ==
  ASSUME IInv, pc = "enter"
  PROVE  /\ cur[1] \in Exec /\ todo \in Seq(ChainStep) /\ todo # <<>>
         /\ Head(todo) \in ChainStep
         /\ Head(todo).op = "edge" =>
              /\ Head(todo).i \in Flow /\ Head(todo).to \in Target
              /\ Head(todo).to.node \in Node /\ Head(todo).to.tag \in Nat
              /\ Head(todo).o \in Outcome \cup {"none"}
         /\ flow[cur[1]] \in [Flow -> FlowRecord]
         /\ each[cur[1]] \in EachRecord
         /\ pending[cur[1]] \in Outcome \cup {"none"} /\ complete[cur[1]] \in BOOLEAN
  <1>1. /\ cur[1] \in Exec /\ todo \in Seq(ChainStep) /\ todo # <<>>
    BY DEF IInv, Control, LoopType, ArenaType
  <1>2. Head(todo) \in ChainStep
    BY <1>1
  <1>3. Head(todo).op = "edge" => Head(todo) \in EdgeStep
    BY <1>2 DEF ChainStep
  <1>4. 0 .. MaxFlows \subseteq Nat
    BY GroupAssumption
  <1>5. QED
    BY <1>1, <1>2, <1>3, <1>4 DEF IInv, ArenaType, EdgeStep, Target

\* A step that leaves every flow of the execution at hand in order keeps the
\* invariant.
LEMMA ChainStepInvariant ==
  ASSUME IInv, pc = "enter", NEW steps \in Seq(ChainStep), GoOn(steps),
         NEW fl \in [Flow -> FlowRecord], flow' = [flow EXCEPT ![cur[1]] = fl],
         \A i \in Flow : Left(steps, fl, i),
         NEW s \in EachRecord, each' = [each EXCEPT ![cur[1]] = s],
         NEW p \in Outcome \cup {"none"}, pending' = [pending EXCEPT ![cur[1]] = p],
         NEW c \in BOOLEAN, complete' = [complete EXCEPT ![cur[1]] = c],
         c => p # "none",
         UNCHANGED restOfEnter
  PROVE  IInv'
  <1> DEFINE e == cur[1]
  <1>0. e \in Exec /\ todo \in Seq(ChainStep) /\ todo # <<>>
    BY ChainHead
  <1>1. /\ flow \in [Exec -> [Flow -> FlowRecord]] /\ each \in [Exec -> EachRecord]
        /\ pending \in [Exec -> Outcome \cup {"none"}] /\ complete \in [Exec -> BOOLEAN]
        /\ \A f \in Exec : complete[f] => pending[f] # "none"
    BY DEF IInv, ArenaType, Control
  <1>2. /\ UNCHANGED cur
        /\ \A k \in DOMAIN steps : steps[k].op = "edge" => steps[k].i \in Busy(e)'
        /\ \A i \in Busy(e) : i \notin Busy(e)' => Head(todo).op = "edge" /\ Head(todo).i = i
    BY <1>0, ChainMoves
  <1> HIDE DEF e
  <1>3. ChainTypes
    BY <1>0, <1>1 DEF ChainTypes, e
  <1>4. flow'[e] = fl
    BY <1>0, <1>1 DEF e
  <1>5. ASSUME NEW i \in Flow
        PROVE  /\ fl[i].req = flow[e][i].req
               /\ fl[i].state = "PREPARED" => flow[e][i].state = "PREPARED"
               /\ fl[i].active /\ i \notin Busy(e)' =>
                    \/ fl[i].state \in {"EMPTY", "WAITING"}
                    \/ fl[i].state = "READY" /\ Kind[fl[i].node] = "action"
                    \/ /\ fl[i].state = flow[e][i].state /\ fl[i].node = flow[e][i].node
                       /\ Settled(e, i)
    <2>1. Left(steps, fl, i)
      OBVIOUS
    <2>2. (\E k \in DOMAIN steps : steps[k].op = "edge" /\ steps[k].i = i) => i \in Busy(e)'
      BY <1>2
    <2>3. i \in Busy(e) /\ i \notin Busy(e)' => Head(todo).op = "edge" /\ Head(todo).i = i
      BY <1>2
    <2>4. QED
      BY <2>1, <2>2, <2>3 DEF Left, Settled, e
  <1>6. ChainKeeps
    BY <1>4, <1>5 DEF ChainKeeps, e
  <1>7. ChainGoesOn
    BY DEF ChainGoesOn
  <1>8. QED
    BY <1>3, <1>6, <1>7, ChainInvariant

\* Writing back what was read is no change.
LEMMA SameEntry ==
  ASSUME NEW D, NEW V, NEW f \in [D -> V], NEW d \in D
  PROVE  f = [f EXCEPT ![d] = f[d]]
  OBVIOUS

\* A step that leaves the each region and the outcome alone.
LEMMA ArenaStepInvariant ==
  ASSUME IInv, pc = "enter", NEW steps \in Seq(ChainStep), GoOn(steps),
         NEW fl \in [Flow -> FlowRecord], flow' = [flow EXCEPT ![cur[1]] = fl],
         \A i \in Flow : Left(steps, fl, i),
         UNCHANGED <<pending, complete, each, restOfEnter>>
  PROVE  IInv'
  <1>1. /\ cur[1] \in Exec /\ each[cur[1]] \in EachRecord
        /\ pending[cur[1]] \in Outcome \cup {"none"} /\ complete[cur[1]] \in BOOLEAN
    BY ChainHead
  <1>2. /\ each \in [Exec -> EachRecord] /\ pending \in [Exec -> Outcome \cup {"none"}]
        /\ complete \in [Exec -> BOOLEAN] /\ (complete[cur[1]] => pending[cur[1]] # "none")
    BY <1>1 DEF IInv, ArenaType, Control
  <1>3. /\ each' = [each EXCEPT ![cur[1]] = each[cur[1]]]
        /\ pending' = [pending EXCEPT ![cur[1]] = pending[cur[1]]]
        /\ complete' = [complete EXCEPT ![cur[1]] = complete[cur[1]]]
    BY <1>1, <1>2, SameEntry
  <1>4. QED
    BY <1>1, <1>2, <1>3, ChainStepInvariant

\* The steps that the chain is made of.
LEMMA NoSteps == <<>> \in Seq(ChainStep)
  OBVIOUS

\* An edge waits for the flow it moves.
LEMMA EnterIsStep ==
  ASSUME NEW i \in Flow, NEW to \in Target, NEW o \in Outcome \cup {"none"}
  PROVE  Enter(i, to, o) \in ChainStep /\ Enter(i, to, o).op = "edge" /\ Enter(i, to, o).i = i
  BY DEF Enter, ChainStep, EdgeStep

\* The other steps of the chain wait for no flow.
LEMMA OtherSteps ==
  /\ Settle \in ChainStep /\ AdmitItems \in ChainStep /\ FinishEach \in ChainStep
  /\ \A S \in SUBSET Flow : Cut(S) \in ChainStep
  BY DEF Settle, AdmitItems, FinishEach, Cut, ChainStep

\* An edge into an Action makes the flow ready for it.
LEMMA KeptEnterAction == ASSUME IInv, EnterAction PROVE IInv'
  <1> DEFINE e == cur[1]
             t == Head(todo)
             fl == [flow[e] EXCEPT ![t.i] =
                      [@ EXCEPT !.node = t.to.node, !.state = "READY", !.active = TRUE]]
  <1>1. /\ pc = "enter" /\ t.op = "edge" /\ Kind[t.to.node] = "action"
        /\ flow' = [flow EXCEPT ![e][t.i] =
                      [@ EXCEPT !.node = t.to.node, !.state = "READY", !.active = TRUE]]
        /\ GoOn(<<>>) /\ UNCHANGED <<pending, complete, each, restOfEnter>>
    BY DEF EnterAction, Entering
  <1>2. /\ e \in Exec /\ t.i \in Flow /\ t.to.node \in Node
        /\ flow[e] \in [Flow -> FlowRecord]
    BY <1>1, ChainHead
  <1>3. flow' = [flow EXCEPT ![e] = fl]
    BY <1>1
  <1> HIDE DEF e, t
  <1>4. fl \in [Flow -> FlowRecord]
    BY <1>2 DEF FlowRecord, FlowState
  <1>5. \A i \in Flow : Left(<<>>, fl, i)
    BY <1>1, <1>2 DEF Left, FlowRecord, e, t
  <1> HIDE DEF fl
  <1>6. QED
    BY <1>1, <1>3, <1>4, <1>5, NoSteps, ArenaStepInvariant DEF e

\* The branches of a Fork take the flow that enters it and idle ones.
LEMMA KeptEnterFork == ASSUME IInv, EnterFork PROVE IInv'
  <1> DEFINE e == cur[1]
             t == Head(todo)
             n == t.to.node
             size == Len(Branch[n])
             free == Idle(e) \ {t.i}
             at(k) == IF k = 1 THEN t.i ELSE Lowest(free, k - 1)
             others == {at(k) : k \in 2 .. size}
             fl == [i \in Flow |->
                      IF i = t.i THEN [flow[e][i] EXCEPT !.node = n]
                      ELSE IF i \in others THEN [flow[e][i] EXCEPT !.active = TRUE]
                           ELSE flow[e][i]]
             steps == [k \in 1 .. size |-> Enter(at(k), Branch[n][k], "none")]
  <1>1. /\ pc = "enter" /\ t.op = "edge" /\ Kind[n] = "fork" /\ Cardinality(free) >= size - 1
        /\ flow' = [flow EXCEPT ![e] = fl]
        /\ GoOn(steps) /\ UNCHANGED <<pending, complete, each, restOfEnter>>
    BY DEF EnterFork, Entering
  <1>2. /\ e \in Exec /\ t.i \in Flow /\ n \in Node /\ flow[e] \in [Flow -> FlowRecord]
    BY <1>1, ChainHead
  <1>3. Branch[n] \in Seq(Target) /\ Branch[n] # <<>>
    BY <1>1, <1>2, GroupAssumption
  <1> HIDE DEF e, t
  <1>4. size \in Nat \ {0} /\ \A k \in 1 .. size : Branch[n][k] \in Target
    BY <1>3
  <1> HIDE DEF n, size
  <1>5. \A k \in 1 .. size : at(k) \in Flow
    <2>1. free \in SUBSET Flow
      BY DEF Idle
    <2>2. Cardinality(free) \in Nat /\ \A k \in 1 .. Cardinality(free) : Lowest(free, k) \in Flow
      BY <2>1, LowestFlow, FS_CardinalityType
    <2> HIDE DEF free
    <2>3. QED
      BY <1>1, <1>2, <1>4, <2>2
  <1> HIDE DEF free, at
  <1>6. \A k \in 1 .. size : /\ Enter(at(k), Branch[n][k], "none") \in ChainStep
                             /\ Enter(at(k), Branch[n][k], "none").op = "edge"
                             /\ Enter(at(k), Branch[n][k], "none").i = at(k)
    BY <1>4, <1>5, EnterIsStep
  <1>7. /\ steps \in Seq(ChainStep) /\ DOMAIN steps = 1 .. size
        /\ \A k \in 1 .. size : steps[k].op = "edge" /\ steps[k].i = at(k)
    BY <1>4, <1>6
  <1>8. fl \in [Flow -> FlowRecord]
    BY <1>2 DEF FlowRecord
  <1>9. ASSUME NEW i \in Flow PROVE Left(steps, fl, i)
    <2>1. /\ fl[i].req = flow[e][i].req /\ fl[i].state = flow[e][i].state
          /\ i \notin others /\ i # t.i => fl[i] = flow[e][i]
      BY <1>2 DEF FlowRecord
    <2>2. i = t.i \/ i \in others => \E k \in 1 .. size : at(k) = i
      <3>1. i = t.i => 1 \in 1 .. size /\ at(1) = i
        BY <1>4 DEF at
      <3>2. 2 .. size \subseteq 1 .. size
        BY <1>4
      <3>3. QED
        BY <3>1, <3>2
    <2> HIDE DEF fl, others, steps
    <2>3. i = t.i \/ i \in others => \E k \in DOMAIN steps : steps[k].op = "edge" /\ steps[k].i = i
      BY <1>7, <2>2
    <2>4. QED
      BY <2>1, <2>3 DEF Left, e, t
  <1> HIDE DEF fl, steps
  <1>10. QED
    BY <1>1, <1>7, <1>8, <1>9, ArenaStepInvariant DEF e

\* A Dispatch hands the flow on to one of its cases.
LEMMA KeptEnterDispatch == ASSUME IInv, EnterDispatch PROVE IInv'
  <1> DEFINE e == cur[1]
             t == Head(todo)
             fl == [flow[e] EXCEPT ![t.i] = [@ EXCEPT !.node = t.to.node]]
  <1>1. /\ pc = "enter" /\ t.op = "edge" /\ Kind[t.to.node] = "dispatch"
        /\ flow' = [flow EXCEPT ![e][t.i].node = t.to.node]
        /\ UNCHANGED <<pending, complete, each, restOfEnter>>
    BY DEF EnterDispatch, Entering
  <1>2. PICK k \in 1 .. Len(Case[t.to.node]) : GoOn(<<Enter(t.i, Case[t.to.node][k], t.o)>>)
    BY DEF EnterDispatch
  <1>3. /\ e \in Exec /\ t.i \in Flow /\ t.to.node \in Node /\ t.o \in Outcome \cup {"none"}
        /\ flow[e] \in [Flow -> FlowRecord]
    BY <1>1, ChainHead
  <1>4. flow' = [flow EXCEPT ![e] = fl]
    BY <1>1
  <1>5. Case[t.to.node][k] \in Target
    BY <1>1, <1>2, <1>3, GroupAssumption
  <1> HIDE DEF e, t
  <1> DEFINE x == Enter(t.i, Case[t.to.node][k], t.o)
  <1>6. x \in ChainStep /\ x.op = "edge" /\ x.i = t.i
    BY <1>3, <1>5, EnterIsStep
  <1> HIDE DEF x
  <1>7. <<x>> \in Seq(ChainStep) /\ <<x>>[1] = x /\ 1 \in DOMAIN <<x>>
    BY <1>6
  <1>8. fl \in [Flow -> FlowRecord]
    BY <1>3 DEF FlowRecord
  <1>9. ASSUME NEW i \in Flow PROVE Left(<<x>>, fl, i)
    <2>1. /\ fl[i].req = flow[e][i].req /\ fl[i].state = flow[e][i].state
          /\ i # t.i => fl[i] = flow[e][i]
      BY <1>3 DEF FlowRecord
    <2>2. i = t.i => \E m \in DOMAIN <<x>> : <<x>>[m].op = "edge" /\ <<x>>[m].i = i
      BY <1>6, <1>7
    <2> HIDE DEF fl
    <2>3. QED
      BY <2>1, <2>2 DEF Left, e, t
  <1> HIDE DEF fl
  <1>10. GoOn(<<x>>)
    BY <1>2 DEF x
  <1>11. QED
    BY <1>1, <1>4, <1>7, <1>8, <1>9, <1>10, ArenaStepInvariant DEF e

\* A flow that arrives at a Join waits there; when the Join is resolved, one
\* flow per used tag goes on and the others are cut.
LEMMA KeptEnterJoin == ASSUME IInv, EnterJoin PROVE IInv'
  <1> DEFINE e == cur[1]
             t == Head(todo)
             n == t.to.node
             moved == [flow[e] EXCEPT ![t.i] =
                         [@ EXCEPT !.node = n, !.join = n, !.tag = t.to.tag, !.state = "WAITING"]]
             leave(k) == IF k \in DOMAIN JoinOut[n]
                           THEN Enter(Lowest(Arrived(moved, n, k), 1), JoinOut[n][k], "Success")
                           ELSE Cut(Arrived(moved, n, k))
             all == [k \in 1 .. JoinSize[n] |-> leave(k)]
  <1>1. /\ pc = "enter" /\ t.op = "edge" /\ Kind[n] = "join"
        /\ flow' = [flow EXCEPT ![e] = moved]
        /\ IF Resolved(moved, n) THEN GoOn(Append(all, Settle)) ELSE GoOn(<<Settle>>)
        /\ UNCHANGED <<pending, complete, each, restOfEnter>>
    BY DEF EnterJoin, Entering
  <1>2. /\ e \in Exec /\ t.i \in Flow /\ n \in Node /\ t.to.tag \in Nat
        /\ flow[e] \in [Flow -> FlowRecord]
    BY <1>1, ChainHead
  <1>3. /\ JoinSize[n] \in Nat
        /\ \A k \in DOMAIN JoinOut[n] : JoinOut[n][k] \in Target
    BY <1>1, <1>2, GroupAssumption DEF Flow
  <1> HIDE DEF e, t
  <1>4. moved \in [Flow -> FlowRecord]
    BY <1>2 DEF FlowRecord, FlowState, n
  <1>5. \A i \in Flow : \A steps : Left(steps, moved, i)
    BY <1>1, <1>2 DEF Left, FlowRecord, e, t
  <1> HIDE DEF moved, n
  <1>6. Resolved(moved, n) => Append(all, Settle) \in Seq(ChainStep)
    <2>1. ASSUME Resolved(moved, n), NEW k \in 1 .. JoinSize[n] PROVE leave(k) \in ChainStep
      <3>1. Arrived(moved, n, k) \in SUBSET Flow /\ Arrived(moved, n, k) # {}
        BY <2>1 DEF Resolved, Arrived
      <3>2. Lowest(Arrived(moved, n, k), 1) \in Flow
        BY <3>1, LowestFlow
      <3>3. "Success" \in Outcome \cup {"none"}
        BY DEF Outcome
      <3>4. k \in DOMAIN JoinOut[n] => leave(k) \in ChainStep
        BY <1>3, <3>2, <3>3, EnterIsStep
      <3>5. Cut(Arrived(moved, n, k)) \in ChainStep
        BY <3>1, OtherSteps
      <3>6. QED
        BY <3>4, <3>5
    <2> HIDE DEF leave
    <2>2. Resolved(moved, n) => all \in Seq(ChainStep)
      BY <1>3, <2>1
    <2> HIDE DEF all
    <2>3. QED
      BY <2>2, OtherSteps
  <1>7. <<Settle>> \in Seq(ChainStep)
    BY OtherSteps
  <1> HIDE DEF all
  <1>8. CASE Resolved(moved, n)
    BY <1>1, <1>4, <1>5, <1>6, <1>8, ArenaStepInvariant DEF e
  <1>9. CASE ~Resolved(moved, n)
    BY <1>1, <1>4, <1>5, <1>7, <1>9, ArenaStepInvariant DEF e
  <1>10. QED
    BY <1>8, <1>9

\* The flows whose result a Join does not use end.
LEMMA KeptCutFlow == ASSUME IInv, CutFlow PROVE IInv'
  <1> DEFINE e == cur[1]
             gone == Head(todo).flows
             fl == [i \in Flow |-> IF i \in gone THEN [flow[e][i] EXCEPT !.active = FALSE]
                                   ELSE flow[e][i]]
  <1>1. /\ pc = "enter" /\ Head(todo).op = "cut" /\ flow' = [flow EXCEPT ![e] = fl]
        /\ GoOn(<<>>) /\ UNCHANGED <<pending, complete, each, restOfEnter>>
    BY DEF CutFlow
  <1>2. e \in Exec /\ flow[e] \in [Flow -> FlowRecord]
    BY <1>1, ChainHead
  <1> HIDE DEF e, gone
  <1>3. fl \in [Flow -> FlowRecord]
    BY <1>2 DEF FlowRecord
  <1>4. ASSUME NEW i \in Flow PROVE Left(<<>>, fl, i)
    <2>1. /\ fl[i].req = flow[e][i].req /\ fl[i].state = flow[e][i].state
          /\ ~fl[i].active \/ fl[i] = flow[e][i]
      BY <1>2 DEF FlowRecord
    <2> HIDE DEF fl
    <2>2. QED
      BY <1>1, <2>1 DEF Left, e
  <1> HIDE DEF fl
  <1>5. QED
    BY <1>1, <1>3, <1>4, NoSteps, ArenaStepInvariant DEF e

\* A terminal ends its flow and records the outcome; a failure ends every flow
\* that is not sent.
LEMMA KeptEnterTerminal == ASSUME IInv, EnterTerminal PROVE IInv'
  <1> DEFINE e == cur[1]
             t == Head(todo)
             fl == [i \in Flow |->
                      IF i = t.i THEN [flow[e][i] EXCEPT !.active = FALSE, !.node = t.to.node]
                      ELSE IF t.o # "Success" /\ flow[e][i].state # "SENT"
                           THEN [flow[e][i] EXCEPT !.active = FALSE] ELSE flow[e][i]]
             p == Recorded(t.o, pending[e])
  <1>1. /\ pc = "enter" /\ t.op = "edge" /\ flow' = [flow EXCEPT ![e] = fl]
        /\ pending' = [pending EXCEPT ![e] = p]
        /\ GoOn(<<Settle>>) /\ UNCHANGED <<complete, each, restOfEnter>>
    BY DEF EnterTerminal, Entering
  <1>2. /\ e \in Exec /\ t.i \in Flow /\ t.to.node \in Node
        /\ flow[e] \in [Flow -> FlowRecord] /\ each[e] \in EachRecord
        /\ t.o \in Outcome \cup {"none"} /\ pending[e] \in Outcome \cup {"none"}
        /\ complete[e] \in BOOLEAN
    BY <1>1, ChainHead
  <1>3. /\ each \in [Exec -> EachRecord] /\ complete \in [Exec -> BOOLEAN]
        /\ complete[e] => pending[e] # "none"
    BY <1>2 DEF IInv, ArenaType, Control
  <1> HIDE DEF e, t
  <1>4. p \in Outcome \cup {"none"} /\ (complete[e] => p # "none")
    BY <1>2, <1>3 DEF Recorded, Outcome, Precedence
  <1>5. each' = [each EXCEPT ![e] = each[e]] /\ complete' = [complete EXCEPT ![e] = complete[e]]
    BY <1>1, <1>2, <1>3, SameEntry
  <1>6. fl \in [Flow -> FlowRecord]
    BY <1>2 DEF FlowRecord
  <1>7. ASSUME NEW i \in Flow PROVE Left(<<Settle>>, fl, i)
    <2>1. /\ fl[i].req = flow[e][i].req /\ fl[i].state = flow[e][i].state
          /\ ~fl[i].active \/ (fl[i] = flow[e][i] /\ i # t.i)
      BY <1>2 DEF FlowRecord
    <2> HIDE DEF fl
    <2>2. QED
      BY <1>1, <2>1 DEF Left, e, t
  <1>8. <<Settle>> \in Seq(ChainStep)
    BY OtherSteps
  <1> HIDE DEF fl, p
  <1>9. QED
    BY <1>1, <1>2, <1>4, <1>5, <1>6, <1>7, <1>8, ChainStepInvariant DEF e

\* The execution is complete when its outcome is known and nothing is awaited.
LEMMA KeptMaybeComplete == ASSUME IInv, MaybeComplete PROVE IInv'
  <1> DEFINE e == cur[1]
             c == complete[e] \/ Done(e)
  <1>1. /\ pc = "enter" /\ Head(todo).op = "settle"
        /\ complete' = [complete EXCEPT ![e] = c]
        /\ GoOn(<<>>) /\ UNCHANGED <<flow, pending, each, restOfEnter>>
    BY DEF MaybeComplete
  <1>2. /\ e \in Exec /\ flow[e] \in [Flow -> FlowRecord] /\ each[e] \in EachRecord
        /\ pending[e] \in Outcome \cup {"none"} /\ complete[e] \in BOOLEAN
    BY <1>1, ChainHead
  <1>3. /\ flow \in [Exec -> [Flow -> FlowRecord]] /\ each \in [Exec -> EachRecord]
        /\ pending \in [Exec -> Outcome \cup {"none"}]
        /\ complete[e] => pending[e] # "none"
    BY <1>2 DEF IInv, ArenaType, Control
  <1> HIDE DEF e
  <1>4. c \in BOOLEAN /\ (c => pending[e] # "none")
    BY <1>2, <1>3 DEF Done
  <1> HIDE DEF c
  <1>5. /\ flow' = [flow EXCEPT ![e] = flow[e]]
        /\ each' = [each EXCEPT ![e] = each[e]]
        /\ pending' = [pending EXCEPT ![e] = pending[e]]
    BY <1>1, <1>2, <1>3, SameEntry
  <1>6. \A i \in Flow : Left(<<>>, flow[e], i)
    BY <1>1 DEF Left, e
  <1>7. QED
    BY <1>1, <1>2, <1>4, <1>5, <1>6, NoSteps, ChainStepInvariant DEF e

\* The flow that enters an each region becomes its coordinator and is idle while
\* the items run.
LEMMA KeptEnterEach == ASSUME IInv, EnterEach PROVE IInv'
  <1> DEFINE e == cur[1]
             t == Head(todo)
             fl == [flow[e] EXCEPT ![t.i] =
                      [@ EXCEPT !.active = FALSE, !.region = "none", !.node = t.to.node]]
  <1>1. /\ pc = "enter" /\ t.op = "edge" /\ Kind[t.to.node] = "each"
        /\ flow' = [flow EXCEPT ![e][t.i] =
                      [@ EXCEPT !.active = FALSE, !.region = "none", !.node = t.to.node]]
        /\ UNCHANGED <<pending, complete, restOfEnter>>
    BY DEF EnterEach, Entering
  <1>2. PICK m \in 0 .. Bound[t.to.node] :
          /\ each' = [each EXCEPT ![e] = [region |-> t.to.node, coord |-> t.i,
                                          count |-> m, next |-> 0, flush |-> 0]]
          /\ GoOn(<<IF m = 0 THEN FinishEach ELSE AdmitItems>>)
    BY DEF EnterEach
  <1>3. /\ e \in Exec /\ t.i \in Flow /\ t.to.node \in Node
        /\ flow[e] \in [Flow -> FlowRecord]
        /\ pending[e] \in Outcome \cup {"none"} /\ complete[e] \in BOOLEAN
    BY <1>1, ChainHead
  <1>4. /\ pending \in [Exec -> Outcome \cup {"none"}] /\ complete \in [Exec -> BOOLEAN]
        /\ complete[e] => pending[e] # "none"
    BY <1>3 DEF IInv, ArenaType, Control
  <1>5. m \in Nat
    BY <1>1, <1>2, <1>3, GroupAssumption
  <1> DEFINE s == [region |-> t.to.node, coord |-> t.i, count |-> m, next |-> 0, flush |-> 0]
             x == IF m = 0 THEN FinishEach ELSE AdmitItems
  <1>6. flow' = [flow EXCEPT ![e] = fl]
    BY <1>1
  <1> HIDE DEF e, t
  <1>7. s \in EachRecord
    BY <1>1, <1>3, <1>5 DEF EachRecord
  <1>8. /\ pending' = [pending EXCEPT ![e] = pending[e]]
        /\ complete' = [complete EXCEPT ![e] = complete[e]]
    BY <1>1, <1>3, <1>4, SameEntry
  <1>9. fl \in [Flow -> FlowRecord]
    BY <1>3 DEF FlowRecord
  <1>10. <<x>> \in Seq(ChainStep)
    BY OtherSteps
  <1> HIDE DEF x
  <1>11. ASSUME NEW i \in Flow PROVE Left(<<x>>, fl, i)
    <2>1. /\ fl[i].req = flow[e][i].req /\ fl[i].state = flow[e][i].state
          /\ ~fl[i].active \/ (fl[i] = flow[e][i] /\ i # t.i)
      BY <1>3 DEF FlowRecord
    <2> HIDE DEF fl
    <2>2. QED
      BY <1>1, <2>1 DEF Left, e, t
  <1>12. GoOn(<<x>>) /\ each' = [each EXCEPT ![e] = s]
    BY <1>2 DEF x, e, t
  <1> HIDE DEF fl, s
  <1>13. QED
    BY <1>1, <1>3, <1>4, <1>6, <1>7, <1>8, <1>9, <1>10, <1>11, <1>12, ChainStepInvariant DEF e

\* An item is given the lowest idle flow and enters the template.
LEMMA KeptAdmitItem == ASSUME IInv, AdmitItem PROVE IInv'
  <1> DEFINE e == cur[1]
             s == each[e]
             i0 == Lowest(Idle(e), 1)
             fl == [flow[e] EXCEPT ![i0] =
                      [@ EXCEPT !.active = TRUE, !.region = s.region, !.item = s.next]]
             s1 == [s EXCEPT !.next = @ + 1]
             x == Enter(i0, Template[s.region], "none")
  <1>1. /\ pc = "enter" /\ Head(todo).op = "admit" /\ s.region # "none"
        /\ UNCHANGED <<pending, complete, restOfEnter>>
    BY DEF AdmitItem
  <1>2. \/ /\ Idle(e) # {}
           /\ flow' = [flow EXCEPT ![e][i0] =
                         [@ EXCEPT !.active = TRUE, !.region = s.region, !.item = s.next]]
           /\ each' = [each EXCEPT ![e].next = @ + 1]
           /\ GoOn(<<x, AdmitItems>>)
        \/ GoOn(<<>>) /\ UNCHANGED <<flow, each>>
    BY DEF AdmitItem
  <1>3. /\ e \in Exec /\ flow[e] \in [Flow -> FlowRecord] /\ s \in EachRecord
        /\ pending[e] \in Outcome \cup {"none"} /\ complete[e] \in BOOLEAN
    BY <1>1, ChainHead
  <1>4. /\ pending \in [Exec -> Outcome \cup {"none"}] /\ complete \in [Exec -> BOOLEAN]
        /\ complete[e] => pending[e] # "none"
        /\ flow \in [Exec -> [Flow -> FlowRecord]]
    BY <1>3 DEF IInv, ArenaType, Control
  <1>5. CASE UNCHANGED <<flow, each>> /\ GoOn(<<>>)
    <2>1. flow' = [flow EXCEPT ![e] = flow[e]]
      BY <1>3, <1>4, <1>5, SameEntry
    <2>2. \A i \in Flow : Left(<<>>, flow[e], i)
      BY <1>1 DEF Left
    <2>3. QED
      BY <1>1, <1>3, <1>5, <2>1, <2>2, NoSteps, ArenaStepInvariant
  <1>6. CASE /\ Idle(e) # {}
             /\ flow' = [flow EXCEPT ![e][i0] =
                           [@ EXCEPT !.active = TRUE, !.region = s.region, !.item = s.next]]
             /\ each' = [each EXCEPT ![e].next = @ + 1]
             /\ GoOn(<<x, AdmitItems>>)
    <2>1. flow' = [flow EXCEPT ![e] = fl] /\ each' = [each EXCEPT ![e] = s1]
      BY <1>6
    <2> HIDE DEF e
    <2>2. i0 \in Flow
      <3>1. Idle(e) \in SUBSET Flow
        BY DEF Idle
      <3>2. QED
        BY <1>6, <3>1, LowestFlow
    <2>3. s.region \in Node /\ Kind[s.region] = "each" /\ s.next \in Nat
      BY <1>1, <1>3 DEF EachRecord
    <2>4. Template[s.region] \in Target
      BY <2>3, GroupAssumption
    <2> HIDE DEF i0
    <2>5. x \in ChainStep /\ x.op = "edge" /\ x.i = i0
      BY <2>2, <2>4, EnterIsStep
    <2>6. s1 \in EachRecord
      BY <1>3 DEF EachRecord
    <2> HIDE DEF x, s1
    <2>7. <<x, AdmitItems>> \in Seq(ChainStep) /\ 1 \in DOMAIN <<x, AdmitItems>>
          /\ <<x, AdmitItems>>[1] = x
      BY <2>5, OtherSteps
    <2>8. fl \in [Flow -> FlowRecord]
      BY <1>3, <2>2, <2>3 DEF FlowRecord
    <2>9. ASSUME NEW i \in Flow PROVE Left(<<x, AdmitItems>>, fl, i)
      <3>1. /\ fl[i].req = flow[e][i].req /\ fl[i].state = flow[e][i].state
            /\ i = i0 \/ fl[i] = flow[e][i]
        BY <1>3, <2>2 DEF FlowRecord
      <3> HIDE DEF fl
      <3>2. i = i0 => \E k \in DOMAIN <<x, AdmitItems>> :
                         <<x, AdmitItems>>[k].op = "edge" /\ <<x, AdmitItems>>[k].i = i
        BY <2>5, <2>7
      <3>3. QED
        BY <1>1, <3>1, <3>2 DEF Left, e
    <2>10. /\ pending' = [pending EXCEPT ![e] = pending[e]]
           /\ complete' = [complete EXCEPT ![e] = complete[e]]
      BY <1>1, <1>3, <1>4, SameEntry
    <2> HIDE DEF fl
    <2>11. QED
      BY <1>1, <1>3, <1>4, <1>6, <2>1, <2>6, <2>7, <2>8, <2>9, <2>10, ChainStepInvariant DEF e
  <1>7. QED
    BY <1>2, <1>5, <1>6

\* A finished item waits until the items before it are collected.
LEMMA KeptCollect == ASSUME IInv, Collect PROVE IInv'
  <1> DEFINE e == cur[1]
             t == Head(todo)
             s == each[e]
             moved == [flow[e] EXCEPT ![t.i] = [@ EXCEPT !.state = "WAITING", !.node = t.to.node]]
             waits(k) == {i \in Flow : /\ moved[i].active /\ moved[i].region = s.region
                                       /\ moved[i].state = "WAITING" /\ moved[i].item = k}
             flushed == {k \in s.flush .. s.count - 1 : \A j \in s.flush .. k : waits(j) # {}}
             gone == UNION {waits(k) : k \in flushed}
             next == s.flush + Cardinality(flushed)
             fl == [i \in Flow |->
                      IF i \in gone THEN [moved[i] EXCEPT !.active = FALSE, !.region = "none"]
                      ELSE moved[i]]
             s1 == [s EXCEPT !.flush = next]
             x == IF AllCollected(s, next) THEN FinishEach ELSE AdmitItems
  <1>1. /\ pc = "enter" /\ t.op = "edge"
        /\ flow' = [flow EXCEPT ![e] = fl] /\ each' = [each EXCEPT ![e].flush = next]
        /\ GoOn(<<x>>) /\ UNCHANGED <<pending, complete, restOfEnter>>
    BY DEF Collect, Entering
  <1>2. each' = [each EXCEPT ![e] = s1]
    BY <1>1
  <1>3. /\ e \in Exec /\ t.i \in Flow /\ t.to.node \in Node
        /\ flow[e] \in [Flow -> FlowRecord] /\ s \in EachRecord
        /\ pending[e] \in Outcome \cup {"none"} /\ complete[e] \in BOOLEAN
    BY <1>1, ChainHead
  <1>4. /\ pending \in [Exec -> Outcome \cup {"none"}] /\ complete \in [Exec -> BOOLEAN]
        /\ complete[e] => pending[e] # "none"
    BY <1>3 DEF IInv, ArenaType, Control
  <1> HIDE DEF e, t, waits
  <1>5. next \in Nat
    <2>1. s.flush \in Nat /\ s.count \in Nat
      BY <1>3 DEF EachRecord
    <2>2. IsFiniteSet(s.flush .. s.count - 1)
      <3>1. s.flush \in Int /\ s.count - 1 \in Int
        BY <2>1
      <3>2. QED
        BY <3>1, FS_Interval
    <2>3. Cardinality(flushed) \in Nat
      BY <2>2, FS_Subset, FS_CardinalityType
    <2>4. QED
      BY <2>1, <2>3
  <1> HIDE DEF next, gone
  <1>6. s1 \in EachRecord
    BY <1>3, <1>5 DEF EachRecord
  <1>7. <<x>> \in Seq(ChainStep)
    BY OtherSteps
  <1> HIDE DEF x, s1
  <1>8. moved \in [Flow -> FlowRecord]
    BY <1>3 DEF FlowRecord, FlowState
  <1>9. ASSUME NEW i \in Flow
        PROVE  /\ moved[i].req = flow[e][i].req
               /\ moved[i].state = "WAITING" \/ (moved[i] = flow[e][i] /\ i # t.i)
    BY <1>3 DEF FlowRecord
  <1> HIDE DEF moved
  <1>10. fl \in [Flow -> FlowRecord]
    BY <1>8 DEF FlowRecord
  <1>11. ASSUME NEW i \in Flow PROVE Left(<<x>>, fl, i)
    <2>1. /\ fl[i].req = moved[i].req /\ fl[i].state = moved[i].state
          /\ ~fl[i].active \/ fl[i] = moved[i]
      BY <1>8 DEF FlowRecord
    <2> HIDE DEF fl
    <2>2. QED
      BY <1>1, <1>9, <2>1 DEF Left, e, t
  <1>12. /\ pending' = [pending EXCEPT ![e] = pending[e]]
         /\ complete' = [complete EXCEPT ![e] = complete[e]]
    BY <1>1, <1>3, <1>4, SameEntry
  <1> HIDE DEF fl
  <1>13. QED
    BY <1>1, <1>2, <1>3, <1>4, <1>6, <1>7, <1>10, <1>11, <1>12, ChainStepInvariant DEF e

\* When every item is collected, the coordinator goes on.
LEMMA KeptEachFinish == ASSUME IInv, EachFinish PROVE IInv'
  <1> DEFINE e == cur[1]
             s == each[e]
             fl == [flow[e] EXCEPT ![s.coord] = [@ EXCEPT !.active = TRUE, !.region = "none"]]
             s1 == [s EXCEPT !.region = "none"]
             x == Enter(s.coord, Collected[s.region], "Success")
  <1>1. /\ pc = "enter" /\ Head(todo).op = "collected" /\ s.region # "none"
        /\ flow' = [flow EXCEPT ![e][s.coord] = [@ EXCEPT !.active = TRUE, !.region = "none"]]
        /\ each' = [each EXCEPT ![e].region = "none"]
        /\ GoOn(<<x>>) /\ UNCHANGED <<pending, complete, restOfEnter>>
    BY DEF EachFinish
  <1>2. flow' = [flow EXCEPT ![e] = fl] /\ each' = [each EXCEPT ![e] = s1]
    BY <1>1
  <1>3. /\ e \in Exec /\ flow[e] \in [Flow -> FlowRecord] /\ s \in EachRecord
        /\ pending[e] \in Outcome \cup {"none"} /\ complete[e] \in BOOLEAN
    BY <1>1, ChainHead
  <1>4. /\ pending \in [Exec -> Outcome \cup {"none"}] /\ complete \in [Exec -> BOOLEAN]
        /\ complete[e] => pending[e] # "none"
    BY <1>3 DEF IInv, ArenaType, Control
  <1>5. s.region \in Node /\ Kind[s.region] = "each" /\ s.coord \in Flow
    BY <1>1, <1>3 DEF EachRecord
  <1>6. Collected[s.region] \in Target /\ "Success" \in Outcome \cup {"none"}
    BY <1>5, GroupAssumption DEF Outcome
  <1> HIDE DEF e
  <1>7. x \in ChainStep /\ x.op = "edge" /\ x.i = s.coord
    BY <1>5, <1>6, EnterIsStep
  <1>8. s1 \in EachRecord
    BY <1>3 DEF EachRecord
  <1> HIDE DEF x, s1
  <1>9. <<x>> \in Seq(ChainStep) /\ 1 \in DOMAIN <<x>> /\ <<x>>[1] = x
    BY <1>7
  <1>10. fl \in [Flow -> FlowRecord]
    BY <1>3, <1>5 DEF FlowRecord
  <1>11. ASSUME NEW i \in Flow PROVE Left(<<x>>, fl, i)
    <2>1. /\ fl[i].req = flow[e][i].req /\ fl[i].state = flow[e][i].state
          /\ i = s.coord \/ fl[i] = flow[e][i]
      BY <1>3, <1>5 DEF FlowRecord
    <2> HIDE DEF fl
    <2>2. i = s.coord => \E k \in DOMAIN <<x>> : <<x>>[k].op = "edge" /\ <<x>>[k].i = i
      BY <1>7, <1>9
    <2>3. QED
      BY <1>1, <2>1, <2>2 DEF Left, e
  <1>12. /\ pending' = [pending EXCEPT ![e] = pending[e]]
         /\ complete' = [complete EXCEPT ![e] = complete[e]]
    BY <1>1, <1>3, <1>4, SameEntry
  <1> HIDE DEF fl
  <1>13. QED
    BY <1>1, <1>2, <1>3, <1>4, <1>8, <1>9, <1>10, <1>11, <1>12, ChainStepInvariant DEF e

\* Whatever a result does to the flows keeps the invariant.
LEMMA KeptEdges == ASSUME IInv, Edges PROVE IInv'
  BY KeptEnterAction, KeptEnterFork, KeptEnterDispatch, KeptEnterJoin, KeptCutFlow,
     KeptEnterTerminal, KeptMaybeComplete, KeptEnterEach, KeptAdmitItem, KeptCollect,
     KeptEachFinish DEF Edges

-----------------------------------------------------------------------------
(* The loop *)

\* The parts of the invariant while the loop runs.
LEMMA Parts ==
  ASSUME IInv, pc # "ended"
  PROVE  /\ JournalTypeOK /\ ArenaType /\ LoopType /\ WorldType /\ Control /\ Flights
         /\ Accepting /\ Served1
         /\ \A e \in Exec, i \in Flow : Owned(e, i) /\ InStep(e, i)
         /\ \A e \in Exec : Numbered(e)
  BY DEF IInv, Working

\* Outside the chain no edge waits for a flow.
LEMMA NothingBusy ==
  ASSUME todo = <<>>
  PROVE  \A e, i : i \notin Busy(e) /\ (Settled(e, i) <=> flow[e][i].active)
  BY DEF Busy, EdgesLeft, Settled

\* An execution that runs and whose delivery is current has an Action to send to.
LEMMA CurrentAction ==
  ASSUME ArenaType, NEW e \in Exec, NEW i \in Flow, Current(e, i)
  PROVE  ActionAt(e, i) \in Action /\ dlv[e][i].req \in Req /\ flow[e][i].req # 0
  <1>1. dlv[e][i].req \in Req /\ dlv[e][i].node \in Node
    BY DEF ArenaType, DlvRecord
  <1>2. QED
    BY <1>1, GroupAssumption, JournalAssumption DEF Current, ActionAt, Req

\* A step about one flow's delivery, of which no other flow has the request,
\* leaves what is known of every other flow true.
LEMMA OthersKept ==
  ASSUME IInv, pc # "ended", todo = <<>>, NEW e \in Exec, NEW i \in Flow, e \in used,
         Current(e, i),
         \A f \in Exec, q \in Req : ~(f = e /\ q = dlv[e][i].req) =>
            jdel'[f][q] = jdel[f][q] /\ sends'[f][q] = sends[f][q],
         \A f \in Exec, j \in Flow : <<f, j>> # <<e, i>> =>
            /\ flow'[f][j] = flow[f][j] /\ dlv'[f][j] = dlv[f][j] /\ ~Sending1(f, j),
         flow'[e][i].req = flow[e][i].req,
         UNCHANGED <<used, nreq, jlast>>
  PROVE  /\ \A f \in Exec, j \in Flow : <<f, j>> # <<e, i>> => Owned(f, j)' /\ InStep(f, j)'
         /\ \A f \in Exec : Numbered(f)'
  <1> DEFINE r == dlv[e][i].req
  <1>0. /\ ArenaType /\ r \in Req /\ flow[e][i].req = r /\ r # 0
        /\ \A f \in Exec : nreq[f] \in Nat /\ Numbered(f)
        /\ Req \subseteq Nat
    BY Parts, CurrentAction, JournalAssumption DEF Current, ArenaType, Req
  <1>1. ASSUME NEW f \in Exec, NEW j \in Flow, <<f, j>> # <<e, i>>, Current(f, j)
        PROVE  ~(f = e /\ dlv[f][j].req = r) /\ dlv[f][j].req \in Req
    <2>1. dlv[f][j].req \in Req /\ flow[f][j].req = dlv[f][j].req
      BY <1>1, <1>0, CurrentAction DEF Current
    <2>2. QED
      BY <1>0, <1>1, <2>1 DEF Numbered
  <1>2. ASSUME NEW f \in Exec, NEW j \in Flow, <<f, j>> # <<e, i>>
        PROVE  Owned(f, j)' /\ InStep(f, j)'
    <2>1. Owned(f, j) /\ InStep(f, j)
      BY Parts
    <2>2. Settled(f, j)' => Settled(f, j)
      BY <1>2, NothingBusy DEF Settled
    <2>3. Current(f, j)' <=> Current(f, j)
      BY <1>2 DEF Current
    <2>4. Current(f, j) => /\ (Fresh(f, j) => Fresh(f, j)')
                           /\ (IsOpen(f, dlv[f][j].req) => IsOpen(f, dlv[f][j].req)')
      BY <1>1, <1>2 DEF Fresh, IsOpen
    <2>5. Owned(f, j)'
      BY <1>2, <2>1, <2>3, <2>4 DEF Owned
    <2>6. InStep(f, j)'
      BY <1>2, <2>1, <2>2, <2>3, <2>4 DEF InStep
    <2>7. QED
      BY <2>5, <2>6
  <1>3. ASSUME NEW f \in Exec PROVE Numbered(f)'
    <2>0. Numbered(f) /\ Numbered(e)
      BY <1>0
    <2>1. \A j \in Flow : flow'[f][j].req = flow[f][j].req
      OBVIOUS
    <2>2. \A q \in Req : f = e /\ q >= nreq[f] => q # r
      BY <1>0, <2>0 DEF Numbered
    <2>3. QED
      BY <2>0, <2>1, <2>2 DEF Numbered
  <1>4. QED
    BY <1>2, <1>3

\* Closing the connection of an Action leaves every invocation in one place.
LEMMA DropKeeps ==
  ASSUME WorldType, NEW a \in Action, DropAction(a)
  PROVE  /\ fd' \in [Action -> {"none", "open", "hup"}]
         /\ inbox' \in [Action -> SUBSET Invocation] /\ late' \subseteq Invocation
         /\ answers' \in [Action -> Seq(Frame)] /\ UNCHANGED ran
         /\ \A d : InFlight(d)' <=> InFlight(d)
         /\ \A b \in Action : inbox'[b] = IF b = a THEN {} ELSE inbox[b]
         /\ \A b \in Action : answers'[b] = IF b = a THEN <<>> ELSE answers[b]
         /\ late' = late \cup inbox[a]
  <1>1. /\ \A b \in Action : inbox'[b] = IF b = a THEN {} ELSE inbox[b]
        /\ \A b \in Action : answers'[b] = IF b = a THEN <<>> ELSE answers[b]
        /\ late' = late \cup inbox[a]
    BY DEF DropAction, WorldType
  <1>2. \A d : InFlight(d)' <=> InFlight(d)
    BY <1>1 DEF InFlight
  <1>3. QED
    BY <1>1, <1>2 DEF DropAction, WorldType

\* A record about a delivery, and the end of its connection, leave what is known
\* of the invocations true, provided a verdict other than unknown is not given to
\* one that is still to be run.
LEMMA FlightsKept ==
  ASSUME WorldType, Flights, NEW e \in Exec, NEW r \in Req, NEW o \in Delivery,
         \A f \in Exec, q \in Req : jdel'[f][q] = IF f = e /\ q = r THEN o ELSE jdel[f][q],
         o \in {"prepared", "sent", "Unknown"} \/ ~InFlight(<<e, r>>),
         UNCHANGED <<sends, ran>>,
         UNCHANGED <<inbox, late, answers>> \/ \E a \in Action : DropAction(a)
  PROVE  Flights'
  <1>1. \A d : InFlight(d)' <=> InFlight(d)
    BY DropKeeps DEF InFlight
  <1>2. ASSUME NEW f \in Exec, NEW q \in Req PROVE Flight(f, q)'
    <2>1. Flight(f, q) /\ (InFlight(<<f, q>>)' <=> InFlight(<<f, q>>))
      BY <1>1 DEF Flights
    <2>2. InFlight(<<f, q>>) => jdel'[f][q] \in {"prepared", "sent", "Unknown"}
      BY <2>1 DEF Flight
    <2>3. ASSUME NEW a \in Action, <<f, q>> \in inbox'[a]
          PROVE  /\ <<f, q>> \notin late'
                 /\ \A b \in Action : <<f, q>> \in inbox'[b] => a = b
      <3>1. CASE UNCHANGED <<inbox, late, answers>>
        BY <2>1, <2>3, <3>1 DEF Flight
      <3>2. CASE \E c \in Action : DropAction(c)
        <4>1. PICK c \in Action : DropAction(c)
          BY <3>2
        <4>2. /\ \A b \in Action : inbox'[b] = IF b = c THEN {} ELSE inbox[b]
              /\ late' = late \cup inbox[c]
          BY <4>1, DropKeeps
        <4>3. QED
          BY <2>1, <2>3, <4>2 DEF Flight
      <3>3. QED
        BY <3>1, <3>2
    <2>4. QED
      BY <2>1, <2>2, <2>3 DEF Flight
  <1>3. ASSUME NEW a \in Action, NEW k \in DOMAIN answers'[a]
        PROVE  ran'[answers'[a][k].e][answers'[a][k].r]
    <2>1. answers'[a] = answers[a] \/ answers'[a] = <<>>
      BY DropKeeps
    <2>2. answers'[a] = answers[a]
      BY <1>3, <2>1
    <2>3. QED
      BY <1>3, <2>2 DEF Flights
  <1>4. QED
    BY <1>2, <1>3 DEF Flights

\* Taking or giving up the ownership of an Action changes one delivery.
LEMMA OwnsEffect ==
  ASSUME dlv \in [Exec -> [Flow -> DlvRecord]], NEW e \in Exec, NEW i \in Flow,
         NEW b \in BOOLEAN, dlv' = [dlv EXCEPT ![e][i].owns = b]
  PROVE  /\ dlv' \in [Exec -> [Flow -> DlvRecord]]
         /\ \A f \in Exec, j \in Flow : <<f, j>> # <<e, i>> => dlv'[f][j] = dlv[f][j]
         /\ dlv'[e][i].owns = b /\ dlv'[e][i].req = dlv[e][i].req
         /\ dlv'[e][i].node = dlv[e][i].node
  <1>1. dlv[e][i] \in DlvRecord /\ dlv[e] \in [Flow -> DlvRecord]
    OBVIOUS
  <1>2. [dlv[e][i] EXCEPT !.owns = b] \in DlvRecord
    BY <1>1 DEF DlvRecord
  <1>3. \A f \in Exec, j \in Flow :
          dlv'[f][j] = IF f = e /\ j = i THEN [dlv[e][i] EXCEPT !.owns = b] ELSE dlv[f][j]
    OBVIOUS
  <1>4. dlv' \in [Exec -> [Flow -> DlvRecord]]
    BY <1>1, <1>2
  <1>5. QED
    BY <1>1, <1>3, <1>4 DEF DlvRecord

\* A delivery that ends without a value: its flow enters a terminal, or the flow
\* is stale and the loop ends.
LEMMA KeptEndDelivery ==
  ASSUME IInv, pc \in {"idle", "round"}, NEW e \in used, NEW i \in Flow,
         NEW o \in {"NotSent", "Unknown"}, NEW required \in {"PREPARED", "SENT"},
         EndDelivery(e, i, o, required),
         o = "NotSent" => sends[e][dlv[e][i].req] = 0,
         round' \subseteq round, required = "PREPARED" => <<e, i>> \notin round'
  PROVE  IInv'
  <1>0. /\ JournalTypeOK /\ ArenaType /\ LoopType /\ WorldType /\ Control /\ Flights
        /\ Served1 /\ todo = <<>> /\ e \in Exec /\ dlv[e][i].req \in Req
        /\ cur' = <<e, i>> /\ "none" \notin Outcome /\ o \in Outcome /\ o \in Delivery
    BY Parts DEF Control, ArenaType, DlvRecord, EndDelivery, Outcome, Delivery
  <1> DEFINE r == dlv[e][i].req
  <1>1. /\ AppendClosing(e, r, o)
        /\ UNCHANGED <<runVars, used, route, verdict, hups, results, sends, told,
                       flow, nreq, pending, complete, each>>
    BY DEF EndDelivery, runVars
  <1>2. /\ JournalTypeOK' /\ UNCHANGED jlast
        /\ \A f \in Exec, q \in Req : jdel'[f][q] = IF f = e /\ q = r THEN o ELSE jdel[f][q]
    BY <1>0, <1>1, ClosingEffect
  <1>3. o = "Unknown" \/ ~InFlight(<<e, r>>)
    <2>1. Flight(e, r)
      BY <1>0 DEF Flights
    <2>2. QED
      BY <2>1 DEF Flight
  <1>4. \A f \in used : f <= jlast
    BY <1>0 DEF Control
  <1>5. CASE flow[e][i].active /\ flow[e][i].state = required
    <2>1. /\ dlv' = [dlv EXCEPT ![e][i].owns = FALSE] /\ DropAction(ActionAt(e, i))
          /\ pc' = "enter" /\ after' = "finish" /\ todo' = <<Enter(i, End, o)>>
      BY <1>5 DEF EndDelivery
    <2>2. Current(e, i)
      <3>1. Owned(e, i) /\ InStep(e, i) /\ Settled(e, i)
        BY <1>0, <1>5, Parts, NothingBusy
      <3>2. QED
        BY <1>5, <3>1 DEF Owned, InStep
    <2>3. ActionAt(e, i) \in Action
      BY <1>0, <2>2, CurrentAction
    <2>4. Flights'
      BY <1>0, <1>1, <1>2, <1>3, <2>1, <2>3, FlightsKept DEF DropAction
    <2>5. WorldType'
      BY <1>0, <1>1, <2>1, <2>3, DropKeeps DEF WorldType
    <2>6. ArenaType'
      BY <1>0, <1>1, <2>1, OwnsEffect DEF ArenaType
    <2>7. End \in Target
      <3>1. (CHOOSE n \in Node : Kind[n] = "end") \in Node
        BY GroupAssumption
      <3>2. 0 \in 0 .. MaxFlows
        BY GroupAssumption
      <3>3. QED
        BY <3>1, <3>2 DEF End, Target
    <2> DEFINE x == Enter(i, End, o)
    <2>8. x \in ChainStep /\ x.op = "edge" /\ x.i = i
      BY <1>0, <2>7, EnterIsStep
    <2> HIDE DEF x
    <2>9. todo' = <<x>> /\ todo' \in Seq(ChainStep) /\ todo' # <<>> /\ i \in Busy(e)'
      <3>1. todo' = <<x>>
        BY <2>1 DEF x
      <3>2. 1 \in DOMAIN todo' /\ todo'[1].op = "edge" /\ todo'[1].i = i
        BY <2>8, <3>1
      <3>3. i \in Busy(e)'
        BY <1>0, <3>2 DEF Busy, EdgesLeft
      <3>4. QED
        BY <2>8, <3>1, <3>3
    <2>10. LoopType'
      BY <1>0, <1>1, <2>1, <2>9 DEF LoopType
    <2>11. Control'
      BY <1>0, <1>1, <1>2, <1>4, <2>1, <2>9 DEF Control
    <2>12. ASSUME NEW f \in Exec, NEW j \in Flow, <<f, j>> # <<e, i>>
           PROVE  flow'[f][j] = flow[f][j] /\ dlv'[f][j] = dlv[f][j] /\ ~Sending1(f, j)
      BY <1>0, <1>1, <2>1, <2>12 DEF ArenaType, Sending1
    <2>13. /\ \A f \in Exec, j \in Flow : <<f, j>> # <<e, i>> => Owned(f, j)' /\ InStep(f, j)'
           /\ \A f \in Exec : Numbered(f)'
      BY <1>0, <1>1, <1>2, <2>2, <2>12, OthersKept
    <2>14. dlv'[e][i].owns = FALSE
      BY <1>0, <2>1 DEF ArenaType, DlvRecord
    <2>15. Owned(e, i)' /\ InStep(e, i)'
      BY <2>9, <2>14 DEF Owned, InStep, Settled
    <2>16. Accepting'
      BY <2>1 DEF Accepting
    <2>17. Served1'
      <3>1. ASSUME NEW x1 \in round', flow'[x1[1]][x1[2]].state = "PREPARED"
            PROVE  dlv'[x1[1]][x1[2]].owns
        <4>1. x1 \in round /\ x1[1] \in Exec /\ x1[2] \in Flow /\ x1 = <<x1[1], x1[2]>>
          BY <1>0 DEF LoopType
        <4>2. x1 # <<e, i>>
          BY <1>1, <1>5, <3>1
        <4>3. QED
          BY <1>0, <2>12, <3>1, <4>1, <4>2 DEF Served1
      <3>2. QED
        BY <2>1, <3>1 DEF Served1
    <2>18. Working'
      BY <2>13, <2>15, <2>16, <2>17 DEF Working
    <2>19. QED
      BY <1>2, <2>4, <2>5, <2>6, <2>10, <2>11, <2>18 DEF IInv
  <1>6. CASE ~(flow[e][i].active /\ flow[e][i].state = required)
    <2>1. pc' = "ended" /\ UNCHANGED <<dlv, appVars, after, todo>>
      BY <1>6 DEF EndDelivery
    <2>2. UNCHANGED <<fd, inbox, late, answers, ran>>
      BY <2>1 DEF appVars
    <2>3. Flights'
      BY <1>0, <1>1, <1>2, <1>3, <2>2, FlightsKept
    <2>4. WorldType' /\ ArenaType'
      BY <1>0, <1>1, <2>1, <2>2 DEF WorldType, ArenaType
    <2>5. LoopType'
      BY <1>0, <1>1, <2>1 DEF LoopType
    <2>6. Control'
      BY <1>0, <1>1, <1>2, <1>4, <2>1 DEF Control
    <2>7. QED
      BY <1>2, <2>1, <2>3, <2>4, <2>5, <2>6 DEF IInv
  <1>7. QED
    BY <1>5, <1>6

\* Nothing that the invariant speaks of changes.
LEMMA KeptFrame ==
  ASSUME IInv,
         UNCHANGED <<journalVars, runVars, dlv, used, pcVars, round, hups, results, appVars, sends, told>>
  PROVE  IInv'
  <1>1. UNCHANGED <<jok, jtail, jlast, jphase, jdel, jhi, jagg, flow, nreq, pending, complete, each,
                    pc, cur, verdict, after, todo, fd, inbox, late, answers, ran>>
    BY DEF journalVars, runVars, pcVars, appVars
  <1>2. JournalTypeOK' /\ ArenaType' /\ LoopType' /\ WorldType' /\ Control' /\ Flights'
    <2>1. JournalTypeOK' /\ ArenaType' /\ LoopType' /\ WorldType'
      BY <1>1 DEF IInv, JournalTypeOK, ArenaType, LoopType, WorldType
    <2>2. Control'
      BY <1>1 DEF IInv, Control
    <2>3. Flights'
      BY <1>1 DEF IInv, Flights, Flight, InFlight
    <2>4. QED
      BY <2>1, <2>2, <2>3
  <1>3. \A e, i : /\ Busy(e)' = Busy(e) /\ (Settled(e, i)' <=> Settled(e, i))
                  /\ (Current(e, i)' <=> Current(e, i)) /\ (Fresh(e, i)' <=> Fresh(e, i))
    BY <1>1 DEF Busy, EdgesLeft, Settled, Current, Fresh, Sending1
  <1>4. Working => Working'
    <2>1. ASSUME Working, NEW e \in Exec, NEW i \in Flow PROVE Owned(e, i)' /\ InStep(e, i)'
      BY <1>1, <1>3, <2>1 DEF Working, Owned, InStep, IsOpen
    <2>2. ASSUME Working, NEW e \in Exec PROVE Numbered(e)'
      BY <1>1, <2>2 DEF Working, Numbered
    <2>3. Working => Accepting' /\ Served1'
      BY <1>1, <1>3 DEF Working, Accepting, Served1
    <2>4. QED
      BY <2>1, <2>2, <2>3 DEF Working
  <1>5. QED
    BY <1>1, <1>2, <1>4 DEF IInv

\* A flow takes an Action only when it is prepared and gives it up only when it
\* is not sent; the round holds prepared flows that own their Action.
LEMMA OwnershipKept ==
  ASSUME IInv, pc \in {"idle", "round"}, pc' \in {"idle", "round"},
         UNCHANGED <<journalVars, runVars, used, cur, verdict, after, todo, results, appVars,
                     sends, told>>,
         hups' \subseteq Exec \X Flow, dlv' \in [Exec -> [Flow -> DlvRecord]],
         round' \subseteq used \X Flow, pc' = "idle" => round' = {},
         \A f \in Exec, j \in Flow :
           /\ dlv'[f][j].req = dlv[f][j].req /\ dlv'[f][j].node = dlv[f][j].node
           /\ dlv'[f][j].owns =>
                dlv[f][j].owns \/ (f \in used /\ flow[f][j].active /\ flow[f][j].state = "PREPARED")
           /\ flow[f][j].active /\ flow[f][j].state = "SENT" /\ dlv[f][j].owns => dlv'[f][j].owns,
         \A x \in round' : flow[x[1]][x[2]].state = "PREPARED" => dlv'[x[1]][x[2]].owns
  PROVE  IInv'
  <1>1. UNCHANGED <<jok, jtail, jlast, jphase, jdel, jhi, jagg, flow, nreq, pending, complete, each,
                    fd, inbox, late, answers, ran>>
    BY DEF journalVars, runVars, appVars
  <1>2. /\ JournalTypeOK /\ ArenaType /\ LoopType /\ WorldType /\ Control /\ Flights
        /\ todo = <<>> /\ todo' = <<>>
        /\ \A e \in Exec, i \in Flow : Owned(e, i) /\ InStep(e, i)
        /\ \A e \in Exec : Numbered(e)
    BY Parts DEF Control
  <1>3. JournalTypeOK' /\ WorldType' /\ ArenaType'
    BY <1>1, <1>2 DEF JournalTypeOK, WorldType, ArenaType
  <1>4. LoopType'
    BY <1>2 DEF LoopType, ArenaType
  <1>5. Control'
    BY <1>1, <1>2 DEF Control
  <1>6. Flights'
    BY <1>1, <1>2 DEF Flights, Flight, InFlight
  <1>7. \A e, i : (Settled(e, i) <=> flow[e][i].active) /\ (Settled(e, i)' <=> flow[e][i].active)
    BY <1>1, <1>2 DEF Settled, Busy, EdgesLeft
  <1>8. ASSUME NEW e \in Exec, NEW i \in Flow PROVE Owned(e, i)' /\ InStep(e, i)'
    <2>1. Owned(e, i) /\ InStep(e, i) /\ dlv'[e][i].req = dlv[e][i].req
      BY <1>2
    <2>2. (Current(e, i)' <=> Current(e, i)) /\ (Fresh(e, i)' <=> Fresh(e, i))
      BY <1>1 DEF Current, Fresh, Sending1
    <2>3. Owned(e, i)'
      BY <1>1, <1>7, <2>1, <2>2 DEF Owned, InStep, IsOpen, Fresh
    <2>4. InStep(e, i)'
      BY <1>1, <1>7, <2>1, <2>2 DEF InStep
    <2>5. QED
      BY <2>3, <2>4
  <1>9. ASSUME NEW e \in Exec PROVE Numbered(e)'
    BY <1>1, <1>2 DEF Numbered
  <1>10. Accepting' /\ Served1'
    BY <1>1, <1>2 DEF Accepting, Served1
  <1>11. Working'
    BY <1>8, <1>9, <1>10 DEF Working
  <1>12. QED
    BY <1>3, <1>4, <1>5, <1>6, <1>11 DEF IInv

\* reconcile_missing_actions
LEMMA KeptReconcile == ASSUME IInv, NEW e \in Exec, NEW i \in Flow, Reconcile(e, i) PROVE IInv'
  <1>0. /\ pc = "idle" /\ e \in used /\ UNCHANGED round /\ ArenaType /\ LoopType /\ Control
    BY Parts DEF Reconcile, Missing
  <1>1. CASE EndDelivery(e, i, "Unknown", "SENT")
    BY <1>0, <1>1, KeptEndDelivery
  <1>2. CASE /\ ~(flow[e][i].active /\ flow[e][i].state = "SENT")
             /\ dlv' = [dlv EXCEPT ![e][i].owns = FALSE]
             /\ UNCHANGED <<journalVars, runVars, used, route, pcVars, hups, results>>
             /\ UNCHANGED <<appVars, sends, told>>
    <2>1. /\ dlv' \in [Exec -> [Flow -> DlvRecord]]
          /\ \A f \in Exec, j \in Flow : <<f, j>> # <<e, i>> => dlv'[f][j] = dlv[f][j]
          /\ dlv'[e][i].owns = FALSE /\ dlv'[e][i].req = dlv[e][i].req
          /\ dlv'[e][i].node = dlv[e][i].node
      BY <1>0, <1>2, OwnsEffect DEF ArenaType
    <2>2. UNCHANGED <<pc, cur, verdict, after, todo>> /\ round' = {} /\ hups' \subseteq Exec \X Flow
      BY <1>0, <1>2 DEF pcVars, Control, LoopType
    <2>3. QED
      BY <1>0, <1>2, <2>1, <2>2, OwnershipKept
  <1>3. QED
    BY <1>1, <1>2 DEF Reconcile

\* assign_available_actions
LEMMA KeptAssign == ASSUME IInv, NEW e \in Exec, NEW i \in Flow, Assign(e, i) PROVE IInv'
  <1>0. /\ pc = "idle" /\ e \in used /\ ArenaType /\ LoopType /\ Control
        /\ flow[e][i].active /\ flow[e][i].state = "PREPARED"
        /\ dlv' = [dlv EXCEPT ![e][i].owns = TRUE]
        /\ UNCHANGED <<journalVars, runVars, used, route, pcVars, round, hups, results>>
        /\ UNCHANGED <<appVars, sends, told>>
    BY Parts DEF Assign, Assignable
  <1>1. /\ dlv' \in [Exec -> [Flow -> DlvRecord]]
        /\ \A f \in Exec, j \in Flow : <<f, j>> # <<e, i>> => dlv'[f][j] = dlv[f][j]
        /\ dlv'[e][i].owns = TRUE /\ dlv'[e][i].req = dlv[e][i].req
        /\ dlv'[e][i].node = dlv[e][i].node
    BY <1>0, OwnsEffect DEF ArenaType
  <1>2. UNCHANGED <<pc, cur, verdict, after, todo>> /\ round' = {} /\ hups' \subseteq Exec \X Flow
    BY <1>0 DEF pcVars, Control, LoopType
  <1>3. QED
    BY <1>0, <1>1, <1>2, OwnershipKept

\* hermas_daemon_loop_poll takes the flows that own an Action
LEMMA KeptPoll == ASSUME IInv, Poll PROVE IInv'
  <1>0. pc = "idle" /\ pc' = "round" /\ ArenaType /\ LoopType /\ Control
        /\ UNCHANGED <<journalVars, runVars, dlv, used, route, cur, verdict, after, todo>>
        /\ UNCHANGED <<results, appVars, sends, told>>
    BY Parts DEF Poll
  <1>1. /\ hups' \subseteq Exec \X Flow
        /\ \A x \in round' : x \in Exec \X Flow /\ Polled(x[1], x[2])
    BY DEF Poll
  <1>2. /\ round' \subseteq used \X Flow
        /\ \A x \in round' : dlv'[x[1]][x[2]].owns
    BY <1>0, <1>1 DEF Polled
  <1>3. QED
    BY <1>0, <1>1, <1>2, OwnershipKept DEF ArenaType

\* The rest of the round.
LEMMA RestOfRound ==
  ASSUME NEW r, Rest(r)
  PROVE  round' = r /\ pc' \in {"idle", "round"} /\ (pc' = "idle" => round' = {})
  BY DEF Rest

\* send_group_invocation finds no descriptor
LEMMA KeptSendNowhere == ASSUME IInv, NEW e \in Exec, NEW i \in Flow, SendNowhere(e, i) PROVE IInv'
  <1>0. /\ pc = "round" /\ ArenaType /\ LoopType /\ Control /\ Served1
        /\ flow[e][i].state = "PREPARED"
        /\ dlv' = [dlv EXCEPT ![e][i].owns = FALSE] /\ Rest(round \ {<<e, i>>})
        /\ UNCHANGED <<journalVars, runVars, used, route, cur, verdict, after, todo, hups>>
        /\ UNCHANGED <<results, appVars, sends, told>>
    BY Parts DEF SendNowhere, Sending
  <1>1. /\ dlv' \in [Exec -> [Flow -> DlvRecord]]
        /\ \A f \in Exec, j \in Flow : <<f, j>> # <<e, i>> => dlv'[f][j] = dlv[f][j]
        /\ dlv'[e][i].owns = FALSE /\ dlv'[e][i].req = dlv[e][i].req
        /\ dlv'[e][i].node = dlv[e][i].node
    BY <1>0, OwnsEffect DEF ArenaType
  <1>2. /\ round' = round \ {<<e, i>>} /\ pc' \in {"idle", "round"} /\ (pc' = "idle" => round' = {})
    BY <1>0, RestOfRound
  <1>3. round' \subseteq used \X Flow /\ hups' \subseteq Exec \X Flow
    BY <1>0, <1>2 DEF Control, LoopType
  <1>4. ASSUME NEW x \in round', flow[x[1]][x[2]].state = "PREPARED"
        PROVE  dlv'[x[1]][x[2]].owns
    <2>1. x \in round /\ x[1] \in Exec /\ x[2] \in Flow /\ <<x[1], x[2]>> # <<e, i>>
      BY <1>0, <1>2 DEF LoopType
    <2>2. QED
      BY <1>0, <1>1, <1>4, <2>1 DEF Served1
  <1>5. QED
    BY <1>0, <1>1, <1>2, <1>3, <1>4, OwnershipKept

\* receive_group_result has nothing to read
LEMMA KeptReceiveNothing ==
  ASSUME IInv, NEW e \in Exec, NEW i \in Flow, ReceiveNothing(e, i) PROVE IInv'
  <1>0. /\ pc = "round" /\ ArenaType /\ LoopType /\ Control /\ Served1 /\ Rest(round \ {<<e, i>>})
        /\ UNCHANGED <<journalVars, runVars, dlv, used, route, cur, verdict, after, todo, hups>>
        /\ UNCHANGED <<results, appVars, sends, told>>
    BY Parts DEF ReceiveNothing
  <1>1. /\ round' \subseteq round /\ pc' \in {"idle", "round"} /\ (pc' = "idle" => round' = {})
    BY <1>0, RestOfRound
  <1>2. round' \subseteq used \X Flow /\ hups' \subseteq Exec \X Flow
    BY <1>0, <1>1 DEF Control, LoopType
  <1>3. QED
    BY <1>0, <1>1, <1>2, OwnershipKept DEF ArenaType, Served1

\* A send that fails: the entry of the round owns a delivery that was never sent.
LEMMA KeptSendFails == ASSUME IInv, NEW e \in Exec, NEW i \in Flow, SendFails(e, i) PROVE IInv'
  <1>1. /\ pc = "round" /\ <<e, i>> \in round /\ flow[e][i].state = "PREPARED"
        /\ EndDelivery(e, i, "NotSent", "PREPARED") /\ round' = round \ {<<e, i>>}
    BY DEF SendFails, Sending, First
  <1>2. e \in used /\ dlv[e][i].owns /\ Owned(e, i)
    BY <1>1, Parts DEF Control, Served1
  <1>3. sends[e][dlv[e][i].req] = 0
    BY <1>1, <1>2 DEF Owned, Fresh, Sending1
  <1>4. QED
    BY <1>1, <1>2, <1>3, KeptEndDelivery

\* A connection that is gone, and a frame that is not accepted.
LEMMA KeptLose == ASSUME IInv, NEW e \in Exec, NEW i \in Flow, Lose(e, i) PROVE IInv'
  <1>1. /\ pc = "round" /\ <<e, i>> \in round
        /\ EndDelivery(e, i, "Unknown", "SENT") /\ round' = round \ {<<e, i>>}
    BY DEF Lose, Receiving, First
  <1>2. e \in used
    BY <1>1, Parts DEF Control
  <1>3. QED
    BY <1>1, <1>2, KeptEndDelivery

\* A frame that is not accepted ends the delivery it matches, or the entry's own.
LEMMA KeptReject == ASSUME IInv, NEW e \in Exec, NEW i \in Flow, Reject(e, i) PROVE IInv'
  <1>1. pc = "round" /\ <<e, i>> \in round /\ round' = round \ {<<e, i>>}
    BY DEF Reject, Receiving, First
  <1>2. PICK j \in Flow : EndDelivery(e, j, "Unknown", "SENT")
    BY DEF Reject, Matching
  <1>3. e \in used
    BY <1>1, Parts DEF Control
  <1>4. QED
    BY <1>1, <1>2, <1>3, KeptEndDelivery

\* The values that Init and Return write are in the types.
LEMMA EmptyTyped ==
  /\ NoFlow \in FlowRecord /\ NoDlv \in DlvRecord /\ NoEach \in EachRecord
  /\ Input \in Target /\ Input.node \in Node /\ 1 \in Flow /\ 1 \in Req
  <1>1. Input \in Target /\ Input.node \in Node /\ 1 \in Flow /\ 1 \in Req
    BY GroupAssumption, JournalAssumption DEF Target, Flow, Req
  <1>2. 0 \in 0 .. MaxReqId
    BY JournalAssumption
  <1>3. NoFlow \in FlowRecord
    BY <1>1, <1>2 DEF NoFlow, FlowRecord, FlowState
  <1>4. NoDlv \in DlvRecord /\ NoEach \in EachRecord
    BY <1>1 DEF NoDlv, DlvRecord, NoEach, EachRecord
  <1>5. QED
    BY <1>1, <1>3, <1>4

\* hermas_daemon_loop_admit: a new execution has one flow, on its way into the
\* input edge, and no request yet.
LEMMA KeptAdmit == ASSUME IInv, NEW e \in Exec, Admit(e) PROVE IInv'
  <1>0. /\ JournalTypeOK /\ ArenaType /\ LoopType /\ WorldType /\ Control /\ Flights
        /\ pc = "idle" /\ todo = <<>> /\ round = {}
        /\ e > jlast /\ e \notin used /\ Cardinality(used) < MaxGroups
        /\ \A f \in Exec, j \in Flow : Owned(f, j) /\ InStep(f, j)
        /\ \A f \in Exec : Numbered(f)
    BY Parts DEF Admit, Control
  <1> DEFINE fl == [i \in Flow |-> [NoFlow EXCEPT !.active = (i = 1)]]
             x == Enter(1, Input, "none")
  <1>1. /\ used' = used \cup {e} /\ flow' = [flow EXCEPT ![e] = fl]
        /\ pc' = "enter" /\ after' = "started" /\ cur' = <<e, 1>> /\ todo' = <<x>>
        /\ UNCHANGED <<journalVars, nreq, pending, complete, each, dlv, route, verdict>>
        /\ UNCHANGED <<round, hups, results, appVars, sends, told>>
    BY DEF Admit
  <1>2. UNCHANGED <<jok, jtail, jlast, jphase, jdel, jhi, jagg, fd, inbox, late, answers, ran>>
    BY <1>1 DEF journalVars, appVars
  <1>3. x \in ChainStep /\ x.op = "edge" /\ x.i = 1
    BY EmptyTyped, EnterIsStep
  <1> HIDE DEF x
  <1>4. /\ todo' \in Seq(ChainStep) /\ todo' # <<>> /\ 1 \in Busy(e)'
        /\ \A f \in Exec : f # e => Busy(f)' = {}
    <2>1. 1 \in DOMAIN todo' /\ todo'[1].op = "edge" /\ todo'[1].i = 1
      BY <1>1, <1>3
    <2>2. 1 \in Busy(e)'
      BY <1>1, <2>1 DEF Busy, EdgesLeft
    <2>3. QED
      BY <1>1, <1>3, <2>2 DEF Busy
  <1>5. /\ fl \in [Flow -> FlowRecord]
        /\ \A i \in Flow : /\ fl[i].active <=> i = 1
                           /\ fl[i].state = "EMPTY" /\ fl[i].req = 0
    BY EmptyTyped DEF NoFlow, FlowRecord
  <1> HIDE DEF fl
  <1>6. /\ flow' \in [Exec -> [Flow -> FlowRecord]] /\ flow'[e] = fl
        /\ \A f \in Exec : f # e => flow'[f] = flow[f]
    BY <1>0, <1>1, <1>5 DEF ArenaType
  <1>7. ArenaType'
    <2>1. /\ IsFiniteSet(used') /\ Cardinality(used') = Cardinality(used) + 1
      BY <1>0, <1>1, FS_AddElement DEF ArenaType
    <2>2. Cardinality(used) \in Nat
      BY <1>0, FS_CardinalityType DEF ArenaType
    <2>3. Cardinality(used') <= MaxGroups
      BY <1>0, <2>1, <2>2, GroupAssumption
    <2>4. QED
      BY <1>0, <1>1, <1>6, <2>1, <2>3 DEF ArenaType
  <1>8. JournalTypeOK' /\ WorldType'
    BY <1>0, <1>1, <1>2 DEF JournalTypeOK, WorldType
  <1>9. LoopType'
    BY <1>0, <1>1, <1>4, EmptyTyped DEF LoopType
  <1>10. Control'
    BY <1>0, <1>1, <1>2, <1>4, EmptyTyped DEF Control
  <1>11. Flights'
    BY <1>0, <1>1, <1>2 DEF Flights, Flight, InFlight
  <1>12. ASSUME NEW f \in Exec, NEW j \in Flow PROVE Owned(f, j)' /\ InStep(f, j)'
    <2>1. Owned(f, j) /\ InStep(f, j)
      BY <1>0
    <2>2. CASE f = e
      <3>1. ~dlv'[f][j].owns
        BY <1>0, <1>1, <2>1, <2>2 DEF Owned
      <3>2. ~Settled(f, j)'
        BY <1>4, <1>5, <1>6, <2>2 DEF Settled
      <3>3. QED
        BY <3>1, <3>2 DEF Owned, InStep
    <2>3. CASE f # e
      <3>1. /\ Settled(f, j)' <=> Settled(f, j)
        BY <1>0, <1>4, <1>6, <2>3, NothingBusy DEF Settled
      <3>2. (Current(f, j)' <=> Current(f, j)) /\ (Fresh(f, j)' <=> Fresh(f, j))
        BY <1>0, <1>1, <1>2, <1>6, <2>3 DEF Current, Fresh, Sending1
      <3>3. QED
        BY <1>1, <1>2, <1>6, <2>1, <2>3, <3>1, <3>2 DEF Owned, InStep, IsOpen
    <2>4. QED
      BY <2>2, <2>3
  <1>13. ASSUME NEW f \in Exec PROVE Numbered(f)'
    <2>1. Numbered(f)
      BY <1>0
    <2>2. CASE f = e
      BY <1>0, <1>1, <1>2, <1>5, <1>6, <2>1, <2>2 DEF Numbered
    <2>3. CASE f # e
      BY <1>1, <1>2, <1>6, <2>1, <2>3 DEF Numbered
    <2>4. QED
      BY <2>2, <2>3
  <1>14. Accepting' /\ Served1'
    BY <1>0, <1>1 DEF Accepting, Served1
  <1>15. Working'
    BY <1>12, <1>13, <1>14 DEF Working
  <1>16. QED
    BY <1>7, <1>8, <1>9, <1>10, <1>11, <1>15 DEF IInv

\* ExecutionStarted
LEMMA KeptStarted == ASSUME IInv, Started PROVE IInv'
  <1>0. /\ JournalTypeOK /\ ArenaType /\ LoopType /\ WorldType /\ Control /\ Flights
        /\ pc = "started" /\ todo = <<>> /\ round = {} /\ pc' = "idle" /\ cur[1] \in Exec
        /\ \A f \in Exec, j \in Flow : Owned(f, j) /\ InStep(f, j)
        /\ \A f \in Exec : Numbered(f)
    BY Parts DEF Started, Control, ArenaType
  <1>1. /\ AppendStarted(cur[1], jtail)
        /\ UNCHANGED <<runVars, dlv, used, route, cur, verdict, after, todo, round, hups>>
        /\ UNCHANGED <<results, appVars, sends, told>>
    BY DEF Started
  <1>2. UNCHANGED <<flow, nreq, pending, complete, each, fd, inbox, late, answers, ran, jdel>>
    BY <1>1 DEF runVars, appVars, AppendStarted
  <1>3. /\ JournalTypeOK' /\ jlast' >= jlast /\ jlast' >= cur[1]
    <2>1. jlast' = (IF cur[1] > jlast THEN cur[1] ELSE jlast) /\ jlast \in Int /\ cur[1] \in Int
      BY <1>0, <1>1 DEF AppendStarted, JournalTypeOK, Exec
    <2>2. jlast' \in 0 .. (MaxExecId - 1)
      BY <1>0, <2>1, JournalAssumption DEF JournalTypeOK, Exec
    <2>3. jphase' \in [Exec -> Phase] /\ jok' \in BOOLEAN
      BY <1>0, <1>1 DEF AppendStarted, JournalTypeOK, Phase, Sound
    <2>4. QED
      BY <1>0, <1>1, <2>1, <2>2, <2>3 DEF AppendStarted, JournalTypeOK
  <1>4. ArenaType' /\ LoopType' /\ WorldType'
    BY <1>0, <1>1, <1>2 DEF ArenaType, LoopType, WorldType
  <1>5. \A f \in Exec : f \in Int /\ jlast \in Int /\ jlast' \in Int
    BY <1>0, <1>3 DEF Exec, JournalTypeOK
  <1>6. Control'
    <2>1. ASSUME NEW f \in used' PROVE f <= jlast'
      <3>1. f \in Exec /\ (f <= jlast \/ f = cur[1])
        BY <1>0, <1>1 DEF Control, ArenaType
      <3>2. QED
        BY <1>0, <1>3, <1>5, <3>1
    <2>2. QED
      BY <1>0, <1>1, <1>2, <2>1 DEF Control
  <1>7. Flights'
    BY <1>0, <1>1, <1>2 DEF Flights, Flight, InFlight
  <1>8. ASSUME NEW f \in Exec, NEW j \in Flow PROVE Owned(f, j)' /\ InStep(f, j)'
    <2>1. Owned(f, j) /\ InStep(f, j)
      BY <1>0
    <2>2. Settled(f, j)' <=> Settled(f, j)
      BY <1>1, <1>2 DEF Settled, Busy, EdgesLeft
    <2>3. (Current(f, j)' <=> Current(f, j)) /\ (Fresh(f, j)' <=> Fresh(f, j))
      BY <1>0, <1>1, <1>2 DEF Current, Fresh, Sending1
    <2>4. QED
      BY <1>1, <1>2, <2>1, <2>2, <2>3 DEF Owned, InStep, IsOpen
  <1>9. ASSUME NEW f \in Exec PROVE Numbered(f)'
    <2>1. f > jlast' => f > jlast
      BY <1>3, <1>5
    <2>2. QED
      BY <1>0, <1>1, <1>2, <2>1 DEF Numbered
  <1>10. Accepting' /\ Served1'
    BY <1>0, <1>1 DEF Accepting, Served1
  <1>11. Working'
    BY <1>8, <1>9, <1>10 DEF Working
  <1>12. QED
    BY <1>3, <1>4, <1>6, <1>7, <1>11 DEF IInv

\* prepare_ready: the request is new to its execution.
LEMMA KeptPrepare == ASSUME IInv, NEW e \in Exec, NEW i \in Flow, Prepare(e, i) PROVE IInv'
  <1> DEFINE r == nreq[e]
             n == flow[e][i].node
  <1>0. /\ JournalTypeOK /\ ArenaType /\ LoopType /\ WorldType /\ Control /\ Flights
        /\ pc = "idle" /\ todo = <<>> /\ round = {} /\ e \in used
        /\ flow[e][i].active /\ flow[e][i].state = "READY" /\ r <= MaxReqId
        /\ \A f \in Exec, j \in Flow : Owned(f, j) /\ InStep(f, j)
        /\ \A f \in Exec : Numbered(f)
    BY Parts DEF Prepare, Preparable, Control
  <1>1. /\ AppendPrepared(e, r)
        /\ flow' = [flow EXCEPT ![e][i] = [@ EXCEPT !.state = "PREPARED", !.req = r]]
        /\ dlv' = [dlv EXCEPT ![e][i] = [req |-> r, node |-> n, owns |-> FALSE]]
        /\ nreq' = [nreq EXCEPT ![e] = r + 1]
        /\ UNCHANGED <<pending, complete, each, used, pcVars, round, hups, results>>
        /\ UNCHANGED <<appVars, sends, told>>
    BY DEF Prepare
  <1>2. UNCHANGED <<pc, cur, verdict, after, todo, fd, inbox, late, answers, ran>>
    BY <1>1 DEF pcVars, appVars
  <1>3. r \in Req /\ r \in 1 .. MaxReqId + 1 /\ r + 1 \in 1 .. MaxReqId + 1 /\ r \in 0 .. MaxReqId
    <2>1. r \in 1 .. MaxReqId + 1
      BY <1>0 DEF ArenaType
    <2>2. QED
      BY <1>0, <2>1, JournalAssumption DEF Req
  <1>4. Kind[n] = "action" /\ n \in Node /\ flow[e][i] \in FlowRecord
    <2>1. InStep(e, i) /\ Settled(e, i)
      BY <1>0, NothingBusy
    <2>2. QED
      BY <1>0, <2>1 DEF InStep, ArenaType, FlowRecord
  <1>5. /\ JournalTypeOK' /\ UNCHANGED jlast
        /\ \A f \in Exec, q \in Req :
             jdel'[f][q] = IF f = e /\ q = r THEN "prepared" ELSE jdel[f][q]
    BY <1>0, <1>1, <1>3, PreparedEffect
  <1> HIDE DEF r, n
  <1>6. /\ flow' \in [Exec -> [Flow -> FlowRecord]]
        /\ \A f \in Exec, j \in Flow : <<f, j>> # <<e, i>> => flow'[f][j] = flow[f][j]
        /\ flow'[e][i].req = r /\ flow'[e][i].state = "PREPARED" /\ flow'[e][i].node = n
        /\ flow'[e][i].active = flow[e][i].active
    <2> DEFINE v == [flow[e][i] EXCEPT !.state = "PREPARED", !.req = r]
    <2>1. v \in FlowRecord /\ v.req = r /\ v.state = "PREPARED" /\ v.node = n
          /\ v.active = flow[e][i].active
      BY <1>3, <1>4 DEF FlowRecord, FlowState, n
    <2>2. flow' = [flow EXCEPT ![e][i] = v]
      BY <1>1
    <2> HIDE DEF v
    <2>3. QED
      BY <1>0, <2>1, <2>2 DEF ArenaType
  <1>7. /\ dlv' \in [Exec -> [Flow -> DlvRecord]]
        /\ \A f \in Exec, j \in Flow : <<f, j>> # <<e, i>> => dlv'[f][j] = dlv[f][j]
        /\ dlv'[e][i].req = r /\ dlv'[e][i].node = n /\ dlv'[e][i].owns = FALSE
    <2> DEFINE v == [req |-> r, node |-> n, owns |-> FALSE]
    <2>1. v \in DlvRecord /\ v.req = r /\ v.node = n /\ v.owns = FALSE
      BY <1>3, <1>4 DEF DlvRecord
    <2>2. dlv' = [dlv EXCEPT ![e][i] = v]
      BY <1>1
    <2> HIDE DEF v
    <2>3. QED
      BY <1>0, <2>1, <2>2 DEF ArenaType
  <1>8. ArenaType' /\ LoopType' /\ WorldType'
    BY <1>0, <1>1, <1>2, <1>3, <1>6, <1>7 DEF ArenaType, LoopType, WorldType
  <1>9. Control'
    BY <1>0, <1>1, <1>2, <1>5 DEF Control
  <1>10. Flights'
    <2>1. "prepared" \in Delivery /\ UNCHANGED <<inbox, late, answers>> /\ UNCHANGED <<sends, ran>>
      BY <1>1, <1>2 DEF Delivery
    <2>2. QED
      BY <1>0, <1>3, <1>5, <2>1, FlightsKept
  <1>11. /\ \A j \in Flow : flow[e][j].req < r /\ flow[e][j].req \in Nat
         /\ \A q \in Req : q >= r => jdel[e][q] = "none" /\ sends[e][q] = 0
         /\ r \in Nat /\ Req \subseteq Nat
    BY <1>0, <1>3 DEF Numbered, ArenaType, FlowRecord, Req, r
  <1>12. ASSUME NEW f \in Exec, NEW j \in Flow PROVE Owned(f, j)' /\ InStep(f, j)'
    <2>1. Owned(f, j) /\ InStep(f, j)
      BY <1>0
    <2>2. CASE <<f, j>> = <<e, i>>
      <3>1. Current(e, i)'
        BY <1>4, <1>6, <1>7 DEF Current
      <3>2. Fresh(e, i)'
        BY <1>1, <1>3, <1>5, <1>7, <1>11 DEF Fresh
      <3>3. QED
        BY <1>4, <1>6, <1>7, <2>2, <3>1, <3>2 DEF Owned, InStep
    <2>3. CASE <<f, j>> # <<e, i>>
      <3>1. flow'[f][j] = flow[f][j] /\ dlv'[f][j] = dlv[f][j]
        BY <1>6, <1>7, <2>3
      <3>2. Settled(f, j)' <=> Settled(f, j)
        BY <1>2, <3>1 DEF Settled, Busy, EdgesLeft
      <3>3. Current(f, j)' <=> Current(f, j)
        BY <3>1 DEF Current
      <3>4. Current(f, j) => ~(f = e /\ dlv[f][j].req = r) /\ dlv[f][j].req \in Req
        BY <1>0, <1>11, CurrentAction DEF Current
      <3>5. Current(f, j) => /\ (Fresh(f, j)' <=> Fresh(f, j))
                             /\ (IsOpen(f, dlv[f][j].req)' <=> IsOpen(f, dlv[f][j].req))
        BY <1>0, <1>1, <1>2, <1>5, <3>1, <3>4 DEF Fresh, IsOpen, Sending1
      <3>6. QED
        BY <1>1, <2>1, <3>1, <3>2, <3>3, <3>5 DEF Owned, InStep
    <2>4. QED
      BY <2>2, <2>3
  <1>13. ASSUME NEW f \in Exec PROVE Numbered(f)'
    <2>1. Numbered(f)
      BY <1>0
    <2>2. CASE f # e
      <3>1. \A j \in Flow : flow'[f][j] = flow[f][j]
        BY <1>6, <2>2
      <3>2. nreq'[f] = nreq[f] /\ \A q \in Req : jdel'[f][q] = jdel[f][q]
        BY <1>0, <1>1, <1>5, <2>2 DEF ArenaType
      <3>3. UNCHANGED <<used, sends, jlast>>
        BY <1>1, <1>5
      <3> HIDE DEF r
      <3>4. QED
        BY <2>1, <3>1, <3>2, <3>3 DEF Numbered
    <2>3. CASE f = e
      <3>1. nreq'[e] = r + 1
        BY <1>0, <1>1 DEF ArenaType
      <3>2. \A j \in Flow : flow'[e][j].req = IF j = i THEN r ELSE flow[e][j].req
        BY <1>6
      <3>3. \A j \in Flow : flow'[e][j].req < nreq'[e]
        BY <1>11, <3>1, <3>2
      <3>4. \A j, k \in Flow : flow'[e][j].req # 0 /\ flow'[e][j].req = flow'[e][k].req => j = k
        BY <1>11, <2>1, <2>3, <3>2 DEF Numbered
      <3>5. \A q \in Req : q >= nreq'[e] => jdel'[e][q] = "none" /\ sends'[e][q] = 0
        BY <1>1, <1>5, <1>11, <3>1
      <3>6. QED
        BY <1>0, <1>1, <2>3, <3>3, <3>4, <3>5 DEF Numbered
    <2>4. QED
      BY <2>2, <2>3
  <1>14. Accepting' /\ Served1'
    BY <1>0, <1>1, <1>2 DEF Accepting, Served1
  <1>15. Working'
    BY <1>12, <1>13, <1>14 DEF Working
  <1>16. QED
    BY <1>5, <1>8, <1>9, <1>10, <1>15 DEF IInv

\* send_group_invocation: an entry of the round that is prepared owns its Action,
\* so its delivery was never sent.
LEMMA KeptSend == ASSUME IInv, NEW e \in Exec, NEW i \in Flow, Send(e, i) PROVE IInv'
  <1> DEFINE a == ActionAt(e, i)
             r == dlv[e][i].req
  <1>0. /\ JournalTypeOK /\ ArenaType /\ LoopType /\ WorldType /\ Control /\ Flights /\ Served1
        /\ pc = "round" /\ todo = <<>> /\ <<e, i>> \in round /\ flow[e][i].state = "PREPARED"
        /\ e \in used /\ dlv[e][i].owns /\ Owned(e, i) /\ InStep(e, i)
    BY Parts DEF Send, Sending, First, Control, Served1
  <1>1. /\ inbox' = [inbox EXCEPT ![a] = @ \cup {<<e, r>>}]
        /\ sends' = [sends EXCEPT ![e][r] = @ + 1]
        /\ pc' = "sent" /\ cur' = <<e, i>> /\ round' = round \ {<<e, i>>}
        /\ UNCHANGED <<journalVars, runVars, dlv, used, route, verdict, after, todo, hups>>
        /\ UNCHANGED <<results, fd, late, answers, ran, told>>
    BY DEF Send
  <1>2. UNCHANGED <<jok, jtail, jlast, jphase, jdel, jhi, jagg, flow, nreq, pending, complete, each>>
    BY <1>1 DEF journalVars, runVars
  <1>3. Current(e, i) /\ jdel[e][r] = "prepared" /\ sends[e][r] = 0
    BY <1>0 DEF Owned, Fresh, Sending1
  <1>4. a \in Action /\ r \in Req
    BY <1>0, <1>3, CurrentAction
  <1> HIDE DEF a, r
  <1>5. /\ \A f \in Exec, q \in Req : sends'[f][q] = IF f = e /\ q = r THEN 1 ELSE sends[f][q]
        /\ sends' \in [Exec -> [Req -> {0, 1}]]
    <2>1. sends' = [sends EXCEPT ![e] = [sends[e] EXCEPT ![r] = 1]]
      BY <1>1, <1>3, <1>4 DEF WorldType
    <2>2. QED
      BY <1>0, <1>4, <2>1 DEF WorldType
  <1>6. /\ inbox' \in [Action -> SUBSET Invocation]
        /\ \A b \in Action : inbox'[b] = IF b = a THEN inbox[b] \cup {<<e, r>>} ELSE inbox[b]
    <2>1. <<e, r>> \in Invocation
      BY <1>4 DEF Invocation
    <2>2. QED
      BY <1>0, <1>1, <1>4, <2>1 DEF WorldType
  <1>7. JournalTypeOK' /\ ArenaType' /\ WorldType'
    BY <1>0, <1>1, <1>2, <1>5, <1>6 DEF JournalTypeOK, ArenaType, WorldType
  <1>8. LoopType'
    BY <1>0, <1>1 DEF LoopType
  <1>9. Control'
    BY <1>0, <1>1, <1>2 DEF Control
  <1>10. Flights'
    <2>1. Flight(e, r) /\ ~InFlight(<<e, r>>) /\ ~ran[e][r]
      BY <1>0, <1>3, <1>4 DEF Flights, Flight
    <2>2. ASSUME NEW f \in Exec, NEW q \in Req PROVE Flight(f, q)'
      <3>1. Flight(f, q)
        BY <1>0 DEF Flights
      <3>2. CASE f = e /\ q = r
        <4>1. \A b \in Action : <<f, q>> \in inbox'[b] => b = a
          BY <1>6, <2>1, <3>2 DEF InFlight
        <4>2. <<f, q>> \notin late'
          BY <1>1, <2>1, <3>2 DEF InFlight
        <4>3. QED
          BY <1>1, <1>2, <1>3, <1>5, <2>1, <3>2, <4>1, <4>2 DEF Flight
      <3>3. CASE ~(f = e /\ q = r)
        <4>1. \A b \in Action : <<f, q>> \in inbox'[b] <=> <<f, q>> \in inbox[b]
          BY <1>6, <3>3
        <4>2. InFlight(<<f, q>>)' <=> InFlight(<<f, q>>)
          BY <1>1, <4>1 DEF InFlight
        <4>3. sends'[f][q] = sends[f][q]
          BY <1>5, <3>3
        <4>4. QED
          BY <1>1, <1>2, <3>1, <4>1, <4>2, <4>3 DEF Flight
      <3>4. QED
        BY <3>2, <3>3
    <2>3. QED
      BY <1>0, <1>1, <2>2 DEF Flights
  <1>11. /\ \A f \in Exec, j \in Flow : <<f, j>> # <<e, i>> => Owned(f, j)' /\ InStep(f, j)'
         /\ \A f \in Exec : Numbered(f)'
    BY <1>0, <1>1, <1>2, <1>3, <1>5, OthersKept DEF r, Sending1
  <1>12. Owned(e, i)' /\ InStep(e, i)'
    <2>1. Current(e, i)' /\ Fresh(e, i)'
      BY <1>1, <1>2, <1>3 DEF Current, Fresh, Sending1, r
    <2>2. Settled(e, i)' => Settled(e, i)
      BY <1>0, <1>2, NothingBusy DEF Settled
    <2>3. QED
      BY <1>0, <1>1, <1>2, <2>1, <2>2 DEF Owned, InStep, IsOpen
  <1>13. Accepting' /\ Served1'
    BY <1>0, <1>1, <1>2 DEF Accepting, Served1
  <1>14. Working'
    BY <1>11, <1>12, <1>13 DEF Working
  <1>15. QED
    BY <1>7, <1>8, <1>9, <1>10, <1>14 DEF IInv

\* DeliverySent and hermas_group_mark_sent
LEMMA KeptMarkSent == ASSUME IInv, MarkSent PROVE IInv'
  <1>01. pc = "sent" /\ cur \in used \X Flow /\ used \subseteq Exec
    BY Parts DEF MarkSent, Control, ArenaType
  <1>02. PICK e \in Exec, i \in Flow : cur = <<e, i>> /\ e \in used
    BY <1>01
  <1>03. cur[1] = e /\ cur[2] = i
    BY <1>02
  <1> DEFINE r == dlv[e][i].req
  <1>0. /\ JournalTypeOK /\ ArenaType /\ LoopType /\ WorldType /\ Control /\ Flights /\ Served1
        /\ pc = "sent" /\ todo = <<>> /\ e \in Exec /\ i \in Flow /\ e \in used /\ cur = <<e, i>>
        /\ dlv[e][i].owns /\ flow[e][i].state = "PREPARED" /\ cur \notin round
        /\ Owned(e, i) /\ InStep(e, i)
    BY <1>01, <1>02, <1>03, Parts DEF Control, Served1
  <1>1. /\ AppendSent(e, r)
        /\ UNCHANGED <<nreq, pending, complete, each, dlv, used, route, cur, verdict, after>>
        /\ UNCHANGED <<todo, hups, results, appVars, sends, told>>
    BY <1>03 DEF MarkSent
  <1>2. UNCHANGED <<fd, inbox, late, answers, ran>>
    BY <1>1 DEF appVars
  <1>3. Current(e, i)
    BY <1>0 DEF Owned
  <1>4. r \in Req /\ "sent" \in Delivery
    BY <1>0, <1>3, CurrentAction DEF Delivery
  <1>5. /\ JournalTypeOK' /\ UNCHANGED jlast
        /\ \A f \in Exec, q \in Req : jdel'[f][q] = IF f = e /\ q = r THEN "sent" ELSE jdel[f][q]
    BY <1>0, <1>1, <1>4, SentEffect
  <1>6. Flights'
    BY <1>0, <1>1, <1>2, <1>4, <1>5, FlightsKept
  <1>7. WorldType'
    BY <1>0, <1>1, <1>2 DEF WorldType
  <1>8. CASE ~flow[e][i].active
    <2>1. pc' = "ended" /\ UNCHANGED <<flow, round>>
      BY <1>03, <1>8 DEF MarkSent
    <2>2. ArenaType' /\ LoopType'
      BY <1>0, <1>1, <2>1 DEF ArenaType, LoopType
    <2>3. Control'
      BY <1>0, <1>1, <1>5, <2>1 DEF Control
    <2>4. QED
      BY <1>5, <1>6, <1>7, <2>1, <2>2, <2>3 DEF IInv
  <1>9. CASE flow[e][i].active
    <2>1. flow' = [flow EXCEPT ![e][i].state = "SENT"] /\ Rest(round)
      BY <1>03, <1>9 DEF MarkSent
    <2>2. UNCHANGED round /\ pc' \in {"idle", "round"} /\ (pc' = "idle" => round' = {})
      BY <2>1, RestOfRound
    <2>3. /\ flow' \in [Exec -> [Flow -> FlowRecord]]
          /\ \A f \in Exec, j \in Flow : <<f, j>> # <<e, i>> => flow'[f][j] = flow[f][j]
          /\ flow'[e][i].req = flow[e][i].req /\ flow'[e][i].state = "SENT"
          /\ flow'[e][i].node = flow[e][i].node /\ flow'[e][i].active
      <3> DEFINE v == [flow[e][i] EXCEPT !.state = "SENT"]
      <3>1. flow[e][i] \in FlowRecord
        BY <1>0 DEF ArenaType
      <3>2. v \in FlowRecord /\ v.req = flow[e][i].req /\ v.state = "SENT"
            /\ v.node = flow[e][i].node /\ v.active = flow[e][i].active
        BY <3>1 DEF FlowRecord, FlowState
      <3>3. flow' = [flow EXCEPT ![e][i] = v]
        BY <2>1
      <3> HIDE DEF v
      <3>4. QED
        BY <1>0, <1>9, <3>2, <3>3 DEF ArenaType
    <2>4. ArenaType' /\ LoopType'
      BY <1>0, <1>1, <2>2, <2>3 DEF ArenaType, LoopType
    <2>5. Control'
      BY <1>0, <1>1, <1>5, <2>2 DEF Control
    <2>6. \A f \in Exec, j \in Flow : <<f, j>> # <<e, i>> => ~Sending1(f, j)
      BY <1>0 DEF Sending1
    <2>7. /\ \A f \in Exec, j \in Flow : <<f, j>> # <<e, i>> => Owned(f, j)' /\ InStep(f, j)'
          /\ \A f \in Exec : Numbered(f)'
      BY <1>0, <1>1, <1>3, <1>5, <2>3, <2>6, OthersKept
    <2>8. Owned(e, i)' /\ InStep(e, i)'
      <3>1. Settled(e, i)
        BY <1>0, <1>9, NothingBusy
      <3>2. Kind[flow[e][i].node] = "action"
        BY <1>0, <3>1 DEF InStep
      <3>3. Current(e, i)' /\ IsOpen(e, r)'
        BY <1>1, <1>3, <1>4, <1>5, <1>0, <2>3 DEF Current, IsOpen
      <3>4. QED
        BY <1>0, <1>1, <2>3, <3>2, <3>3 DEF Owned, InStep
    <2>9. Accepting'
      BY <2>2 DEF Accepting
    <2>10. Served1'
      <3>1. ASSUME NEW x \in round', flow'[x[1]][x[2]].state = "PREPARED"
            PROVE  dlv'[x[1]][x[2]].owns
        <4>1. x \in round /\ x[1] \in Exec /\ x[2] \in Flow /\ <<x[1], x[2]>> # <<e, i>>
          BY <1>0, <2>2 DEF LoopType
        <4>2. flow'[x[1]][x[2]] = flow[x[1]][x[2]]
          BY <2>3, <4>1
        <4>3. QED
          BY <1>0, <1>1, <3>1, <4>1, <4>2 DEF Served1
      <3>2. QED
        BY <2>2, <3>1 DEF Served1
    <2>11. Working'
      BY <2>7, <2>8, <2>9, <2>10 DEF Working
    <2>12. QED
      BY <1>5, <1>6, <1>7, <2>4, <2>5, <2>11 DEF IInv
  <1>10. QED
    BY <1>8, <1>9

\* The closing fact of an accepted result: the app has run the invocation, and
\* no edge has left its flow waiting for the answer.
LEMMA KeptClose == ASSUME IInv, Close PROVE IInv'
  <1>01. pc = "closing" /\ cur \in used \X Flow /\ used \subseteq Exec
    BY Parts DEF Close, Control, ArenaType
  <1>02. PICK e \in Exec, i \in Flow : cur = <<e, i>> /\ e \in used
    BY <1>01
  <1>03. cur[1] = e /\ cur[2] = i
    BY <1>02
  <1> DEFINE r == dlv[e][i].req
  <1>0. /\ JournalTypeOK /\ ArenaType /\ LoopType /\ WorldType /\ Control /\ Flights /\ Served1
        /\ pc = "closing" /\ todo = <<>> /\ e \in Exec /\ i \in Flow /\ e \in used
        /\ cur = <<e, i>> /\ dlv[e][i].owns /\ ran[e][r] /\ verdict \in {"Success", "AppError"}
        /\ flow[e][i].state # "PREPARED" /\ ~(flow[e][i].active /\ flow[e][i].state = "SENT")
        /\ Owned(e, i) /\ InStep(e, i)
    <2>1. todo = <<>>
      BY <1>01, Parts DEF Control
    <2>4. /\ dlv[e][i].owns /\ ran[e][r] /\ verdict # "none" /\ flow[e][i].state # "PREPARED"
          /\ ~(Settled(e, i) /\ flow[e][i].state = "SENT")
      BY <1>01, <1>03, Parts DEF Accepting
    <2>5. verdict \in {"Success", "AppError"}
      BY <1>01, <2>4, Parts DEF LoopType
    <2>6. QED
      BY <1>01, <1>02, <2>1, <2>4, <2>5, Parts, NothingBusy
  <1>1. /\ AppendClosing(e, r, verdict) /\ dlv' = [dlv EXCEPT ![e][i].owns = FALSE]
        /\ pc' = "finish"
        /\ UNCHANGED <<runVars, used, route, cur, verdict, after, todo, round, hups, results>>
        /\ UNCHANGED <<appVars, sends, told>>
    BY <1>03 DEF Close
  <1>2. UNCHANGED <<flow, nreq, pending, complete, each, fd, inbox, late, answers, ran>>
    BY <1>1 DEF runVars, appVars
  <1>3. Current(e, i)
    BY <1>0 DEF Owned
  <1>4. r \in Req /\ verdict \in Outcome /\ verdict \in Delivery
    BY <1>0, <1>3, CurrentAction DEF Outcome, Delivery
  <1>5. /\ JournalTypeOK' /\ UNCHANGED jlast
        /\ \A f \in Exec, q \in Req : jdel'[f][q] = IF f = e /\ q = r THEN verdict ELSE jdel[f][q]
    BY <1>0, <1>1, <1>4, ClosingEffect
  <1>6. ~InFlight(<<e, r>>)
    BY <1>0, <1>4 DEF Flights, Flight
  <1>7. Flights'
    BY <1>0, <1>1, <1>2, <1>4, <1>5, <1>6, FlightsKept
  <1>8. /\ dlv' \in [Exec -> [Flow -> DlvRecord]]
        /\ \A f \in Exec, j \in Flow : <<f, j>> # <<e, i>> => dlv'[f][j] = dlv[f][j]
        /\ dlv'[e][i].owns = FALSE
    BY <1>0, <1>1, OwnsEffect DEF ArenaType
  <1>9. WorldType' /\ ArenaType' /\ LoopType'
    BY <1>0, <1>1, <1>2, <1>8 DEF WorldType, ArenaType, LoopType
  <1>10. Control'
    BY <1>0, <1>1, <1>2, <1>5 DEF Control
  <1>11. /\ \A f \in Exec, j \in Flow : <<f, j>> # <<e, i>> => Owned(f, j)' /\ InStep(f, j)'
         /\ \A f \in Exec : Numbered(f)'
    BY <1>0, <1>1, <1>2, <1>3, <1>5, <1>8, OthersKept DEF Sending1
  <1>12. Owned(e, i)' /\ InStep(e, i)'
    <2>1. Settled(e, i)' => Settled(e, i) /\ flow[e][i].active
      BY <1>0, <1>2, NothingBusy DEF Settled
    <2>2. QED
      BY <1>0, <1>2, <1>8, <2>1 DEF Owned, InStep
  <1>13. Accepting'
    BY <1>1 DEF Accepting
  <1>14. Served1'
    <2>1. ASSUME NEW x \in round', flow'[x[1]][x[2]].state = "PREPARED"
          PROVE  dlv'[x[1]][x[2]].owns
      <3>1. x \in round /\ x[1] \in Exec /\ x[2] \in Flow
        BY <1>0, <1>1 DEF LoopType
      <3>2. <<x[1], x[2]>> # <<e, i>>
        BY <1>0, <1>2, <2>1
      <3>3. QED
        BY <1>0, <1>2, <1>8, <2>1, <3>1, <3>2 DEF Served1
    <2>2. QED
      BY <1>1, <2>1 DEF Served1
  <1>15. Working'
    BY <1>11, <1>12, <1>13, <1>14 DEF Working
  <1>16. QED
    BY <1>5, <1>7, <1>9, <1>10, <1>15 DEF IInv

\* receive_group_result accepts a frame: the flow it is for owns its Action, and
\* the app has run the invocation.
LEMMA KeptAccept == ASSUME IInv, NEW e \in Exec, NEW i \in Flow, Accept(e, i) PROVE IInv'
  <1> DEFINE a == ActionAt(e, i)
             f0 == Head(answers[a])
  <1>0. /\ JournalTypeOK /\ ArenaType /\ LoopType /\ WorldType /\ Control /\ Flights /\ Served1
        /\ pc = "round" /\ todo = <<>> /\ e \in used
        /\ \A f \in Exec, j \in Flow : Owned(f, j) /\ InStep(f, j)
        /\ \A f \in Exec : Numbered(f)
    BY Parts DEF Accept, Receiving, First, Control
  <1>1. /\ answers[a] # <<>> /\ f0.e = e /\ f0.kind # "bad"
        /\ answers' = [answers EXCEPT ![a] = Tail(@)]
        /\ pc' = "enter" /\ after' = "closing" /\ verdict' = f0.kind
        /\ round' = round \ {<<e, i>>}
        /\ UNCHANGED <<journalVars, runVars, dlv, used, route, hups, results>>
        /\ UNCHANGED <<fd, inbox, late, ran, sends, told>>
    BY DEF Accept
  <1>2. PICK j \in Matching(e, a, f0) :
          /\ cur' = <<e, j>>
          /\ todo' = <<Enter(j, ResultEdge(flow[e][j].node, f0.kind), f0.kind)>>
    BY DEF Accept
  <1>3. /\ j \in Flow /\ flow[e][j].active /\ flow[e][j].state = "SENT" /\ dlv[e][j].owns
        /\ ActionAt(e, j) = a /\ flow[e][j].req = f0.r
    BY <1>2 DEF Matching
  <1>4. UNCHANGED <<jok, jtail, jlast, jphase, jdel, jhi, jagg, flow, nreq, pending, complete, each>>
    BY <1>1 DEF journalVars, runVars
  <1>5. Current(e, j) /\ a \in Action /\ Kind[flow[e][j].node] = "action" /\ flow[e][j].node \in Node
    <2>1. Owned(e, j) /\ InStep(e, j) /\ Settled(e, j)
      BY <1>0, <1>3, NothingBusy
    <2>2. QED
      BY <1>0, <1>3, <2>1, CurrentAction DEF Owned, InStep, ArenaType, FlowRecord
  <1> HIDE DEF a
  <1>6. /\ answers[a] \in Seq(Frame) /\ f0 \in Frame /\ f0 = answers[a][1] /\ 1 \in DOMAIN answers[a]
        /\ Tail(answers[a]) \in Seq(Frame)
        /\ \A k \in DOMAIN Tail(answers[a]) :
             k + 1 \in DOMAIN answers[a] /\ Tail(answers[a])[k] = answers[a][k + 1]
    BY <1>0, <1>1, <1>5 DEF WorldType
  <1>7. ran[e][dlv[e][j].req]
    <2>1. ran[f0.e][f0.r]
      BY <1>0, <1>5, <1>6 DEF Flights
    <2>2. QED
      BY <1>1, <1>3, <1>5, <2>1 DEF Current
  <1> DEFINE k0 == f0.kind
             x == Enter(j, ResultEdge(flow[e][j].node, k0), k0)
  <1>8. k0 \in {"Success", "AppError"} /\ k0 \in Outcome \cup {"none"}
    BY <1>1, <1>6 DEF Frame, Answer, Outcome
  <1>9. todo' = <<x>> /\ verdict' = k0
    BY <1>1, <1>2
  <1> HIDE DEF f0, k0
  <1>10. x \in ChainStep /\ x.op = "edge" /\ x.i = j
    <2>1. ResultEdge(flow[e][j].node, k0) \in Target
      BY <1>5, GroupAssumption DEF ResultEdge
    <2>2. QED
      BY <1>3, <1>8, <2>1, EnterIsStep
  <1> HIDE DEF x
  <1>11. todo' \in Seq(ChainStep) /\ todo' # <<>> /\ j \in Busy(e)'
    <2>1. 1 \in DOMAIN todo' /\ todo'[1].op = "edge" /\ todo'[1].i = j
      BY <1>9, <1>10
    <2>2. j \in Busy(e)'
      BY <1>2, <2>1 DEF Busy, EdgesLeft
    <2>3. QED
      BY <1>9, <1>10, <2>2
  <1>12. /\ answers' \in [Action -> Seq(Frame)]
         /\ \A b \in Action : answers'[b] = IF b = a THEN Tail(answers[a]) ELSE answers[b]
    BY <1>0, <1>1, <1>5, <1>6 DEF WorldType
  <1>13. JournalTypeOK' /\ ArenaType' /\ WorldType'
    BY <1>0, <1>1, <1>4, <1>12 DEF JournalTypeOK, ArenaType, WorldType
  <1>14. LoopType'
    BY <1>0, <1>1, <1>2, <1>3, <1>8, <1>9, <1>11 DEF LoopType
  <1>15. Control'
    BY <1>0, <1>1, <1>2, <1>3, <1>4, <1>11 DEF Control
  <1>16. Flights'
    <2>0. UNCHANGED <<jdel, sends, ran, inbox, late>>
      BY <1>1, <1>4
    <2>1. ASSUME NEW f \in Exec, NEW q \in Req PROVE Flight(f, q)'
      <3>1. Flight(f, q)
        BY <1>0 DEF Flights
      <3>2. QED
        BY <2>0, <3>1 DEF Flight, InFlight
    <2>2. ASSUME NEW b \in Action, NEW k \in DOMAIN answers'[b]
          PROVE  ran'[answers'[b][k].e][answers'[b][k].r]
      <3>1. CASE b # a
        BY <1>0, <1>1, <1>12, <2>2, <3>1 DEF Flights
      <3>2. CASE b = a
        <4>1. k + 1 \in DOMAIN answers[a] /\ answers'[b][k] = answers[a][k + 1]
          BY <1>6, <1>12, <2>2, <3>2
        <4>2. QED
          BY <1>0, <1>1, <1>5, <4>1 DEF Flights
      <3>3. QED
        BY <3>1, <3>2
    <2>3. QED
      BY <2>1, <2>2 DEF Flights
  <1>17. ASSUME NEW f \in Exec, NEW l \in Flow PROVE Owned(f, l)' /\ InStep(f, l)'
    <2>1. Owned(f, l) /\ InStep(f, l)
      BY <1>0
    <2>2. Settled(f, l)' => Settled(f, l)
      BY <1>0, <1>4, NothingBusy DEF Settled
    <2>3. (Current(f, l)' <=> Current(f, l)) /\ (Fresh(f, l)' <=> Fresh(f, l))
      BY <1>0, <1>1, <1>4 DEF Current, Fresh, Sending1
    <2>4. QED
      BY <1>1, <1>4, <2>1, <2>2, <2>3 DEF Owned, InStep, IsOpen
  <1>18. ASSUME NEW f \in Exec PROVE Numbered(f)'
    BY <1>0, <1>1, <1>4 DEF Numbered
  <1>19. Accepting'
    <2>1. cur'[1] = e /\ cur'[2] = j
      BY <1>2
    <2>2. ~Settled(e, j)'
      BY <1>11 DEF Settled
    <2>3. QED
      BY <1>1, <1>3, <1>4, <1>7, <1>8, <1>9, <2>1, <2>2 DEF Accepting
  <1>20. Served1'
    BY <1>0, <1>1, <1>4 DEF Served1
  <1>21. Working'
    BY <1>17, <1>18, <1>19, <1>20 DEF Working
  <1>22. QED
    BY <1>13, <1>14, <1>15, <1>16, <1>21 DEF IInv

\* finish_group_transition changes no delivery.
LEMMA KeptFinish == ASSUME IInv, Finish PROVE IInv'
  <1>0. /\ JournalTypeOK /\ ArenaType /\ LoopType /\ WorldType /\ Control /\ Flights /\ Served1
        /\ pc = "finish" /\ todo = <<>> /\ cur[1] \in Exec /\ Rest(round)
        /\ \A f \in Exec, j \in Flow : Owned(f, j) /\ InStep(f, j)
        /\ \A f \in Exec : Numbered(f)
    BY Parts DEF Finish, Control, ArenaType
  <1>1. /\ UNCHANGED <<runVars, dlv, used, route, cur, verdict, after, todo, hups>>
        /\ UNCHANGED <<appVars, sends, told>>
        /\ \/ /\ complete[cur[1]] /\ AppendFinished(cur[1], pending[cur[1]])
              /\ results' = [results EXCEPT ![cur[1]] = Stored(cur[1])]
           \/ UNCHANGED <<journalVars, results>>
    BY DEF Finish
  <1>2. UNCHANGED <<flow, nreq, pending, complete, each, fd, inbox, late, answers, ran>>
    BY <1>1 DEF runVars, appVars
  <1>3. UNCHANGED round /\ pc' \in {"idle", "round"} /\ (pc' = "idle" => round' = {})
    BY <1>0, RestOfRound
  <1>4. UNCHANGED <<jdel, jlast>>
    BY <1>1 DEF AppendFinished, journalVars
  <1>5. JournalTypeOK'
    <2>1. CASE UNCHANGED <<journalVars, results>>
      BY <1>0, <2>1 DEF JournalTypeOK, journalVars
    <2>2. CASE complete[cur[1]] /\ AppendFinished(cur[1], pending[cur[1]])
      <3>1. pending[cur[1]] \in Outcome
        BY <1>0, <2>2 DEF Control, ArenaType
      <3>2. jphase' \in [Exec -> Phase] /\ jok' \in BOOLEAN
        BY <1>0, <2>2, <3>1 DEF AppendFinished, JournalTypeOK, Phase, Sound
      <3>3. QED
        BY <1>0, <2>2, <3>2 DEF AppendFinished, JournalTypeOK
    <2>3. QED
      BY <1>1, <2>1, <2>2
  <1>6. WorldType'
    <2>1. Stored(cur[1]) \in {"none", "Success", "AppError"}
      BY <1>0 DEF Stored, WorldType
    <2>2. QED
      BY <1>0, <1>1, <1>2, <2>1 DEF WorldType
  <1>7. ArenaType' /\ LoopType'
    BY <1>0, <1>1, <1>2, <1>3 DEF ArenaType, LoopType
  <1>8. Control'
    BY <1>0, <1>1, <1>2, <1>3, <1>4 DEF Control
  <1>9. Flights'
    BY <1>0, <1>1, <1>2, <1>4 DEF Flights, Flight, InFlight
  <1>10. ASSUME NEW f \in Exec, NEW j \in Flow PROVE Owned(f, j)' /\ InStep(f, j)'
    <2>1. Owned(f, j) /\ InStep(f, j)
      BY <1>0
    <2>2. Settled(f, j)' <=> Settled(f, j)
      BY <1>1, <1>2 DEF Settled, Busy, EdgesLeft
    <2>3. (Current(f, j)' <=> Current(f, j)) /\ (Fresh(f, j)' <=> Fresh(f, j))
      BY <1>0, <1>1, <1>2, <1>3, <1>4 DEF Current, Fresh, Sending1
    <2>4. QED
      BY <1>1, <1>2, <1>4, <2>1, <2>2, <2>3 DEF Owned, InStep, IsOpen
  <1>11. ASSUME NEW f \in Exec PROVE Numbered(f)'
    BY <1>0, <1>1, <1>2, <1>4 DEF Numbered
  <1>12. Accepting' /\ Served1'
    BY <1>0, <1>1, <1>2, <1>3 DEF Accepting, Served1
  <1>13. Working'
    BY <1>10, <1>11, <1>12 DEF Working
  <1>14. QED
    BY <1>5, <1>6, <1>7, <1>8, <1>9, <1>13 DEF IInv

\* hermas_daemon_loop_release: the id of the execution is not used again.
LEMMA KeptReturn == ASSUME IInv, NEW e \in Exec, Return(e) PROVE IInv'
  <1>0. /\ JournalTypeOK /\ ArenaType /\ LoopType /\ WorldType /\ Control /\ Flights
        /\ pc = "idle" /\ todo = <<>> /\ round = {} /\ e \in used
        /\ \A f \in Exec, j \in Flow : Owned(f, j) /\ InStep(f, j)
        /\ \A f \in Exec : Numbered(f)
    BY Parts DEF Return, Control
  <1>1. /\ told' = [told EXCEPT ![e] = pending[e]] /\ used' = used \ {e}
        /\ flow' = [flow EXCEPT ![e] = [i \in Flow |-> NoFlow]]
        /\ dlv' = [dlv EXCEPT ![e] = [i \in Flow |-> NoDlv]]
        /\ nreq' = [nreq EXCEPT ![e] = 1]
        /\ pending' = [pending EXCEPT ![e] = "none"]
        /\ complete' = [complete EXCEPT ![e] = FALSE]
        /\ each' = [each EXCEPT ![e] = NoEach]
        /\ UNCHANGED <<journalVars, route, pcVars, round, hups, results, appVars, sends>>
    BY DEF Return
  <1>2. UNCHANGED <<jok, jtail, jlast, jphase, jdel, jhi, jagg, pc, cur, verdict, after, todo,
                    fd, inbox, late, answers, ran>>
    BY <1>1 DEF journalVars, pcVars, appVars
  <1>3. /\ flow' \in [Exec -> [Flow -> FlowRecord]]
        /\ \A f \in Exec, j \in Flow : flow'[f][j] = IF f = e THEN NoFlow ELSE flow[f][j]
    BY <1>0, <1>1, EmptyTyped DEF ArenaType
  <1>4. /\ dlv' \in [Exec -> [Flow -> DlvRecord]]
        /\ \A f \in Exec, j \in Flow : dlv'[f][j] = IF f = e THEN NoDlv ELSE dlv[f][j]
    BY <1>0, <1>1, EmptyTyped DEF ArenaType
  <1>5. ArenaType'
    <2>1. IsFiniteSet(used') /\ Cardinality(used') <= Cardinality(used)
      BY <1>0, <1>1, FS_Subset DEF ArenaType
    <2>2. Cardinality(used') <= MaxGroups
      BY <1>0, <2>1, FS_CardinalityType, GroupAssumption DEF ArenaType
    <2>3. 1 \in 1 .. MaxReqId + 1
      BY JournalAssumption
    <2>4. nreq' \in [Exec -> 1 .. MaxReqId + 1] /\ each' \in [Exec -> EachRecord]
      BY <1>0, <1>1, <2>3, EmptyTyped DEF ArenaType
    <2>5. QED
      BY <1>0, <1>1, <1>3, <1>4, <2>1, <2>2, <2>4 DEF ArenaType
  <1>6. JournalTypeOK' /\ LoopType' /\ WorldType'
    BY <1>0, <1>1, <1>2 DEF JournalTypeOK, LoopType, WorldType, ArenaType
  <1>7. Control'
    <2>1. \A f \in Exec : complete'[f] => pending'[f] # "none"
      BY <1>0, <1>1 DEF Control, ArenaType
    <2>2. QED
      BY <1>0, <1>1, <1>2, <2>1 DEF Control
  <1>8. Flights'
    BY <1>0, <1>1, <1>2 DEF Flights, Flight, InFlight
  <1>9. ASSUME NEW f \in Exec, NEW j \in Flow PROVE Owned(f, j)' /\ InStep(f, j)'
    <2>1. Owned(f, j) /\ InStep(f, j)
      BY <1>0
    <2>2. CASE f = e
      <3>1. ~dlv'[f][j].owns /\ ~flow'[f][j].active
        BY <1>3, <1>4, <2>2 DEF NoFlow, NoDlv
      <3>2. QED
        BY <3>1 DEF Owned, InStep, Settled
    <2>3. CASE f # e
      <3>1. flow'[f][j] = flow[f][j] /\ dlv'[f][j] = dlv[f][j]
        BY <1>3, <1>4, <2>3
      <3>2. Settled(f, j)' <=> Settled(f, j)
        BY <1>2, <3>1 DEF Settled, Busy, EdgesLeft
      <3>3. (Current(f, j)' <=> Current(f, j)) /\ (Fresh(f, j)' <=> Fresh(f, j))
        BY <1>1, <1>2, <3>1 DEF Current, Fresh, Sending1
      <3>4. QED
        BY <1>1, <1>2, <2>1, <2>3, <3>1, <3>2, <3>3 DEF Owned, InStep, IsOpen
    <2>4. QED
      BY <2>2, <2>3
  <1>10. ASSUME NEW f \in Exec PROVE Numbered(f)'
    <2>1. Numbered(f)
      BY <1>0
    <2>2. CASE f = e
      <3>1. \A j \in Flow : flow'[e][j].req = 0
        BY <1>3 DEF NoFlow
      <3>2. nreq'[e] = 1 /\ e \notin used' /\ ~(e > jlast')
        BY <1>0, <1>1, <1>2 DEF ArenaType, Control, JournalTypeOK, Exec
      <3>3. QED
        BY <2>2, <3>1, <3>2 DEF Numbered
    <2>3. CASE f # e
      <3>1. nreq'[f] = nreq[f] /\ (f \in used' <=> f \in used) /\ \A j \in Flow : flow'[f][j] = flow[f][j]
        BY <1>0, <1>1, <1>3, <2>3 DEF ArenaType
      <3>2. QED
        BY <1>1, <1>2, <2>1, <3>1 DEF Numbered
    <2>4. QED
      BY <2>2, <2>3
  <1>11. Accepting' /\ Served1'
    BY <1>0, <1>1, <1>2 DEF Accepting, Served1
  <1>12. Working'
    BY <1>9, <1>10, <1>11 DEF Working
  <1>13. QED
    BY <1>5, <1>6, <1>7, <1>8, <1>12 DEF IInv

\* The apps change nothing that the loop keeps.
LEMMA WorldKept ==
  ASSUME IInv, WorldType', Flights', \A e \in Exec, r \in Req : ran[e][r] => ran'[e][r],
         UNCHANGED <<journalVars, runVars, dlv, used, pcVars, round, hups, results, sends, told>>
  PROVE  IInv'
  <1>1. UNCHANGED <<jok, jtail, jlast, jphase, jdel, jhi, jagg, flow, nreq, pending, complete, each,
                    pc, cur, verdict, after, todo>>
    BY DEF journalVars, runVars, pcVars
  <1>2. JournalTypeOK' /\ ArenaType' /\ LoopType'
    BY <1>1 DEF IInv, JournalTypeOK, ArenaType, LoopType
  <1>3. Control'
    BY <1>1 DEF IInv, Control
  <1>4. \A e, i : /\ Busy(e)' = Busy(e) /\ (Settled(e, i)' <=> Settled(e, i))
                  /\ (Current(e, i)' <=> Current(e, i)) /\ (Fresh(e, i)' <=> Fresh(e, i))
    BY <1>1 DEF Busy, EdgesLeft, Settled, Current, Fresh, Sending1
  <1>5. ASSUME Working, pc # "ended" PROVE Working'
    <2>1. ASSUME NEW e \in Exec, NEW i \in Flow PROVE Owned(e, i)' /\ InStep(e, i)'
      BY <1>1, <1>4, <1>5, <2>1 DEF Working, Owned, InStep, IsOpen
    <2>2. ASSUME NEW e \in Exec PROVE Numbered(e)'
      BY <1>1, <1>5, <2>2 DEF Working, Numbered
    <2>3. Accepting'
      <3>1. CASE pc = "closing" \/ (pc = "enter" /\ after = "closing")
        <4>1. cur[1] \in Exec /\ cur[2] \in Flow
          BY <3>1 DEF IInv, Control, ArenaType
        <4>2. dlv[cur[1]][cur[2]].req \in Req
          BY <4>1 DEF IInv, ArenaType, DlvRecord
        <4>3. QED
          BY <1>1, <1>4, <1>5, <3>1, <4>1, <4>2 DEF Working, Accepting
      <3>2. CASE ~(pc = "closing" \/ (pc = "enter" /\ after = "closing"))
        BY <1>1, <3>2 DEF Accepting
      <3>3. QED
        BY <3>1, <3>2
    <2>4. Served1'
      BY <1>1, <1>5 DEF Working, Served1
    <2>5. QED
      BY <2>1, <2>2, <2>3, <2>4 DEF Working
  <1>6. QED
    BY <1>1, <1>2, <1>3, <1>5 DEF IInv

\* flush_acknowledgements
LEMMA KeptRegister == ASSUME IInv, NEW a \in Action, Register(a) PROVE IInv'
  <1>0. WorldType /\ Flights
    BY DEF IInv
  <1>1. /\ fd' = [fd EXCEPT ![a] = "open"]
        /\ UNCHANGED <<journalVars, runVars, dlv, used, route, pcVars, round, hups, results>>
        /\ UNCHANGED <<inbox, late, answers, ran, sends, told>>
    BY DEF Register
  <1>2. WorldType'
    BY <1>0, <1>1 DEF WorldType
  <1>3. UNCHANGED jdel
    BY <1>1 DEF journalVars
  <1>4. Flights'
    BY <1>0, <1>1, <1>3 DEF Flights, Flight, InFlight
  <1>5. QED
    BY <1>1, <1>2, <1>4, WorldKept

\* An invocation that is run leaves the place it was in.
LEMMA RunKeeps ==
  ASSUME WorldType, \A e \in Exec, r \in Req : Flight(e, r),
         NEW d \in Invocation, InFlight(d), UNCHANGED <<jdel, sends>>,
         ran' = [ran EXCEPT ![d[1]][d[2]] = TRUE],
         \/ \E a \in Action : /\ d \in inbox[a] /\ UNCHANGED late
                              /\ inbox' = [inbox EXCEPT ![a] = @ \ {d}]
         \/ d \in late /\ late' = late \ {d} /\ UNCHANGED inbox
  PROVE  /\ ran' \in [Exec -> [Req -> BOOLEAN]] /\ late' \subseteq Invocation
         /\ inbox' \in [Action -> SUBSET Invocation]
         /\ \A e \in Exec, r \in Req :
              Flight(e, r)' /\ (ran'[e][r] <=> ran[e][r] \/ d = <<e, r>>)
  <1>1. d[1] \in Exec /\ d[2] \in Req /\ d = <<d[1], d[2]>>
    BY DEF Invocation
  <1>2. /\ ran' \in [Exec -> [Req -> BOOLEAN]]
        /\ \A e \in Exec, r \in Req : ran'[e][r] = IF e = d[1] /\ r = d[2] THEN TRUE ELSE ran[e][r]
    BY <1>1 DEF WorldType
  <1>3. /\ late' \subseteq late /\ inbox' \in [Action -> SUBSET Invocation]
        /\ \A b \in Action : inbox'[b] \subseteq inbox[b]
    BY DEF WorldType
  <1>4. ~InFlight(d)'
    <2>1. Flight(d[1], d[2])
      BY <1>1
    <2>2. \A b \in Action : d \in inbox[b] =>
            d \notin late /\ \A c \in Action : d \in inbox[c] => b = c
      BY <1>1, <2>1 DEF Flight
    <2>3. d \notin late' /\ \A b \in Action : d \notin inbox'[b]
      BY <2>2 DEF WorldType
    <2>4. QED
      BY <2>3 DEF InFlight
  <1>5. ASSUME NEW e \in Exec, NEW r \in Req PROVE Flight(e, r)'
    <2>1. Flight(e, r)
      OBVIOUS
    <2>2. InFlight(<<e, r>>)' => InFlight(<<e, r>>) /\ ~(e = d[1] /\ r = d[2])
      BY <1>1, <1>3, <1>4 DEF InFlight
    <2>3. Flight(d[1], d[2])
      BY <1>1
    <2>4. ran'[e][r] => sends[e][r] = 1
      BY <1>1, <1>2, <2>1, <2>3 DEF Flight
    <2>5. \A b \in Action : <<e, r>> \in inbox'[b] =>
            /\ <<e, r>> \notin late'
            /\ \A c \in Action : <<e, r>> \in inbox'[c] => b = c
      BY <1>3, <2>1 DEF Flight
    <2>6. QED
      BY <1>2, <2>1, <2>2, <2>4, <2>5 DEF Flight
  <1>6. QED
    BY <1>1, <1>2, <1>3, <1>5 DEF WorldType

\* The app runs an invocation and answers it.
LEMMA KeptAppRun == ASSUME IInv, NEW a \in Action, AppRun(a) PROVE IInv'
  <1>0. WorldType /\ Flights
    BY DEF IInv
  <1>1. /\ UNCHANGED <<journalVars, runVars, dlv, used, route, pcVars, round, hups, results>>
        /\ UNCHANGED <<fd, late, sends, told>>
    BY DEF AppRun
  <1>2. PICK d \in inbox[a], k \in Answer :
          /\ ran' = [ran EXCEPT ![d[1]][d[2]] = TRUE]
          /\ inbox' = [inbox EXCEPT ![a] = @ \ {d}]
          /\ answers' = [answers EXCEPT ![a] = Append(@, [e |-> d[1], r |-> d[2], kind |-> k])]
    BY DEF AppRun
  <1>3. d \in Invocation /\ InFlight(d)
    BY <1>0, <1>2 DEF WorldType, InFlight
  <1>4. UNCHANGED jdel
    BY <1>1 DEF journalVars
  <1>5. /\ ran' \in [Exec -> [Req -> BOOLEAN]] /\ late' \subseteq Invocation
        /\ inbox' \in [Action -> SUBSET Invocation]
        /\ \A e \in Exec, r \in Req : Flight(e, r)' /\ (ran'[e][r] <=> ran[e][r] \/ d = <<e, r>>)
    BY <1>0, <1>1, <1>2, <1>3, <1>4, RunKeeps DEF Flights
  <1> DEFINE x == [e |-> d[1], r |-> d[2], kind |-> k]
  <1>6. x \in Frame /\ x.e = d[1] /\ x.r = d[2] /\ d[1] \in Exec /\ d[2] \in Req /\ d = <<d[1], d[2]>>
    BY <1>3 DEF Frame, Invocation
  <1> HIDE DEF x
  <1>7. /\ answers' \in [Action -> Seq(Frame)]
        /\ \A b \in Action : answers'[b] = IF b = a THEN Append(answers[a], x) ELSE answers[b]
    <2>1. Append(answers[a], x) \in Seq(Frame)
      BY <1>0, <1>6 DEF WorldType
    <2>2. answers' = [answers EXCEPT ![a] = Append(answers[a], x)]
      BY <1>2 DEF x
    <2>3. QED
      BY <1>0, <2>1, <2>2 DEF WorldType
  <1>8. WorldType'
    BY <1>0, <1>1, <1>5, <1>7 DEF WorldType
  <1>9. ASSUME NEW b \in Action, NEW m \in DOMAIN answers'[b]
        PROVE  ran'[answers'[b][m].e][answers'[b][m].r]
    <2>0. answers[b] \in Seq(Frame) /\ answers'[b] \in Seq(Frame)
      BY <1>0, <1>7 DEF WorldType
    <2>1. CASE m \in DOMAIN answers[b]
      <3>0. m \in 1 .. Len(answers[b]) /\ answers[b][m] \in Frame
        BY <2>0, <2>1
      <3>1. answers'[b][m] = answers[b][m] /\ answers[b][m] \in Frame
        <4>1. Append(answers[b], x)[m] = answers[b][m]
          BY <1>6, <2>0, <3>0
        <4>2. QED
          BY <1>7, <3>0, <4>1
      <3>2. ran[answers[b][m].e][answers[b][m].r]
        BY <1>0, <2>1 DEF Flights
      <3>3. QED
        BY <1>5, <3>1, <3>2 DEF Frame
    <2>2. CASE m \notin DOMAIN answers[b]
      <3>1. answers'[b][m] = x
        BY <1>7, <1>9, <2>0, <2>2
      <3>2. QED
        BY <1>5, <1>6, <3>1
    <2>3. QED
      BY <2>1, <2>2
  <1>10. Flights'
    BY <1>5, <1>9 DEF Flights
  <1>11. QED
    BY <1>1, <1>5, <1>8, <1>10, WorldKept

\* The app runs an invocation of a closed connection.
LEMMA KeptAppRunLate == ASSUME IInv, NEW d \in Exec \X Req, AppRunLate(d) PROVE IInv'
  <1>0. WorldType /\ Flights
    BY DEF IInv
  <1>1. /\ UNCHANGED <<journalVars, runVars, dlv, used, route, pcVars, round, hups, results>>
        /\ UNCHANGED <<fd, inbox, answers, sends, told>>
        /\ d \in late /\ late' = late \ {d} /\ ran' = [ran EXCEPT ![d[1]][d[2]] = TRUE]
    BY DEF AppRunLate
  <1>2. UNCHANGED jdel /\ InFlight(d) /\ d \in Invocation
    BY <1>1 DEF journalVars, InFlight, Invocation
  <1>3. /\ ran' \in [Exec -> [Req -> BOOLEAN]] /\ late' \subseteq Invocation
        /\ inbox' \in [Action -> SUBSET Invocation]
        /\ \A e \in Exec, r \in Req : Flight(e, r)' /\ (ran'[e][r] <=> ran[e][r] \/ d = <<e, r>>)
    BY <1>0, <1>1, <1>2, RunKeeps DEF Flights
  <1>4. WorldType'
    BY <1>0, <1>1, <1>3 DEF WorldType
  <1>5. ASSUME NEW b \in Action, NEW m \in DOMAIN answers'[b]
        PROVE  ran'[answers'[b][m].e][answers'[b][m].r]
    <2>1. answers'[b] = answers[b] /\ answers[b][m] \in Frame /\ ran[answers[b][m].e][answers[b][m].r]
      BY <1>0, <1>1, <1>5 DEF Flights, WorldType
    <2>2. QED
      BY <1>3, <2>1 DEF Frame
  <1>6. Flights'
    BY <1>3, <1>5 DEF Flights
  <1>7. QED
    BY <1>1, <1>3, <1>4, <1>6, WorldKept

\* The app closes its end of the connection.
LEMMA KeptAppDies == ASSUME IInv, NEW a \in Action, AppDies(a) PROVE IInv'
  <1>0. WorldType /\ Flights
    BY DEF IInv
  <1>1. /\ fd' = [fd EXCEPT ![a] = "hup"] /\ inbox' = [inbox EXCEPT ![a] = {}]
        /\ late' = late \cup inbox[a]
        /\ UNCHANGED <<journalVars, runVars, dlv, used, route, pcVars, round, hups, results>>
        /\ UNCHANGED <<answers, ran, sends, told>>
    BY DEF AppDies
  <1>2. UNCHANGED jdel
    BY <1>1 DEF journalVars
  <1>3. /\ \A b \in Action : inbox'[b] = IF b = a THEN {} ELSE inbox[b]
        /\ inbox' \in [Action -> SUBSET Invocation] /\ late' \subseteq Invocation
    BY <1>0, <1>1 DEF WorldType
  <1>4. WorldType'
    BY <1>0, <1>1, <1>3 DEF WorldType
  <1>5. ASSUME NEW e \in Exec, NEW r \in Req PROVE Flight(e, r)'
    <2>1. Flight(e, r)
      BY <1>0 DEF Flights
    <2>2. InFlight(<<e, r>>)' <=> InFlight(<<e, r>>)
      BY <1>1, <1>3 DEF InFlight
    <2>3. \A b \in Action : <<e, r>> \in inbox'[b] =>
            /\ <<e, r>> \notin late'
            /\ \A c \in Action : <<e, r>> \in inbox'[c] => b = c
      BY <1>1, <1>3, <2>1 DEF Flight
    <2>4. QED
      BY <1>1, <1>2, <2>1, <2>2, <2>3 DEF Flight
  <1>6. Flights'
    BY <1>0, <1>1, <1>5 DEF Flights
  <1>7. QED
    BY <1>1, <1>4, <1>6, WorldKept

-----------------------------------------------------------------------------
(* The theorems *)

\* The empty arena and an empty journal satisfy the invariant.
LEMMA InitIInv == Init => IInv
  <1> SUFFICES ASSUME Init PROVE IInv
    OBVIOUS
  <1>1. JournalTypeOK
    BY JournalAssumption
       DEF Init, JournalInit, JournalTypeOK, Phase, Delivery
  <1>2. ArenaType
    <2>1. IsFiniteSet({}) /\ Cardinality({}) = 0
      BY FS_EmptySet
    <2>2. 1 \in 1 .. MaxReqId + 1 /\ 0 <= MaxGroups
      BY JournalAssumption, GroupAssumption
    <2>3. QED
      BY <2>1, <2>2, EmptyTyped DEF Init, ArenaType
  <1>3. LoopType
    <2>1. <<>> \in Seq(ChainStep)
      BY NoSteps
    <2>2. QED
      BY <2>1 DEF Init, LoopType
  <1>4. WorldType
    <2>1. <<>> \in Seq(Frame)
      OBVIOUS
    <2>2. QED
      BY <2>1 DEF Init, WorldType
  <1>5. Control
    BY DEF Init, Control
  <1>6. Flights
    BY DEF Init, JournalInit, Flights, Flight, InFlight
  <1>7. \A e \in Exec, i \in Flow : ~dlv[e][i].owns /\ ~flow[e][i].active /\ flow[e][i].req = 0
    BY DEF Init, NoFlow, NoDlv
  <1>8. \A e \in Exec : Numbered(e)
    BY <1>7 DEF Init, JournalInit, Numbered
  <1>9. Working
    BY <1>7, <1>8 DEF Init, Working, Owned, InStep, Settled, Accepting, Served1
  <1>10. QED
    BY <1>1, <1>2, <1>3, <1>4, <1>5, <1>6, <1>9 DEF IInv

\* Every step of the loop, of the chain and of the apps keeps the invariant.
LEMMA NextIInv == IInv /\ [Next]_vars => IInv'
  <1> SUFFICES ASSUME IInv, [Next]_vars PROVE IInv'
    OBVIOUS
  <1>1. CASE UNCHANGED vars
    BY <1>1, KeptFrame DEF vars
  <1>2. ASSUME NEW e \in Exec, NEW i \in Flow, Served(e, i) PROVE IInv'
    BY <1>2, KeptSend, KeptSendNowhere, KeptSendFails, KeptReceiveNothing, KeptLose,
       KeptReject, KeptAccept DEF Served
  <1>3. ASSUME NEW e \in Exec, NEW i \in Flow,
               Prepare(e, i) \/ Reconcile(e, i) \/ Assign(e, i)
        PROVE  IInv'
    BY <1>3, KeptPrepare, KeptReconcile, KeptAssign
  <1>4. ASSUME NEW e \in Exec, Admit(e) \/ Return(e) PROVE IInv'
    BY <1>4, KeptAdmit, KeptReturn
  <1>5. CASE Edges \/ Started \/ MarkSent \/ Close \/ Finish \/ Poll
    BY <1>5, KeptEdges, KeptStarted, KeptMarkSent, KeptClose, KeptFinish, KeptPoll
  <1>6. ASSUME NEW a \in Action, Register(a) \/ AppRun(a) \/ AppDies(a) PROVE IInv'
    BY <1>6, KeptRegister, KeptAppRun, KeptAppDies
  <1>7. ASSUME NEW d \in Exec \X Req, AppRunLate(d) PROVE IInv'
    BY <1>7, KeptAppRunLate
  <1>8. QED
    BY <1>1, <1>2, <1>3, <1>4, <1>5, <1>6, <1>7 DEF Next

\* The ownership of an Action, and not the state of a flow, ties a flow to its
\* delivery, in every reachable state (flow arena and poll round of loop_linux.c).
THEOREM Invariance == Spec => []IInv
  BY InitIInv, NextIInv, PTL DEF Spec

\* The flow arena and the daemon's tables stay in their types
\* (hermas_flow, hermas_loop_delivery).
THEOREM TypeCorrect == Spec => []TypeOK
  <1>1. IInv => TypeOK
    <2> SUFFICES ASSUME IInv PROVE TypeOK
      OBVIOUS
    <2>1. JournalTypeOK /\ ArenaType /\ LoopType /\ WorldType
      BY DEF IInv
    <2>2. \A e \in Exec, i \in Flow :
            /\ flow[e][i].active \in BOOLEAN
            /\ flow[e][i].state \in {"EMPTY", "READY", "PREPARED", "SENT", "WAITING"}
            /\ flow[e][i].node \in Node /\ flow[e][i].req \in 0 .. MaxReqId
            /\ dlv[e][i] \in [req : Req, node : Node, owns : BOOLEAN]
      BY <2>1 DEF ArenaType, FlowRecord, FlowState, DlvRecord
    <2>3. QED
      BY <2>1, <2>2 DEF TypeOK, ArenaType, LoopType, WorldType
  <1>2. QED
    BY <1>1, Invariance, PTL

-----------------------------------------------------------------------------
(***************************************************************************)
(* Graphs without each regions.  A group implements DeliveryContract,      *)
(* serves an Action for one flow at a time, and ends the loop only over a  *)
(* stale entry of the round.  All of it rests on IInv and on who may own an*)
(* Action: without each regions one flow, so that nothing that happens     *)
(* within a round takes an Action from an entry that is still to be served.*)
(***************************************************************************)
-----------------------------------------------------------------------------
(* Who owns an Action *)

NoRegions == \A e \in Exec, i \in Flow : flow[e][i].region = "none"

OneOwner ==
  \A e, f \in Exec : \A i, j \in Flow :
    dlv[e][i].owns /\ dlv[f][j].owns /\ ActionAt(e, i) = ActionAt(f, j) => e = f /\ i = j

SentOwns ==
  \A e \in Exec, i \in Flow :
    Settled(e, i) /\ flow[e][i].state = "SENT" => dlv[e][i].owns

RoundOwns ==
  pc # "ended" =>
    /\ \A x \in round : dlv[x[1]][x[2]].owns
    /\ pc = "closing" \/ (pc = "enter" /\ after = "closing") => cur \notin round

\* What IInv leaves open: the owner of an Action is one flow, and every entry of
\* the round is one.
AInv == NoRegions /\ OneOwner /\ SentOwns /\ RoundOwns

\* Without each nodes no step of the chain gives a flow a region.
LEMMA EdgesNoRegions ==
  ASSUME AllOnly, IInv, NoRegions, Edges PROVE NoRegions'
  <1>0. /\ pc = "enter" /\ cur[1] \in Exec /\ flow \in [Exec -> [Flow -> FlowRecord]]
        /\ flow[cur[1]] \in [Flow -> FlowRecord] /\ each[cur[1]] \in EachRecord
    <2>1. pc = "enter"
      BY DEF Edges, EnterAction, EnterFork, EnterDispatch, EnterJoin, CutFlow, EnterTerminal,
             MaybeComplete, EnterEach, AdmitItem, Collect, EachFinish, Entering
    <2>2. QED
      BY <2>1, ChainHead DEF IInv, ArenaType
  <1>1. each[cur[1]].region = "none"
    BY <1>0 DEF EachRecord, AllOnly
  <1>2. ~AdmitItem /\ ~Collect /\ ~EachFinish
    BY <1>1 DEF AdmitItem, Collect, EachFinish
  <1>3. ~EnterEach
    BY <1>0, ChainHead DEF EnterEach, Entering, AllOnly
  <1> DEFINE t == Head(todo)
             e == cur[1]
  <1>4. t.op = "edge" => t.i \in Flow
    BY <1>0, ChainHead
  <1>5. CASE EnterAction
    <2>1. /\ flow' = [flow EXCEPT ![e][t.i] =
                        [@ EXCEPT !.node = t.to.node, !.state = "READY", !.active = TRUE]]
          /\ t.i \in Flow
      BY <1>4, <1>5 DEF EnterAction, Entering
    <2>2. QED
      BY <1>0, <2>1 DEF NoRegions, FlowRecord
  <1>6. CASE EnterDispatch
    <2>1. flow' = [flow EXCEPT ![e][t.i].node = t.to.node] /\ t.i \in Flow
      BY <1>4, <1>6 DEF EnterDispatch, Entering
    <2>2. QED
      BY <1>0, <2>1 DEF NoRegions, FlowRecord
  <1>7. ASSUME NEW fl \in [Flow -> FlowRecord], flow' = [flow EXCEPT ![e] = fl],
               \A i \in Flow : fl[i].region = flow[e][i].region
        PROVE  NoRegions'
    BY <1>0, <1>7 DEF NoRegions
  <1>8. CASE EnterFork
    <2> DEFINE n == t.to.node
               free == Idle(e) \ {t.i}
               at(k) == IF k = 1 THEN t.i ELSE Lowest(free, k - 1)
               others == {at(k) : k \in 2 .. Len(Branch[n])}
               fl == [i \in Flow |->
                        IF i = t.i THEN [flow[e][i] EXCEPT !.node = n]
                        ELSE IF i \in others THEN [flow[e][i] EXCEPT !.active = TRUE]
                             ELSE flow[e][i]]
    <2>1. flow' = [flow EXCEPT ![e] = fl]
      BY <1>8 DEF EnterFork
    <2>2. n \in Node
      BY <1>0, <1>8, ChainHead DEF EnterFork, Entering
    <2> HIDE DEF e, t, n, others
    <2>3. fl \in [Flow -> FlowRecord] /\ \A i \in Flow : fl[i].region = flow[e][i].region
      BY <1>0, <2>2 DEF FlowRecord, e
    <2> HIDE DEF fl
    <2>4. QED
      BY <1>7, <2>1, <2>3
  <1>9. CASE EnterJoin
    <2> DEFINE fl == [flow[e] EXCEPT ![t.i] =
                        [@ EXCEPT !.node = t.to.node, !.join = t.to.node, !.tag = t.to.tag,
                                  !.state = "WAITING"]]
    <2>1. flow' = [flow EXCEPT ![e] = fl]
      BY <1>9 DEF EnterJoin
    <2>2. t.i \in Flow /\ t.to.node \in Node /\ t.to.tag \in Nat
      BY <1>0, <1>9, ChainHead DEF EnterJoin, Entering
    <2> HIDE DEF e, t
    <2>3. fl \in [Flow -> FlowRecord] /\ \A i \in Flow : fl[i].region = flow[e][i].region
      <3>1. flow[e] \in [Flow -> FlowRecord] /\ flow[e][t.i] \in FlowRecord
        BY <1>0, <2>2 DEF e
      <3> DEFINE v == [flow[e][t.i] EXCEPT !.node = t.to.node, !.join = t.to.node,
                                           !.tag = t.to.tag, !.state = "WAITING"]
      <3>2. v \in FlowRecord /\ v.region = flow[e][t.i].region
        BY <2>2, <3>1 DEF FlowRecord, FlowState
      <3>3. fl = [flow[e] EXCEPT ![t.i] = v]
        OBVIOUS
      <3> HIDE DEF v, fl
      <3>4. QED
        BY <2>2, <3>1, <3>2, <3>3
    <2> HIDE DEF fl
    <2>4. QED
      BY <1>7, <2>1, <2>3
  <1>10. CASE CutFlow
    <2> DEFINE gone == t.flows
               fl == [i \in Flow |-> IF i \in gone THEN [flow[e][i] EXCEPT !.active = FALSE]
                                     ELSE flow[e][i]]
    <2>1. flow' = [flow EXCEPT ![e] = fl]
      BY <1>10 DEF CutFlow
    <2> HIDE DEF e, t, gone
    <2>2. fl \in [Flow -> FlowRecord] /\ \A i \in Flow : fl[i].region = flow[e][i].region
      BY <1>0 DEF FlowRecord, e
    <2> HIDE DEF fl
    <2>3. QED
      BY <1>7, <2>1, <2>2
  <1>11. CASE EnterTerminal
    <2> DEFINE n == t.to.node
               fl == [i \in Flow |->
                        IF i = t.i THEN [flow[e][i] EXCEPT !.active = FALSE, !.node = n]
                        ELSE IF t.o # "Success" /\ flow[e][i].state # "SENT"
                             THEN [flow[e][i] EXCEPT !.active = FALSE] ELSE flow[e][i]]
    <2>1. flow' = [flow EXCEPT ![e] = fl]
      BY <1>11 DEF EnterTerminal
    <2>2. n \in Node
      BY <1>0, <1>11, ChainHead DEF EnterTerminal, Entering
    <2> HIDE DEF e, t, n
    <2>3. fl \in [Flow -> FlowRecord] /\ \A i \in Flow : fl[i].region = flow[e][i].region
      BY <1>0, <2>2 DEF FlowRecord, e
    <2> HIDE DEF fl
    <2>4. QED
      BY <1>7, <2>1, <2>3
  <1>12. CASE MaybeComplete
    BY <1>12 DEF MaybeComplete, NoRegions
  <1>13. QED
    BY <1>2, <1>3, <1>5, <1>6, <1>8, <1>9, <1>10, <1>11, <1>12 DEF Edges

\* Giving up an Action leaves one owner.
LEMMA OwnersShrink ==
  ASSUME OneOwner,
         \A f \in Exec, j \in Flow :
           dlv'[f][j].owns => dlv[f][j].owns /\ dlv'[f][j].node = dlv[f][j].node
  PROVE  OneOwner'
  BY DEF OneOwner, ActionAt

\* Without each regions a flow takes an Action only when nobody owns it.
LEMMA OwnerIsNew ==
  ASSUME IInv, NoRegions, OneOwner, NEW e \in Exec, NEW i \in Flow, Assign(e, i)
  PROVE  OneOwner'
  <1>1. /\ pc = "idle" /\ ~OwnedByOther(e, i) /\ ArenaType
        /\ dlv' = [dlv EXCEPT ![e][i].owns = TRUE]
    BY Parts DEF Assign, Assignable
  <1>2. /\ \A f \in Exec, j \in Flow : <<f, j>> # <<e, i>> => dlv'[f][j] = dlv[f][j]
        /\ dlv'[e][i].owns = TRUE /\ dlv'[e][i].node = dlv[e][i].node
    BY <1>1, OwnsEffect DEF ArenaType
  <1>3. \A f \in Exec, j \in Flow : dlv[f][j].owns => f \in used
    BY <1>1, Parts DEF Owned
  <1>4. \A f \in Exec, j \in Flow :
          dlv[f][j].owns /\ ActionAt(f, j) = ActionAt(e, i) => <<f, j>> = <<e, i>>
    BY <1>1, <1>3 DEF OwnedByOther, SameRegion, NoRegions
  <1>5. \A f \in Exec, j \in Flow : dlv'[f][j].node = dlv[f][j].node
    BY <1>2
  <1>6. \A f \in Exec, j \in Flow : dlv'[f][j].owns => dlv[f][j].owns \/ <<f, j>> = <<e, i>>
    BY <1>2
  <1>7. ASSUME NEW f \in Exec, NEW g \in Exec, NEW j \in Flow, NEW k \in Flow,
               dlv'[f][j].owns, dlv'[g][k].owns, ActionOf[dlv'[f][j].node] = ActionOf[dlv'[g][k].node]
        PROVE  f = g /\ j = k
    BY <1>4, <1>5, <1>6, <1>7 DEF OneOwner, ActionAt
  <1>8. QED
    BY <1>7 DEF OneOwner, ActionAt

\* A delivery that ends without a value gives up its Action, and is not an entry
\* of the round any more.
LEMMA EndDeliveryOwners ==
  ASSUME IInv, OneOwner, RoundOwns, pc \in {"idle", "round"}, NEW e \in Exec, NEW i \in Flow,
         NEW o, NEW required, EndDelivery(e, i, o, required),
         round' \subseteq round, <<e, i>> \notin round'
  PROVE  OneOwner' /\ RoundOwns' /\ UNCHANGED flow
  <1>0. /\ ArenaType /\ LoopType /\ UNCHANGED flow /\ (\A x \in round : dlv[x[1]][x[2]].owns)
    BY Parts DEF EndDelivery, runVars, RoundOwns
  <1>1. CASE pc' = "ended" /\ UNCHANGED dlv
    BY <1>0, <1>1, OwnersShrink DEF RoundOwns
  <1>2. CASE pc' = "enter" /\ after' = "finish" /\ dlv' = [dlv EXCEPT ![e][i].owns = FALSE]
    <2>1. /\ \A f \in Exec, j \in Flow : <<f, j>> # <<e, i>> => dlv'[f][j] = dlv[f][j]
          /\ dlv'[e][i].owns = FALSE
      BY <1>0, <1>2, OwnsEffect DEF ArenaType
    <2>2. OneOwner'
      BY <2>1, OwnersShrink
    <2>3. ASSUME NEW x \in round' PROVE dlv'[x[1]][x[2]].owns
      <3>1. x \in round /\ x[1] \in Exec /\ x[2] \in Flow /\ x = <<x[1], x[2]>>
        BY <1>0 DEF LoopType
      <3>2. QED
        BY <1>0, <2>1, <3>1
    <2>4. QED
      BY <1>0, <1>2, <2>2, <2>3 DEF RoundOwns
  <1>3. QED
    BY <1>1, <1>2 DEF EndDelivery

\* The frame that an entry of the round reads is for its own flow.
LEMMA OwnAnswer ==
  ASSUME IInv, OneOwner, RoundOwns, NEW e \in Exec, NEW i \in Flow, Receiving(e, i), NEW f,
         NEW j \in Matching(e, ActionAt(e, i), f)
  PROVE  j = i
  <1>1. dlv[e][i].owns /\ j \in Flow /\ dlv[e][j].owns /\ ActionAt(e, j) = ActionAt(e, i)
    BY DEF Receiving, First, RoundOwns, Matching
  <1>2. QED
    BY <1>1 DEF OneOwner

\* A step that leaves ownership and regions alone.
LEMMA OwnersFrame ==
  ASSUME AInv, UNCHANGED <<flow, dlv>>, round' \subseteq round,
         pc' \in {"closing", "enter"} => UNCHANGED <<pc, after, cur>>, pc # "ended"
  PROVE  NoRegions' /\ OneOwner' /\ RoundOwns'
  <1>1. NoRegions' /\ OneOwner'
    BY DEF AInv, NoRegions, OneOwner, ActionAt
  <1>2. RoundOwns'
    BY DEF AInv, RoundOwns
  <1>3. QED
    BY <1>1, <1>2

\* Whatever ends the loop leaves the flows and the deliveries as they are.
LEMMA SentOwnsKept ==
  ASSUME IInv, IInv', SentOwns,
         pc' = "ended" => UNCHANGED <<flow, dlv>> /\ todo = <<>> /\ todo' = <<>>
  PROVE  SentOwns'
  <1>1. CASE pc' # "ended"
    BY <1>1 DEF IInv, Working, InStep, SentOwns
  <1>2. CASE pc' = "ended"
    <2>1. \A e, i : (Settled(e, i)' <=> flow[e][i].active) /\ (Settled(e, i) <=> flow[e][i].active)
      BY <1>2 DEF Settled, Busy, EdgesLeft
    <2>2. QED
      BY <1>2, <2>1 DEF SentOwns
  <1>3. QED
    BY <1>1, <1>2

\* What ends the loop.
LEMMA Ends ==
  ASSUME IInv, [Next]_vars, pc' = "ended"
  PROVE  UNCHANGED <<flow, dlv>> /\ todo = <<>> /\ todo' = <<>>
  <1>1. CASE pc = "ended"
    <2>0. todo = <<>>
      BY <1>1 DEF IInv, Control
    <2>1. UNCHANGED <<flow, dlv, todo>>
      <3>1. CASE UNCHANGED vars
        BY <3>1 DEF vars, runVars, pcVars
      <3>2. ASSUME NEW a \in Action, Register(a) \/ AppRun(a) \/ AppDies(a) PROVE UNCHANGED <<flow, dlv, todo>>
        BY <3>2 DEF Register, AppRun, AppDies, runVars, pcVars
      <3>3. ASSUME NEW d \in Exec \X Req, AppRunLate(d) PROVE UNCHANGED <<flow, dlv, todo>>
        BY <3>3 DEF AppRunLate, runVars, pcVars
      <3>4. ASSUME NEW e \in Exec, NEW i \in Flow, Served(e, i) \/ Prepare(e, i) \/ Reconcile(e, i) \/ Assign(e, i)
            PROVE  FALSE
        BY <1>1, <3>4 DEF Served, Send, SendNowhere, SendFails, Sending, ReceiveNothing, Lose, Reject,
                          Accept, Receiving, Prepare, Reconcile, Assign
      <3>5. ASSUME NEW e \in Exec, Admit(e) \/ Return(e) PROVE FALSE
        BY <1>1, <3>5 DEF Admit, Return
      <3>6. ~(Started \/ MarkSent \/ Close \/ Finish \/ Poll)
        BY <1>1 DEF Started, MarkSent, Close, Finish, Poll
      <3>7. ~Edges
        BY <1>1 DEF Edges, EnterAction, EnterFork, EnterDispatch, EnterJoin, CutFlow, EnterTerminal,
                    MaybeComplete, EnterEach, AdmitItem, Collect, EachFinish, Entering
      <3>8. QED
        BY <3>1, <3>2, <3>3, <3>4, <3>5, <3>6, <3>7 DEF Next
    <2>2. QED
      BY <2>0, <2>1
  <1>2. CASE pc # "ended"
    <2>0. (pc # "enter" => todo = <<>>) /\ (pc = "enter" => after # "ended")
      BY <1>2, Parts DEF Control, LoopType
    <2>1. ASSUME NEW e \in Exec, NEW i \in Flow, NEW o, NEW required, EndDelivery(e, i, o, required),
                 pc # "enter"
          PROVE  UNCHANGED <<flow, dlv>> /\ todo = <<>> /\ todo' = <<>>
      BY <2>0, <2>1 DEF EndDelivery, runVars
    <2>2. ASSUME NEW e \in Exec, NEW i \in Flow, SendFails(e, i) \/ Lose(e, i)
          PROVE  UNCHANGED <<flow, dlv>> /\ todo = <<>> /\ todo' = <<>>
      BY <2>1, <2>2 DEF SendFails, Lose, Sending, Receiving
    <2>3. ASSUME NEW e \in Exec, NEW i \in Flow, Reject(e, i)
          PROVE  UNCHANGED <<flow, dlv>> /\ todo = <<>> /\ todo' = <<>>
      BY <2>1, <2>3 DEF Reject, Receiving, Matching
    <2>4. ASSUME NEW e \in Exec, NEW i \in Flow, Reconcile(e, i)
          PROVE  UNCHANGED <<flow, dlv>> /\ todo = <<>> /\ todo' = <<>>
      BY <1>2, <2>1, <2>4 DEF Reconcile, pcVars
    <2>5. CASE MarkSent
      BY <2>0, <2>5 DEF MarkSent, Rest
    <2>6. ASSUME NEW e \in Exec, NEW i \in Flow,
                 \/ Send(e, i) \/ SendNowhere(e, i) \/ ReceiveNothing(e, i) \/ Accept(e, i)
                 \/ Prepare(e, i) \/ Assign(e, i)
          PROVE  FALSE
      BY <1>2, <2>6 DEF Send, SendNowhere, ReceiveNothing, Accept, Prepare, Assign, Rest, pcVars
    <2>7. ASSUME NEW e \in Exec, Admit(e) \/ Return(e) PROVE FALSE
      BY <1>2, <2>7 DEF Admit, Return, pcVars
    <2>8. ~(Started \/ Close \/ Finish \/ Poll)
      BY DEF Started, Close, Finish, Poll, Rest
    <2>9. ~Edges
      <3>1. \A steps : GoOn(steps) /\ pc = "enter" => pc' # "ended"
        BY <2>0 DEF GoOn
      <3>2. QED
        BY <3>1 DEF Edges, EnterAction, EnterFork, EnterDispatch, EnterJoin, CutFlow, EnterTerminal,
                    MaybeComplete, EnterEach, AdmitItem, Collect, EachFinish, Entering
    <2>10. ASSUME NEW a \in Action, Register(a) \/ AppRun(a) \/ AppDies(a) PROVE FALSE
      BY <1>2, <2>10 DEF Register, AppRun, AppDies, pcVars
    <2>11. ASSUME NEW d \in Exec \X Req, AppRunLate(d) PROVE FALSE
      BY <1>2, <2>11 DEF AppRunLate, pcVars
    <2>12. ~UNCHANGED vars
      BY <1>2 DEF vars, pcVars
    <2>13. QED
      BY <2>2, <2>3, <2>4, <2>5, <2>6, <2>7, <2>8, <2>9, <2>10, <2>11, <2>12 DEF Next, Served
  <1>3. QED
    BY <1>1, <1>2

\* Regions, owners and the round, in every step of the loop.
LEMMA OwnersStep ==
  ASSUME AllOnly, IInv, AInv, [Next]_vars PROVE NoRegions' /\ OneOwner' /\ RoundOwns'
  <1>0. ArenaType /\ LoopType /\ Control /\ NoRegions /\ OneOwner /\ RoundOwns
    BY DEF IInv, AInv
  <1> DEFINE Goal == NoRegions' /\ OneOwner' /\ RoundOwns'
  <1> SUFFICES Goal
    OBVIOUS
  <1>01. ASSUME UNCHANGED <<flow, dlv, round, pc, after, cur>> PROVE Goal
    <2>1. NoRegions' /\ OneOwner'
      BY <1>0, <1>01 DEF NoRegions, OneOwner, ActionAt
    <2>2. RoundOwns'
      BY <1>0, <1>01 DEF RoundOwns
    <2>3. QED
      BY <2>1, <2>2
  <1>02. ASSUME NEW e \in Exec, NEW i \in Flow, pc \in {"idle", "round"}, NEW o, NEW required,
                EndDelivery(e, i, o, required), round' \subseteq round, <<e, i>> \notin round'
         PROVE  Goal
    BY <1>0, <1>02, EndDeliveryOwners DEF NoRegions
  <1>1. CASE UNCHANGED vars
    BY <1>1, <1>01 DEF vars, runVars, pcVars
  <1>2. CASE Edges
    <2>1. NoRegions'
      BY <1>0, <1>2, EdgesNoRegions
    <2>2. pc = "enter" /\ UNCHANGED <<dlv, round, cur, after>> /\ pc' \in {after, "enter"}
      BY <1>2 DEF Edges, EnterAction, EnterFork, EnterDispatch, EnterJoin, CutFlow, EnterTerminal,
                  MaybeComplete, EnterEach, AdmitItem, Collect, EachFinish, Entering, GoOn, restOfEnter
    <2>3. OneOwner'
      BY <1>0, <2>2 DEF OneOwner, ActionAt
    <2>4. RoundOwns'
      BY <1>0, <2>2 DEF RoundOwns
    <2>5. QED
      BY <2>1, <2>3, <2>4
  <1>3. CASE Started \/ Finish
    <2>1. UNCHANGED <<flow, dlv, round>> /\ pc' \in {"idle", "round"} /\ pc # "ended"
      BY <1>3 DEF Started, Finish, Rest, runVars
    <2>2. QED
      BY <2>1, OwnersFrame
  <1>4. CASE MarkSent
    <2>1. PICK e \in Exec, i \in Flow : cur = <<e, i>>
      BY <1>0, <1>4 DEF MarkSent, Control, ArenaType
    <2>2. /\ UNCHANGED <<dlv, round>> /\ pc' \in {"idle", "round", "ended"} /\ pc = "sent"
          /\ UNCHANGED flow \/ flow' = [flow EXCEPT ![e][i].state = "SENT"]
      BY <1>4, <2>1 DEF MarkSent, Rest
    <2>3. \A f \in Exec, j \in Flow : flow'[f][j].region = flow[f][j].region
      <3>1. CASE flow' = [flow EXCEPT ![e][i].state = "SENT"]
        BY <1>0, <3>1 DEF ArenaType, FlowRecord
      <3>2. QED
        BY <2>2, <3>1
    <2>4. NoRegions' /\ OneOwner'
      BY <1>0, <2>2, <2>3 DEF NoRegions, OneOwner, ActionAt
    <2>5. RoundOwns'
      BY <1>0, <2>2 DEF RoundOwns
    <2>6. QED
      BY <2>4, <2>5
  <1>5. CASE Close
    <2>1. PICK e \in Exec, i \in Flow : cur = <<e, i>>
      BY <1>0, <1>5 DEF Close, Control, ArenaType
    <2>2. /\ dlv' = [dlv EXCEPT ![e][i].owns = FALSE] /\ UNCHANGED <<flow, round>>
          /\ pc' = "finish" /\ pc = "closing"
      BY <1>5, <2>1 DEF Close, runVars
    <2>3. /\ \A f \in Exec, j \in Flow : <<f, j>> # <<e, i>> => dlv'[f][j] = dlv[f][j]
          /\ dlv'[e][i].owns = FALSE
      BY <1>0, <2>2, OwnsEffect DEF ArenaType
    <2>4. OneOwner'
      BY <1>0, <2>3, OwnersShrink
    <2>5. ASSUME NEW x \in round PROVE dlv'[x[1]][x[2]].owns
      <3>1. x[1] \in Exec /\ x[2] \in Flow /\ x = <<x[1], x[2]>> /\ x # <<e, i>> /\ dlv[x[1]][x[2]].owns
        BY <1>0, <2>1, <2>2 DEF LoopType, RoundOwns
      <3>2. QED
        BY <2>3, <3>1
    <2>6. NoRegions' /\ RoundOwns'
      BY <1>0, <2>2, <2>5 DEF NoRegions, RoundOwns
    <2>7. QED
      BY <2>4, <2>6
  <1>6. CASE Poll
    <2>1. /\ UNCHANGED <<flow, dlv>> /\ pc' = "round"
          /\ round' \subseteq {x \in Exec \X Flow : Polled(x[1], x[2])}
      BY <1>6 DEF Poll, runVars
    <2>2. \A x \in round' : dlv[x[1]][x[2]].owns
      BY <2>1 DEF Polled
    <2>3. NoRegions' /\ OneOwner'
      BY <1>0, <2>1 DEF NoRegions, OneOwner, ActionAt
    <2>4. RoundOwns'
      BY <2>1, <2>2 DEF RoundOwns
    <2>5. QED
      BY <2>3, <2>4
  <1>7. ASSUME NEW e \in Exec, Admit(e) PROVE Goal
    <2>1. /\ flow' = [flow EXCEPT ![e] = [i \in Flow |-> [NoFlow EXCEPT !.active = (i = 1)]]]
          /\ UNCHANGED <<dlv, round>> /\ pc = "idle" /\ after' = "started" /\ pc' = "enter"
      BY <1>7 DEF Admit
    <2>2. round = {}
      BY <1>0, <2>1 DEF Control
    <2>3. \A f \in Exec : flow'[f] = IF f = e THEN [i \in Flow |-> [NoFlow EXCEPT !.active = (i = 1)]]
                                     ELSE flow[f]
      BY <1>0, <2>1 DEF ArenaType
    <2>4. NoRegions'
      <3>1. \A b : [NoFlow EXCEPT !.active = b].region = "none"
        BY DEF NoFlow
      <3>2. \A i \in Flow : flow'[e][i].region = [NoFlow EXCEPT !.active = (i = 1)].region
        BY <2>3
      <3>3. \A f \in Exec, i \in Flow : f # e => flow'[f][i].region = "none"
        BY <1>0, <2>3 DEF NoRegions
      <3>4. ASSUME NEW i \in Flow PROVE flow'[e][i].region = "none"
        BY <3>1, <3>2
      <3>5. QED
        BY <3>3, <3>4 DEF NoRegions
    <2>5. OneOwner' /\ RoundOwns'
      BY <1>0, <2>1, <2>2 DEF OneOwner, ActionAt, RoundOwns
    <2>6. QED
      BY <2>4, <2>5
  <1>8. ASSUME NEW e \in Exec, Return(e) PROVE Goal
    <2>1. /\ flow' = [flow EXCEPT ![e] = [i \in Flow |-> NoFlow]]
          /\ dlv' = [dlv EXCEPT ![e] = [i \in Flow |-> NoDlv]]
          /\ UNCHANGED <<round, pc>> /\ pc = "idle"
      BY <1>8 DEF Return, pcVars
    <2>2. round = {}
      BY <1>0, <2>1 DEF Control
    <2>3. \A f \in Exec : /\ flow'[f] = IF f = e THEN [i \in Flow |-> NoFlow] ELSE flow[f]
                          /\ dlv'[f] = IF f = e THEN [i \in Flow |-> NoDlv] ELSE dlv[f]
      BY <1>0, <2>1 DEF ArenaType
    <2>4. NoRegions'
      BY <1>0, <2>3 DEF NoRegions, NoFlow
    <2>5. \A f \in Exec, j \in Flow :
            dlv'[f][j].owns => dlv[f][j].owns /\ dlv'[f][j].node = dlv[f][j].node
      BY <2>3 DEF NoDlv
    <2>6. OneOwner'
      BY <1>0, <2>5, OwnersShrink
    <2>7. RoundOwns'
      BY <2>1, <2>2 DEF RoundOwns
    <2>8. QED
      BY <2>4, <2>6, <2>7
  <1>9. ASSUME NEW e \in Exec, NEW i \in Flow, Prepare(e, i) PROVE Goal
    <2>1. /\ flow' = [flow EXCEPT ![e][i] = [@ EXCEPT !.state = "PREPARED", !.req = nreq[e]]]
          /\ dlv' = [dlv EXCEPT ![e][i] = [req |-> nreq[e], node |-> flow[e][i].node, owns |-> FALSE]]
          /\ UNCHANGED <<round, pc>> /\ pc = "idle"
      BY <1>9 DEF Prepare, pcVars
    <2>2. round = {}
      BY <1>0, <2>1 DEF Control
    <2>3. \A f \in Exec, j \in Flow : flow'[f][j].region = flow[f][j].region
      BY <1>0, <2>1 DEF ArenaType, FlowRecord
    <2>4. \A f \in Exec, j \in Flow :
            dlv'[f][j].owns => dlv[f][j].owns /\ dlv'[f][j].node = dlv[f][j].node
      BY <1>0, <2>1 DEF ArenaType
    <2>5. OneOwner'
      BY <1>0, <2>4, OwnersShrink
    <2>6. NoRegions' /\ RoundOwns'
      BY <1>0, <2>1, <2>2, <2>3 DEF NoRegions, RoundOwns
    <2>7. QED
      BY <2>5, <2>6
  <1>10. ASSUME NEW e \in Exec, NEW i \in Flow, Reconcile(e, i) PROVE Goal
    <2>1. pc = "idle" /\ UNCHANGED round /\ round = {}
      BY <1>0, <1>10 DEF Reconcile, Control
    <2>2. CASE EndDelivery(e, i, "Unknown", "SENT")
      BY <1>02, <2>1, <2>2
    <2>3. CASE dlv' = [dlv EXCEPT ![e][i].owns = FALSE] /\ UNCHANGED <<flow, pc>>
      <3>1. /\ \A f \in Exec, j \in Flow : <<f, j>> # <<e, i>> => dlv'[f][j] = dlv[f][j]
            /\ dlv'[e][i].owns = FALSE
        BY <1>0, <2>3, OwnsEffect DEF ArenaType
      <3>2. OneOwner'
        BY <1>0, <3>1, OwnersShrink
      <3>3. NoRegions' /\ RoundOwns'
        BY <1>0, <2>1, <2>3 DEF NoRegions, RoundOwns
      <3>4. QED
        BY <3>2, <3>3
    <2>4. QED
      BY <1>10, <2>2, <2>3 DEF Reconcile, runVars, pcVars
  <1>11. ASSUME NEW e \in Exec, NEW i \in Flow, Assign(e, i) PROVE Goal
    <2>1. pc = "idle" /\ UNCHANGED <<flow, round, pc>> /\ round = {}
      BY <1>0, <1>11 DEF Assign, runVars, pcVars, Control
    <2>2. OneOwner'
      BY <1>0, <1>11, OwnerIsNew
    <2>3. NoRegions' /\ RoundOwns'
      BY <1>0, <2>1 DEF NoRegions, RoundOwns
    <2>4. QED
      BY <2>2, <2>3
  <1>12. ASSUME NEW e \in Exec, NEW i \in Flow, Send(e, i) \/ ReceiveNothing(e, i) PROVE Goal
    <2>1. /\ UNCHANGED <<flow, dlv>> /\ round' \subseteq round /\ pc' \in {"idle", "round", "sent"}
          /\ pc = "round"
      BY <1>12 DEF Send, ReceiveNothing, Sending, Rest, runVars
    <2>2. QED
      BY <2>1, OwnersFrame
  <1>13. ASSUME NEW e \in Exec, NEW i \in Flow, SendNowhere(e, i) PROVE Goal
    <2>1. /\ dlv' = [dlv EXCEPT ![e][i].owns = FALSE] /\ UNCHANGED flow
          /\ round' = round \ {<<e, i>>} /\ pc' \in {"idle", "round"} /\ pc = "round"
      BY <1>13 DEF SendNowhere, Sending, Rest, runVars
    <2>2. /\ \A f \in Exec, j \in Flow : <<f, j>> # <<e, i>> => dlv'[f][j] = dlv[f][j]
          /\ dlv'[e][i].owns = FALSE
      BY <1>0, <2>1, OwnsEffect DEF ArenaType
    <2>3. OneOwner'
      BY <1>0, <2>2, OwnersShrink
    <2>4. ASSUME NEW x \in round' PROVE dlv'[x[1]][x[2]].owns
      <3>1. x[1] \in Exec /\ x[2] \in Flow /\ x = <<x[1], x[2]>> /\ x # <<e, i>> /\ dlv[x[1]][x[2]].owns
        BY <1>0, <2>1 DEF LoopType, RoundOwns
      <3>2. QED
        BY <2>2, <3>1
    <2>5. NoRegions' /\ RoundOwns'
      BY <1>0, <2>1, <2>4 DEF NoRegions, RoundOwns
    <2>6. QED
      BY <2>3, <2>5
  <1>14. ASSUME NEW e \in Exec, NEW i \in Flow, SendFails(e, i) \/ Lose(e, i) PROVE Goal
    <2>1. /\ pc = "round" /\ round' = round \ {<<e, i>>}
          /\ EndDelivery(e, i, "NotSent", "PREPARED") \/ EndDelivery(e, i, "Unknown", "SENT")
      BY <1>14 DEF SendFails, Lose, Sending, Receiving
    <2>2. QED
      BY <1>02, <2>1
  <1>15. ASSUME NEW e \in Exec, NEW i \in Flow, Reject(e, i) PROVE Goal
    <2>1. Receiving(e, i) /\ pc = "round" /\ round' = round \ {<<e, i>>}
      BY <1>15 DEF Reject, Receiving
    <2>2. EndDelivery(e, i, "Unknown", "SENT")
      <3>1. PICK j \in Matching(e, ActionAt(e, i), Head(answers[ActionAt(e, i)])) \cup {i} :
              EndDelivery(e, j, "Unknown", "SENT")
        BY <1>15 DEF Reject
      <3>2. j = i
        BY <1>0, <2>1, <3>1, OwnAnswer
      <3>3. QED
        BY <3>1, <3>2
    <2>3. QED
      BY <1>02, <2>1, <2>2
  <1>16. ASSUME NEW e \in Exec, NEW i \in Flow, Accept(e, i) PROVE Goal
    <2>1. /\ Receiving(e, i) /\ UNCHANGED <<flow, dlv>> /\ round' = round \ {<<e, i>>} /\ pc = "round"
      BY <1>16 DEF Accept, Receiving, runVars
    <2>2. cur' = <<e, i>>
      <3>1. PICK j \in Matching(e, ActionAt(e, i), Head(answers[ActionAt(e, i)])) : cur' = <<e, j>>
        BY <1>16 DEF Accept
      <3>2. QED
        BY <1>0, <2>1, <3>1, OwnAnswer
    <2>3. NoRegions' /\ OneOwner'
      BY <1>0, <2>1 DEF NoRegions, OneOwner, ActionAt
    <2>4. RoundOwns'
      BY <1>0, <2>1, <2>2 DEF RoundOwns
    <2>5. QED
      BY <2>3, <2>4
  <1>17. ASSUME NEW a \in Action, Register(a) \/ AppRun(a) \/ AppDies(a) PROVE Goal
    BY <1>01, <1>17 DEF Register, AppRun, AppDies, runVars, pcVars
  <1>18. ASSUME NEW d \in Exec \X Req, AppRunLate(d) PROVE Goal
    BY <1>01, <1>18 DEF AppRunLate, runVars, pcVars
  <1> HIDE DEF Goal
  <1>19. QED
    BY <1>1, <1>2, <1>3, <1>4, <1>5, <1>6, <1>7, <1>8, <1>9, <1>10, <1>11, <1>12, <1>13, <1>14,
       <1>15, <1>16, <1>17, <1>18 DEF Next, Served

\* Nothing owns anything when the daemon starts.
LEMMA InitAInv == Init => AInv
  <1> SUFFICES ASSUME Init PROVE AInv
    OBVIOUS
  <1>1. /\ \A e \in Exec, i \in Flow : /\ ~dlv[e][i].owns /\ ~flow[e][i].active
                                       /\ flow[e][i].region = "none"
        /\ round = {}
    BY DEF Init, NoFlow, NoDlv
  <1>2. QED
    BY <1>1 DEF AInv, NoRegions, OneOwner, SentOwns, Settled, RoundOwns

\* With the invariant of GroupProofs the ownership is inductive.
LEMMA NextAInv ==
  ASSUME AllOnly, IInv, AInv, [Next]_vars PROVE IInv' /\ AInv'
  <1>1. IInv'
    BY NextIInv
  <1>2. SentOwns'
    BY <1>1, Ends, SentOwnsKept DEF AInv
  <1>3. QED
    BY <1>1, <1>2, OwnersStep DEF AInv

\* Without each regions an Action belongs to one flow at a time, and every entry
\* of the poll round that is still to be served owns the Action it is about, even
\* if an earlier entry has cut off its flow (assign_available_actions,
\* action_owned_by_other).
THEOREM OneOwnerPerAction ==
  ASSUME AllOnly
  PROVE  Spec => [](IInv /\ AInv)
  <1>1. IInv /\ AInv /\ [Next]_vars => IInv' /\ AInv'
    BY NextAInv
  <1>2. QED
    BY <1>1, InitIInv, InitAInv, PTL DEF Spec

\* "All other same-Action delivery remains single-flight": without each regions
\* no two flows, of one execution or of two, await the same Action
\* (hermas_group_prepare, action_owned_by_other).
THEOREM ActionsAreSingleFlight ==
  ASSUME AllOnly
  PROVE  Spec => []SingleFlight
  <1>1. IInv /\ AInv => SingleFlight
    <2> SUFFICES ASSUME IInv, AInv, pc # "enter" PROVE SingleFlight
      BY DEF SingleFlight
    <2>1. used \subseteq Exec /\ todo = <<>>
      BY DEF IInv, ArenaType, Control
    <2>2. ASSUME NEW e \in used, NEW i \in Flow, flow[e][i].active, flow[e][i].state = "SENT"
          PROVE  dlv[e][i].owns
      BY <2>1, <2>2, NothingBusy DEF AInv, SentOwns
    <2>3. ASSUME NEW e \in used, NEW f \in used, NEW i \in Flow, NEW j \in Flow,
                 flow[e][i].active, flow[e][i].state = "SENT",
                 flow[f][j].active, flow[f][j].state = "SENT",
                 ActionAt(e, i) = ActionAt(f, j)
          PROVE  <<e, i>> = <<f, j>>
      BY <2>1, <2>2, <2>3 DEF AInv, OneOwner
    <2>4. ASSUME NEW e \in used, NEW i \in Flow PROVE flow[e][i].region = "none"
      BY <2>1 DEF AInv, NoRegions
    <2>5. QED
      BY <2>3, <2>4 DEF SingleFlight
  <1>2. QED
    BY <1>1, OneOwnerPerAction, PTL

-----------------------------------------------------------------------------
(* The delivery contract *)

\* The refinement mapping: the closing fact of a delivery is its verdict.
Verdicts == [e \in Exec |-> [r \in Req |->
              IF jdel[e][r] \in Outcome THEN jdel[e][r] ELSE "none"]]

\* Records that close nothing leave every verdict as it is.
LEMMA SameVerdicts ==
  ASSUME \A e \in Exec, r \in Req :
           jdel'[e][r] = jdel[e][r] \/ {jdel[e][r], jdel'[e][r]} \cap Outcome = {}
  PROVE  Verdicts' = Verdicts
  <1>1. \A e \in Exec, r \in Req :
          (IF jdel'[e][r] \in Outcome THEN jdel'[e][r] ELSE "none") =
          (IF jdel[e][r] \in Outcome THEN jdel[e][r] ELSE "none")
    OBVIOUS
  <1>2. QED
    BY <1>1, Zenon DEF Verdicts

\* A closing Action fact of an open delivery is a step of the contract if it is
\* honest: it gives the delivery its first verdict.
LEMMA SettleIsStep ==
  ASSUME JournalTypeOK, NEW e \in Exec, NEW r \in Req, NEW o \in Outcome,
         AppendClosing(e, r, o), IsOpen(e, r),
         o \in {"Success", "AppError"} => ran[e][r],
         o = "NotSent" => sends[e][r] = 0,
         UNCHANGED <<sends, ran>>
  PROVE  Contract!Next
  <1>1. Verdicts[e][r] = "none"
    BY DEF Verdicts, IsOpen, Outcome
  <1>2. \A f \in Exec, q \in Req :
          jdel'[f][q] = IF f = e /\ q = r THEN o ELSE jdel[f][q]
    BY ClosingEffect
  <1>3. \A f \in Exec, q \in Req :
          Verdicts'[f][q] = IF f = e /\ q = r THEN o ELSE Verdicts[f][q]
    BY <1>2 DEF Verdicts
  <1>4. /\ Verdicts' = [f \in Exec |-> [q \in Req |-> Verdicts'[f][q]]]
        /\ [Verdicts EXCEPT ![e][r] = o] =
             [f \in Exec |-> [q \in Req |-> IF f = e /\ q = r THEN o ELSE Verdicts[f][q]]]
    BY DEF Verdicts
  <1>5. Verdicts' = [Verdicts EXCEPT ![e][r] = o]
    BY <1>3, <1>4
  <1>6. Contract!Settle(e, r, o)
    BY <1>1, <1>5 DEF Contract!Settle, Verdicts
  <1>7. QED
    BY <1>6 DEF Contract!Next, Contract!Verdict, Outcome

\* A delivery whose flow owns the Action is open, so that whatever ends it without
\* a value gives it its first verdict.
LEMMA EndIsStep ==
  ASSUME IInv, pc \in {"idle", "round"}, NEW e \in Exec, NEW i \in Flow, NEW o \in {"NotSent", "Unknown"},
         NEW required, EndDelivery(e, i, o, required), dlv[e][i].owns,
         o = "NotSent" => sends[e][dlv[e][i].req] = 0
  PROVE  Contract!Next
  <1>1. JournalTypeOK /\ IsOpen(e, dlv[e][i].req) /\ dlv[e][i].req \in Req
    BY Parts DEF Owned, ArenaType, DlvRecord
  <1>2. AppendClosing(e, dlv[e][i].req, o) /\ UNCHANGED <<sends, ran>>
    BY DEF EndDelivery, DropAction, appVars
  <1>3. o \in Outcome
    BY DEF Outcome
  <1>4. QED
    BY <1>1, <1>2, <1>3, SettleIsStep

\* An app runs an invocation that it was sent for the first time, whether it reads
\* it from a live or from a closed connection.
LEMMA RunIsStep ==
  ASSUME IInv, NEW d \in Invocation, InFlight(d),
         ran' = [ran EXCEPT ![d[1]][d[2]] = TRUE], UNCHANGED <<sends, jdel>>
  PROVE  Contract!Next
  <1>1. d[1] \in Exec /\ d[2] \in Req /\ d = <<d[1], d[2]>>
    BY DEF Invocation
  <1>2. Flight(d[1], d[2])
    BY <1>1 DEF IInv, Flights
  <1>3. /\ sends[d[1]][d[2]] = 1 /\ ~ran[d[1]][d[2]]
        /\ jdel[d[1]][d[2]] \in {"prepared", "sent", "Unknown"}
    BY <1>1, <1>2 DEF Flight
  <1>4. Verdicts[d[1]][d[2]] \in {"none", "Unknown"} /\ Verdicts' = Verdicts
    BY <1>1, <1>3, SameVerdicts DEF Verdicts, Outcome
  <1>5. Contract!Run(d[1], d[2])
    BY <1>3, <1>4 DEF Contract!Run, Verdicts
  <1>6. QED
    BY <1>1, <1>5 DEF Contract!Next

\* Every step of the loop, of the chain and of an app is a step of the contract or
\* leaves it alone.
LEMMA StepImplementsContract ==
  ASSUME IInv, AInv, [Next]_vars
  PROVE  [Contract!Next]_(Contract!contractVars)
  <1> DEFINE Stutters == UNCHANGED <<sends, ran>> /\ Verdicts' = Verdicts
  <1>0. Stutters => UNCHANGED Contract!contractVars
    BY DEF Contract!contractVars, Verdicts
  <1>01. UNCHANGED <<sends, ran, jdel>> => Stutters
    BY SameVerdicts
  <1>02. /\ JournalTypeOK /\ \A e \in Exec, i \in Flow : dlv[e][i].req \in Req
         /\ OneOwner /\ RoundOwns /\ LoopType
    BY DEF IInv, AInv, ArenaType, DlvRecord
  <1>03. ASSUME NEW e \in Exec, NEW i \in Flow, pc = "round", First(<<e, i>>) PROVE dlv[e][i].owns
    BY <1>02, <1>03 DEF First, RoundOwns
  <1>04. ASSUME NEW e \in Exec, NEW i \in Flow, Sending(e, i)
         PROVE  jdel[e][dlv[e][i].req] = "prepared" /\ sends[e][dlv[e][i].req] = 0
    <2>1. pc = "round" /\ dlv[e][i].owns /\ flow[e][i].state = "PREPARED"
      BY <1>03, <1>04 DEF Sending
    <2>2. Fresh(e, i)
      BY <2>1, Parts DEF Owned
    <2>3. QED
      BY <2>1, <2>2 DEF Fresh, Sending1
  <1>1. CASE UNCHANGED vars
    BY <1>0, <1>01, <1>1 DEF vars, journalVars, appVars
  <1>2. CASE Edges
    BY <1>0, <1>01, <1>2
       DEF Edges, EnterAction, EnterFork, EnterDispatch, EnterJoin, CutFlow, EnterTerminal,
           MaybeComplete, EnterEach, AdmitItem, Collect, EachFinish, restOfEnter, journalVars, appVars
  <1>3. CASE Started \/ Finish \/ Poll
    BY <1>0, <1>01, <1>3 DEF Started, Finish, Poll, AppendStarted, AppendFinished, journalVars, appVars
  <1>4. CASE MarkSent
    <2>1. PICK e \in Exec, i \in Flow : cur = <<e, i>>
      BY <1>4 DEF MarkSent, IInv, Control, ArenaType
    <2>2. AppendSent(e, dlv[e][i].req) /\ UNCHANGED <<sends, ran>> /\ pc = "sent"
      BY <1>4, <2>1 DEF MarkSent, appVars
    <2>3. IsOpen(e, dlv[e][i].req)
      BY <2>1, <2>2, Parts DEF Served1, Owned
    <2>4. \A f \in Exec, q \in Req :
            jdel'[f][q] = IF f = e /\ q = dlv[e][i].req THEN "sent" ELSE jdel[f][q]
      BY <1>02, <2>2, SentEffect
    <2>5. Verdicts' = Verdicts
      BY <2>3, <2>4, SameVerdicts DEF Outcome, IsOpen
    <2>6. QED
      BY <1>0, <2>2, <2>5
  <1>5. CASE Close
    <2>1. PICK e \in Exec, i \in Flow : cur = <<e, i>>
      BY <1>5 DEF Close, IInv, Control, ArenaType
    <2>2. AppendClosing(e, dlv[e][i].req, verdict) /\ UNCHANGED <<sends, ran>> /\ pc = "closing"
      BY <1>5, <2>1 DEF Close, appVars
    <2>3. dlv[e][i].owns /\ ran[e][dlv[e][i].req] /\ verdict # "none"
      BY <2>1, <2>2, Parts DEF Accepting
    <2>4. IsOpen(e, dlv[e][i].req)
      BY <2>2, <2>3, Parts DEF Owned
    <2>5. verdict \in Outcome /\ verdict # "NotSent"
      BY <1>02, <2>3 DEF LoopType, Outcome
    <2>6. Contract!Next
      BY <1>02, <2>2, <2>3, <2>4, <2>5, SettleIsStep
    <2>7. QED
      BY <2>6
  <1>6. ASSUME NEW e \in Exec, Admit(e) \/ Return(e) PROVE Stutters
    BY <1>01, <1>6 DEF Admit, Return, journalVars, appVars
  <1>7. ASSUME NEW e \in Exec, NEW i \in Flow, Prepare(e, i) PROVE Stutters
    <2>1. /\ AppendPrepared(e, nreq[e]) /\ UNCHANGED <<sends, ran>> /\ pc = "idle"
          /\ e \in used /\ nreq[e] <= MaxReqId
      BY <1>7 DEF Prepare, Preparable, appVars
    <2>2. nreq[e] \in Req
      BY <2>1, JournalAssumption DEF IInv, ArenaType, Req
    <2>3. jdel[e][nreq[e]] = "none"
      BY <2>1, <2>2, Parts DEF Numbered, Req
    <2>4. \A f \in Exec, q \in Req :
            jdel'[f][q] = IF f = e /\ q = nreq[e] THEN "prepared" ELSE jdel[f][q]
      BY <1>02, <2>1, <2>2, PreparedEffect
    <2>5. Verdicts' = Verdicts
      BY <2>3, <2>4, SameVerdicts DEF Outcome
    <2>6. QED
      BY <2>1, <2>5
  <1>8. ASSUME NEW e \in Exec, NEW i \in Flow, Reconcile(e, i) PROVE Stutters \/ Contract!Next
    <2>1. pc = "idle" /\ dlv[e][i].owns
      BY <1>8 DEF Reconcile, Missing
    <2>2. CASE EndDelivery(e, i, "Unknown", "SENT")
      BY <2>1, <2>2, EndIsStep
    <2>3. CASE UNCHANGED <<sends, ran, jdel>>
      BY <1>01, <2>3
    <2>4. QED
      BY <1>8, <2>2, <2>3 DEF Reconcile, journalVars, appVars
  <1>9. ASSUME NEW e \in Exec, NEW i \in Flow,
               Assign(e, i) \/ SendNowhere(e, i) \/ ReceiveNothing(e, i) \/ Accept(e, i)
        PROVE  Stutters
    BY <1>01, <1>9 DEF Assign, SendNowhere, ReceiveNothing, Accept, journalVars, appVars
  <1>10. ASSUME NEW e \in Exec, NEW i \in Flow, Send(e, i) PROVE Contract!Next
    <2> DEFINE r == dlv[e][i].req
    <2>1. jdel[e][r] = "prepared" /\ sends[e][r] = 0 /\ r \in Req
      BY <1>02, <1>04, <1>10 DEF Send
    <2>2. sends' = [sends EXCEPT ![e][r] = 1] /\ UNCHANGED <<ran, jdel>>
      <3>1. sends' = [sends EXCEPT ![e][r] = @ + 1] /\ UNCHANGED <<ran, jdel>>
        BY <1>10 DEF Send, journalVars
      <3>2. QED
        BY <2>1, <3>1
    <2>3. Verdicts[e][r] = "none" /\ Verdicts' = Verdicts
      BY <2>1, <2>2, SameVerdicts DEF Verdicts, Outcome
    <2>4. Contract!Offer(e, r)
      BY <2>1, <2>2, <2>3 DEF Contract!Offer, Verdicts
    <2>5. QED
      BY <2>1, <2>4 DEF Contract!Next
  <1>11. ASSUME NEW e \in Exec, NEW i \in Flow, SendFails(e, i) PROVE Contract!Next
    <2>1. /\ Sending(e, i) /\ pc = "round" /\ First(<<e, i>>)
          /\ EndDelivery(e, i, "NotSent", "PREPARED")
      BY <1>11 DEF SendFails, Sending
    <2>2. dlv[e][i].owns /\ sends[e][dlv[e][i].req] = 0
      BY <1>03, <1>04, <2>1
    <2>3. QED
      BY <2>1, <2>2, EndIsStep
  <1>12. ASSUME NEW e \in Exec, NEW i \in Flow, Lose(e, i) PROVE Contract!Next
    <2>1. pc = "round" /\ First(<<e, i>>) /\ EndDelivery(e, i, "Unknown", "SENT")
      BY <1>12 DEF Lose, Receiving
    <2>2. QED
      BY <1>03, <2>1, EndIsStep
  <1>13. ASSUME NEW e \in Exec, NEW i \in Flow, Reject(e, i) PROVE Contract!Next
    <2>1. PICK j \in Matching(e, ActionAt(e, i), Head(answers[ActionAt(e, i)])) \cup {i} :
            EndDelivery(e, j, "Unknown", "SENT")
      BY <1>13 DEF Reject
    <2>2. pc = "round" /\ First(<<e, i>>)
      BY <1>13 DEF Reject, Receiving
    <2>3. j \in Flow /\ dlv[e][j].owns
      BY <1>03, <2>1, <2>2 DEF Matching
    <2>4. QED
      BY <2>1, <2>2, <2>3, EndIsStep
  <1>14. ASSUME NEW a \in Action, Register(a) \/ AppDies(a) PROVE Stutters
    BY <1>01, <1>14 DEF Register, AppDies, journalVars
  <1>15. ASSUME NEW a \in Action, AppRun(a) PROVE Contract!Next
    <2>1. PICK d \in inbox[a] : ran' = [ran EXCEPT ![d[1]][d[2]] = TRUE]
      BY <1>15 DEF AppRun
    <2>2. UNCHANGED <<sends, jdel>>
      BY <1>15 DEF AppRun, journalVars
    <2>3. d \in Invocation /\ InFlight(d)
      BY <2>1 DEF IInv, WorldType, InFlight
    <2>4. QED
      BY <2>1, <2>2, <2>3, RunIsStep
  <1>16. ASSUME NEW d \in Exec \X Req, AppRunLate(d) PROVE Contract!Next
    <2>1. /\ ran' = [ran EXCEPT ![d[1]][d[2]] = TRUE] /\ UNCHANGED <<sends, jdel>>
          /\ d \in Invocation /\ InFlight(d)
      BY <1>16 DEF AppRunLate, journalVars, Invocation, InFlight
    <2>2. QED
      BY <2>1, RunIsStep
  <1> HIDE DEF Stutters
  <1>17. QED
    BY <1>0, <1>1, <1>2, <1>3, <1>4, <1>5, <1>6, <1>7, <1>8, <1>9, <1>10, <1>11, <1>12, <1>13,
       <1>14, <1>15, <1>16 DEF Next, Served

\* A group without each regions keeps the delivery contract over every graph:
\* nothing is offered or run twice, no delivery is closed twice, and every
\* recorded verdict is true of the app (send_group_invocation,
\* receive_group_result, reconcile_missing_actions).
THEOREM GroupImplementsContract ==
  ASSUME AllOnly
  PROVE  Spec => ImplementsContract
  <1>1. Init => Contract!Init
    BY DEF Init, JournalInit, Contract!Init, Outcome
  <1>2. IInv /\ AInv /\ [Next]_vars => [Contract!Next]_(Contract!contractVars)
    BY StepImplementsContract
  <1>3. QED
    BY <1>1, <1>2, OneOwnerPerAction, PTL DEF Spec, ImplementsContract, Contract!Spec

-----------------------------------------------------------------------------
(* What ends the loop *)

RoundStep(s) == s.op = "edge" /\ <<cur[1], s.i>> \in round => Kind[s.to.node] = "action"

\* An entry of the round whose flow is cut off may see the flow again, but only
\* with a new Action to prepare.
Overtaken ==
  /\ \A x \in round : flow[x[1]][x[2]].state \in {"READY", "PREPARED", "SENT"}
  /\ \A k \in DOMAIN todo : RoundStep(todo[k])

\* The chain goes on with edges that lead the flows of the round to Actions.
LEMMA ChainOfRound ==
  ASSUME todo \in Seq(ChainStep), todo # <<>>, \A k \in DOMAIN todo : RoundStep(todo[k]),
         NEW S, \A s \in S : RoundStep(s), NEW steps \in Seq(S), GoOn(steps), UNCHANGED round
  PROVE  \A k \in DOMAIN todo' : RoundStep(todo[k])'
  <1> DEFINE rest == Tail(todo)
  <1>1. /\ rest \in Seq(ChainStep) /\ Len(rest) = Len(todo) - 1
        /\ \A k \in 1 .. Len(rest) : rest[k] = todo[k + 1]
    OBVIOUS
  <1>2. todo' = steps \o rest /\ UNCHANGED cur
    BY DEF GoOn
  <1>3. \A k \in 1 .. Len(steps) : steps[k] \in S
    OBVIOUS
  <1>4. \A k \in 1 .. Len(rest) : RoundStep(rest[k])
    BY <1>1
  <1> HIDE DEF rest
  <1>5. /\ DOMAIN todo' = 1 .. Len(steps) + Len(rest)
        /\ \A k \in 1 .. Len(steps) + Len(rest) :
             todo'[k] = IF k <= Len(steps) THEN steps[k] ELSE rest[k - Len(steps)]
    <2>1. steps \in Seq(S \cup ChainStep) /\ rest \in Seq(S \cup ChainStep)
      BY <1>1
    <2>2. /\ todo' \in Seq(S \cup ChainStep) /\ Len(todo') = Len(steps) + Len(rest)
          /\ \A k \in 1 .. Len(steps) + Len(rest) :
               todo'[k] = IF k <= Len(steps) THEN steps[k] ELSE rest[k - Len(steps)]
      BY <1>2, <2>1, ConcatProperties
    <2>3. QED
      BY <2>2
  <1>6. ASSUME NEW k \in DOMAIN todo' PROVE RoundStep(todo'[k])
    <2>1. Len(steps) \in Nat /\ Len(rest) \in Nat /\ k \in 1 .. Len(steps) + Len(rest)
      BY <1>1, <1>5
    <2>2. CASE k <= Len(steps)
      BY <1>3, <1>5, <2>1, <2>2
    <2>3. CASE ~(k <= Len(steps))
      <3>1. k - Len(steps) \in 1 .. Len(rest)
        BY <2>1, <2>3
      <3>2. QED
        BY <1>4, <1>5, <2>1, <2>3, <3>1
    <2>4. QED
      BY <2>2, <2>3
  <1>7. QED
    BY <1>2, <1>6 DEF RoundStep

\* The chain of a result leads no flow of the round to a Join: those that wait in
\* one are none of them, and a Fork sends the idle flows it takes to Actions.
LEMMA EdgesOvertaken ==
  ASSUME AllOnly, ForksEnterActions, IInv, Overtaken, Edges PROVE Overtaken'
  <1> DEFINE t == Head(todo)
             e == cur[1]
  <1>0. /\ pc = "enter" /\ UNCHANGED <<round, cur>>
    BY DEF Edges, EnterAction, EnterFork, EnterDispatch, EnterJoin, CutFlow, EnterTerminal,
           MaybeComplete, EnterEach, AdmitItem, Collect, EachFinish, Entering, restOfEnter, GoOn
  <1>1. /\ e \in Exec /\ todo \in Seq(ChainStep) /\ todo # <<>> /\ each[e] \in EachRecord
        /\ t.op = "edge" => t.i \in Flow /\ t.to.node \in Node /\ t.to.tag \in Nat
        /\ flow \in [Exec -> [Flow -> FlowRecord]] /\ flow[e] \in [Flow -> FlowRecord]
        /\ round \subseteq Exec \X Flow
    BY <1>0, ChainHead DEF IInv, ArenaType, LoopType
  <1>2. RoundStep(t)
    <2>1. t = todo[1] /\ 1 \in DOMAIN todo
      BY <1>1
    <2>2. QED
      BY <2>1 DEF Overtaken
  <1>3. t.op = "edge" /\ Kind[t.to.node] # "action" => <<e, t.i>> \notin round
    BY <1>2 DEF RoundStep
  <1>4. \A x \in round : flow[x[1]][x[2]].state \in {"READY", "PREPARED", "SENT"}
    BY DEF Overtaken
  <1>5. \A S : \A steps \in Seq(S) : (\A s \in S : RoundStep(s)) /\ GoOn(steps)
          => \A k \in DOMAIN todo' : RoundStep(todo[k])'
    BY <1>0, <1>1, ChainOfRound DEF Overtaken
  <1>6. GoOn(<<>>) => \A k \in DOMAIN todo' : RoundStep(todo[k])'
    <2> DEFINE steps == <<>>
    <2>1. steps \in Seq({})
      OBVIOUS
    <2> HIDE DEF steps
    <2>2. GoOn(steps) => \A k \in DOMAIN todo' : RoundStep(todo[k])'
      BY <1>5, <2>1
    <2>3. QED
      BY <2>2 DEF steps
  <1>7. GoOn(<<Settle>>) => \A k \in DOMAIN todo' : RoundStep(todo[k])'
    <2> DEFINE steps == <<Settle>>
    <2>1. steps \in Seq({Settle}) /\ \A s \in {Settle} : RoundStep(s)
      BY DEF RoundStep, Settle
    <2> HIDE DEF steps
    <2>2. GoOn(steps) => \A k \in DOMAIN todo' : RoundStep(todo[k])'
      BY <1>5, <2>1
    <2>3. QED
      BY <2>2 DEF steps
  <1>8. ASSUME \A i \in Flow : flow'[e][i].state = flow[e][i].state \/ <<e, i>> \notin round
                               \/ flow'[e][i].state = "READY",
               \A f \in Exec : f # e => flow'[f] = flow[f]
        PROVE  \A x \in round' : flow'[x[1]][x[2]].state \in {"READY", "PREPARED", "SENT"}
    <2> SUFFICES ASSUME NEW x \in round
                 PROVE  flow'[x[1]][x[2]].state \in {"READY", "PREPARED", "SENT"}
      BY <1>0
    <2>1. x[1] \in Exec /\ x[2] \in Flow /\ x = <<x[1], x[2]>>
      BY <1>1
    <2>2. CASE x[1] = e
      BY <1>4, <1>8, <2>1, <2>2
    <2>3. CASE x[1] # e
      BY <1>4, <1>8, <2>1, <2>3
    <2>4. QED
      BY <2>2, <2>3
  <1>9. ~AdmitItem /\ ~Collect /\ ~EachFinish /\ ~EnterEach
    <2>1. each[e].region = "none"
      BY <1>1 DEF EachRecord, AllOnly
    <2>2. QED
      BY <1>1, <2>1 DEF AdmitItem, Collect, EachFinish, EnterEach, Entering, AllOnly
  <1> HIDE DEF e, t
  <1>10. CASE EnterAction
    <2>1. /\ flow' = [flow EXCEPT ![e][t.i] =
                        [@ EXCEPT !.node = t.to.node, !.state = "READY", !.active = TRUE]]
          /\ t.i \in Flow /\ GoOn(<<>>)
      BY <1>1, <1>10 DEF EnterAction, Entering, e, t
    <2>2. /\ \A i \in Flow : flow'[e][i].state = flow[e][i].state \/ flow'[e][i].state = "READY"
          /\ \A f \in Exec : f # e => flow'[f] = flow[f]
      BY <1>1, <2>1 DEF FlowRecord
    <2>3. QED
      BY <1>6, <1>8, <2>1, <2>2 DEF Overtaken
  <1>11. CASE EnterDispatch
    <2>1. /\ flow' = [flow EXCEPT ![e][t.i].node = t.to.node]
          /\ t.i \in Flow /\ t.op = "edge" /\ Kind[t.to.node] = "dispatch"
      BY <1>1, <1>11 DEF EnterDispatch, Entering, e, t
    <2>2. PICK k \in 1 .. Len(Case[t.to.node]) : GoOn(<<Enter(t.i, Case[t.to.node][k], t.o)>>)
      BY <1>11 DEF EnterDispatch, t
    <2> DEFINE s == Enter(t.i, Case[t.to.node][k], t.o)
    <2>3. s.i = t.i
      BY DEF Enter
    <2>4. RoundStep(s)
      BY <1>3, <2>1, <2>3 DEF RoundStep, e
    <2> HIDE DEF s
    <2>5. \A m \in DOMAIN todo' : RoundStep(todo[m])'
      <3> DEFINE steps == <<s>>
      <3>1. steps \in Seq({s}) /\ \A x \in {s} : RoundStep(x)
        BY <2>4
      <3>2. GoOn(steps)
        BY <2>2 DEF s
      <3> HIDE DEF steps
      <3>3. QED
        BY <1>5, <3>1, <3>2
    <2>6. /\ \A i \in Flow : flow'[e][i].state = flow[e][i].state
          /\ \A f \in Exec : f # e => flow'[f] = flow[f]
      BY <1>1, <2>1 DEF FlowRecord
    <2>7. QED
      BY <1>8, <2>5, <2>6 DEF Overtaken
  <1>12. CASE EnterFork
    <2> DEFINE n == t.to.node
               size == Len(Branch[n])
               free == Idle(e) \ {t.i}
               at(k) == IF k = 1 THEN t.i ELSE Lowest(free, k - 1)
               others == {at(k) : k \in 2 .. size}
               fl == [i \in Flow |->
                        IF i = t.i THEN [flow[e][i] EXCEPT !.node = n]
                        ELSE IF i \in others THEN [flow[e][i] EXCEPT !.active = TRUE]
                             ELSE flow[e][i]]
               S == {Enter(at(k), Branch[n][k], "none") : k \in 1 .. size}
               steps == [k \in 1 .. size |-> Enter(at(k), Branch[n][k], "none")]
    <2>1. /\ t.op = "edge" /\ Kind[n] = "fork" /\ flow' = [flow EXCEPT ![e] = fl] /\ GoOn(steps)
      BY <1>12 DEF EnterFork, Entering, e, t
    <2>2. n \in Node /\ size \in Nat
      BY <1>1, <2>1, GroupAssumption
    <2>3. \A k \in 1 .. size : Kind[Branch[n][k].node] = "action"
      BY <2>1, <2>2 DEF ForksEnterActions
    <2> HIDE DEF n, at, others
    <2>4. \A s \in S : RoundStep(s)
      <3>1. ASSUME NEW k \in 1 .. size PROVE RoundStep(Enter(at(k), Branch[n][k], "none"))
        BY <2>3 DEF RoundStep, Enter
      <3>2. QED
        BY <3>1
    <2>5. steps \in Seq(S)
      <3>1. \A k \in 1 .. size : Enter(at(k), Branch[n][k], "none") \in S
        OBVIOUS
      <3> HIDE DEF S, size
      <3>2. QED
        BY <2>2, <3>1
    <2>6. \A k \in DOMAIN todo' : RoundStep(todo[k])'
      <3> HIDE DEF S, steps
      <3>1. QED
        BY <1>5, <2>1, <2>4, <2>5
    <2>7. fl \in [Flow -> FlowRecord] /\ \A i \in Flow : fl[i].state = flow[e][i].state
      BY <1>1, <2>2 DEF FlowRecord
    <2> HIDE DEF fl
    <2>8. /\ \A i \in Flow : flow'[e][i].state = flow[e][i].state
          /\ \A f \in Exec : f # e => flow'[f] = flow[f]
      BY <1>1, <2>1, <2>7
    <2>9. QED
      BY <1>8, <2>6, <2>8 DEF Overtaken
  <1>13. CASE EnterJoin
    <2> DEFINE n == t.to.node
               moved == [flow[e] EXCEPT ![t.i] =
                           [@ EXCEPT !.node = n, !.join = n, !.tag = t.to.tag, !.state = "WAITING"]]
               leave(k) == IF k \in DOMAIN JoinOut[n]
                             THEN Enter(Lowest(Arrived(moved, n, k), 1), JoinOut[n][k], "Success")
                             ELSE Cut(Arrived(moved, n, k))
               all == [k \in 1 .. JoinSize[n] |-> leave(k)]
               S == {leave(k) : k \in 1 .. JoinSize[n]} \cup {Settle}
    <2>1. /\ t.op = "edge" /\ Kind[n] = "join" /\ flow' = [flow EXCEPT ![e] = moved]
          /\ IF Resolved(moved, n) THEN GoOn(Append(all, Settle)) ELSE GoOn(<<Settle>>)
      BY <1>13 DEF EnterJoin, Entering, e, t
    <2>2. n \in Node /\ t.i \in Flow /\ JoinSize[n] \in Nat /\ <<e, t.i>> \notin round
      BY <1>1, <1>3, <2>1, GroupAssumption DEF Flow
    <2>3. \A i \in Flow : i # t.i => moved[i] = flow[e][i]
      BY <1>1
    <2> HIDE DEF n, moved
    <2>4. \A i \in Flow : moved[i].state = "WAITING" => <<e, i>> \notin round
      BY <1>4, <2>2, <2>3
    <2>5. Resolved(moved, n) => \A k \in DOMAIN todo' : RoundStep(todo[k])'
      <3> SUFFICES ASSUME Resolved(moved, n) PROVE \A k \in DOMAIN todo' : RoundStep(todo[k])'
        OBVIOUS
      <3>1. ASSUME NEW k \in 1 .. JoinSize[n] PROVE RoundStep(leave(k))
        <4> DEFINE i == Lowest(Arrived(moved, n, k), 1)
        <4>1. i \in Arrived(moved, n, k)
          <5>1. Arrived(moved, n, k) \in SUBSET Flow /\ Arrived(moved, n, k) # {}
            BY DEF Resolved, Arrived
          <5>2. QED
            BY <5>1, LowestFlow
        <4>2. <<e, i>> \notin round
          BY <2>4, <4>1 DEF Arrived
        <4> HIDE DEF i
        <4>3. RoundStep(Enter(i, JoinOut[n][k], "Success"))
          BY <4>2 DEF RoundStep, Enter, e
        <4>4. RoundStep(Cut(Arrived(moved, n, k)))
          BY DEF RoundStep, Cut
        <4>5. QED
          BY <4>3, <4>4 DEF i
      <3> HIDE DEF leave
      <3>2. \A s \in S : RoundStep(s)
        <4>1. RoundStep(Settle)
          BY DEF RoundStep, Settle
        <4>2. QED
          BY <3>1, <4>1
      <3>3. Append(all, Settle) \in Seq(S)
        <4>1. \A k \in 1 .. JoinSize[n] : leave(k) \in S
          OBVIOUS
        <4>2. Settle \in S
          OBVIOUS
        <4> HIDE DEF S
        <4>3. all \in Seq(S)
          BY <2>2, <4>1
        <4> HIDE DEF all
        <4>4. QED
          BY <4>2, <4>3
      <3> HIDE DEF S, all
      <3>4. QED
        BY <1>5, <2>1, <3>2, <3>3
    <2> HIDE DEF all, S
    <2>6. \A k \in DOMAIN todo' : RoundStep(todo[k])'
      BY <1>7, <2>1, <2>5
    <2>7. /\ \A i \in Flow : flow'[e][i].state = flow[e][i].state \/ <<e, i>> \notin round
          /\ \A f \in Exec : f # e => flow'[f] = flow[f]
      BY <1>1, <2>1, <2>2, <2>3
    <2>8. QED
      BY <1>8, <2>6, <2>7 DEF Overtaken
  <1>14. CASE CutFlow
    <2> DEFINE gone == t.flows
               fl == [i \in Flow |-> IF i \in gone THEN [flow[e][i] EXCEPT !.active = FALSE]
                                     ELSE flow[e][i]]
    <2>1. flow' = [flow EXCEPT ![e] = fl] /\ GoOn(<<>>)
      BY <1>14 DEF CutFlow, e, t
    <2> HIDE DEF gone
    <2>2. fl \in [Flow -> FlowRecord] /\ \A i \in Flow : fl[i].state = flow[e][i].state
      BY <1>1 DEF FlowRecord
    <2> HIDE DEF fl
    <2>3. /\ \A i \in Flow : flow'[e][i].state = flow[e][i].state
          /\ \A f \in Exec : f # e => flow'[f] = flow[f]
      BY <1>1, <2>1, <2>2
    <2>4. QED
      BY <1>6, <1>8, <2>1, <2>3 DEF Overtaken
  <1>15. CASE EnterTerminal
    <2> DEFINE n == t.to.node
               fl == [i \in Flow |->
                        IF i = t.i THEN [flow[e][i] EXCEPT !.active = FALSE, !.node = n]
                        ELSE IF t.o # "Success" /\ flow[e][i].state # "SENT"
                             THEN [flow[e][i] EXCEPT !.active = FALSE] ELSE flow[e][i]]
    <2>1. flow' = [flow EXCEPT ![e] = fl] /\ GoOn(<<Settle>>) /\ n \in Node
      BY <1>1, <1>15 DEF EnterTerminal, Entering, e, t
    <2> HIDE DEF n
    <2>2. fl \in [Flow -> FlowRecord] /\ \A i \in Flow : fl[i].state = flow[e][i].state
      BY <1>1, <2>1 DEF FlowRecord
    <2> HIDE DEF fl
    <2>3. /\ \A i \in Flow : flow'[e][i].state = flow[e][i].state
          /\ \A f \in Exec : f # e => flow'[f] = flow[f]
      BY <1>1, <2>1, <2>2
    <2>4. QED
      BY <1>7, <1>8, <2>1, <2>3 DEF Overtaken
  <1>16. CASE MaybeComplete
    <2>1. UNCHANGED flow /\ GoOn(<<>>)
      BY <1>16 DEF MaybeComplete
    <2>2. QED
      BY <1>6, <1>8, <2>1 DEF Overtaken
  <1>17. QED
    BY <1>9, <1>10, <1>11, <1>12, <1>13, <1>14, <1>15, <1>16 DEF Edges

\* Whatever else the loop does leaves the flows of the round prepared, sent, or
\* ready for other work.
LEMMA OvertakenStep ==
  ASSUME AllOnly, ForksEnterActions, IInv, AInv, Overtaken, [Next]_vars PROVE Overtaken'
  <1>0. /\ LoopType /\ Control /\ ArenaType /\ OneOwner /\ RoundOwns
        /\ pc # "enter" => todo = <<>>
        /\ pc = "idle" => round = {}
    BY DEF IInv, AInv, Control
  <1>01. ASSUME UNCHANGED <<flow, round, todo, cur>> PROVE Overtaken'
    BY <1>01 DEF Overtaken, RoundStep
  <1>02. ASSUME round' \subseteq round, todo' = <<>>,
                \A f \in Exec, j \in Flow : \/ flow'[f][j].state = flow[f][j].state
                                            \/ flow'[f][j].state \in {"PREPARED", "SENT"}
         PROVE  Overtaken'
    BY <1>0, <1>02 DEF Overtaken, LoopType
  <1>03. ASSUME NEW e \in Exec, NEW i \in Flow, NEW to, NEW o, cur' = <<e, i>>,
                todo' = <<Enter(i, to, o)>>, round' \subseteq round, <<e, i>> \notin round',
                UNCHANGED flow
         PROVE  Overtaken'
    <2>1. DOMAIN todo' = {1} /\ todo'[1] = Enter(i, to, o) /\ Enter(i, to, o).i = i /\ cur'[1] = e
      BY <1>03 DEF Enter
    <2>2. \A k \in DOMAIN todo' : RoundStep(todo[k])'
      BY <1>03, <2>1 DEF RoundStep
    <2>3. QED
      BY <1>03, <2>2 DEF Overtaken
  <1>04. ASSUME NEW e \in Exec, NEW i \in Flow, pc \in {"idle", "round"}, NEW o, NEW required,
                EndDelivery(e, i, o, required), round' \subseteq round, <<e, i>> \notin round'
         PROVE  Overtaken'
    <2>1. UNCHANGED flow
      BY <1>04 DEF EndDelivery, runVars
    <2>2. CASE cur' = <<e, i>> /\ todo' = <<Enter(i, End, o)>>
      BY <1>03, <1>04, <2>1, <2>2
    <2>3. CASE UNCHANGED todo
      BY <1>0, <1>02, <1>04, <2>1, <2>3
    <2>4. QED
      BY <1>04, <2>2, <2>3 DEF EndDelivery
  <1>1. CASE UNCHANGED vars
    BY <1>1, <1>01 DEF vars, runVars, pcVars
  <1>2. CASE Edges
    BY <1>2, EdgesOvertaken
  <1>3. CASE Started \/ Finish \/ Close
    <2>1. UNCHANGED <<flow, round, todo>> /\ pc # "enter"
      BY <1>3 DEF Started, Finish, Close, Rest, runVars
    <2>2. QED
      BY <1>0, <1>02, <2>1
  <1>4. CASE MarkSent
    <2>1. PICK e \in Exec, i \in Flow : cur = <<e, i>>
      BY <1>0, <1>4 DEF MarkSent, Control, ArenaType
    <2>2. /\ UNCHANGED <<round, todo>> /\ pc # "enter"
          /\ UNCHANGED flow \/ flow' = [flow EXCEPT ![e][i].state = "SENT"]
      BY <1>4, <2>1 DEF MarkSent, Rest
    <2>3. CASE flow' = [flow EXCEPT ![e][i].state = "SENT"]
      <3>1. \A f \in Exec, j \in Flow : flow'[f][j].state \in {flow[f][j].state, "SENT"}
        BY <1>0, <2>3 DEF ArenaType, FlowRecord
      <3>2. QED
        BY <1>0, <1>02, <2>2, <3>1
    <2>4. CASE UNCHANGED flow
      BY <1>0, <1>02, <2>2, <2>4
    <2>5. QED
      BY <2>2, <2>3, <2>4
  <1>5. CASE Poll
    <2>1. /\ UNCHANGED flow /\ pc # "enter" /\ UNCHANGED todo
          /\ round' \subseteq {x \in Exec \X Flow : Polled(x[1], x[2])}
      BY <1>5 DEF Poll, runVars
    <2>2. \A x \in round' : flow[x[1]][x[2]].state \in {"PREPARED", "SENT"}
      BY <2>1 DEF Polled
    <2>3. QED
      BY <1>0, <2>1, <2>2 DEF Overtaken
  <1>6. ASSUME NEW e \in Exec, Admit(e) \/ Return(e) PROVE Overtaken'
    <2>1. round' = {}
      BY <1>0, <1>6 DEF Admit, Return
    <2>2. QED
      BY <2>1 DEF Overtaken, RoundStep
  <1>7. ASSUME NEW e \in Exec, NEW i \in Flow, Prepare(e, i) \/ Assign(e, i) PROVE Overtaken'
    <2>1. round' = {}
      BY <1>0, <1>7 DEF Prepare, Assign
    <2>2. QED
      BY <2>1 DEF Overtaken, RoundStep
  <1>8. ASSUME NEW e \in Exec, NEW i \in Flow, Reconcile(e, i) PROVE Overtaken'
    <2>1. round' = {}
      BY <1>0, <1>8 DEF Reconcile
    <2>2. QED
      BY <2>1 DEF Overtaken, RoundStep
  <1>9. ASSUME NEW e \in Exec, NEW i \in Flow, Send(e, i) \/ SendNowhere(e, i) \/ ReceiveNothing(e, i)
        PROVE  Overtaken'
    <2>1. UNCHANGED <<flow, todo>> /\ pc # "enter" /\ round' \subseteq round
      BY <1>9 DEF Send, SendNowhere, ReceiveNothing, Sending, Rest, runVars
    <2>2. QED
      BY <1>0, <1>02, <2>1
  <1>10. ASSUME NEW e \in Exec, NEW i \in Flow, SendFails(e, i) \/ Lose(e, i) PROVE Overtaken'
    <2>1. /\ pc = "round" /\ round' = round \ {<<e, i>>}
          /\ EndDelivery(e, i, "NotSent", "PREPARED") \/ EndDelivery(e, i, "Unknown", "SENT")
      BY <1>10 DEF SendFails, Lose, Sending, Receiving
    <2>2. QED
      BY <1>04, <2>1
  <1>11. ASSUME NEW e \in Exec, NEW i \in Flow, Reject(e, i) PROVE Overtaken'
    <2>1. Receiving(e, i) /\ pc = "round" /\ round' = round \ {<<e, i>>}
      BY <1>11 DEF Reject, Receiving
    <2>2. PICK j \in Matching(e, ActionAt(e, i), Head(answers[ActionAt(e, i)])) \cup {i} :
            EndDelivery(e, j, "Unknown", "SENT")
      BY <1>11 DEF Reject
    <2>3. j = i
      BY <1>0, <2>1, <2>2, OwnAnswer
    <2>4. QED
      BY <1>04, <2>1, <2>2, <2>3
  <1>12. ASSUME NEW e \in Exec, NEW i \in Flow, Accept(e, i) PROVE Overtaken'
    <2>1. Receiving(e, i) /\ UNCHANGED flow /\ round' = round \ {<<e, i>>}
      BY <1>12 DEF Accept, runVars
    <2>2. PICK j \in Matching(e, ActionAt(e, i), Head(answers[ActionAt(e, i)])) :
            /\ cur' = <<e, j>>
            /\ todo' = <<Enter(j, ResultEdge(flow[e][j].node, Head(answers[ActionAt(e, i)]).kind),
                               Head(answers[ActionAt(e, i)]).kind)>>
      BY <1>12 DEF Accept
    <2>3. j = i
      BY <1>0, <2>1, <2>2, OwnAnswer
    <2>4. QED
      BY <1>03, <2>1, <2>2, <2>3
  <1>13. ASSUME NEW a \in Action, Register(a) \/ AppRun(a) \/ AppDies(a) PROVE Overtaken'
    BY <1>01, <1>13 DEF Register, AppRun, AppDies, runVars, pcVars
  <1>14. ASSUME NEW d \in Exec \X Req, AppRunLate(d) PROVE Overtaken'
    BY <1>01, <1>14 DEF AppRunLate, runVars, pcVars
  <1>15. QED
    BY <1>1, <1>2, <1>3, <1>4, <1>5, <1>6, <1>7, <1>8, <1>9, <1>10, <1>11, <1>12, <1>13, <1>14
       DEF Next, Served

\* What EndsOnlyOverStaleEntry says of one step.
EndStep ==
  pc # "ended" /\ pc' = "ended" =>
    LET e == cur'[1]
        i == cur'[2]
    IN \/ ~flow[e][i].active \/ flow[e][i].state = "READY"
       \/ jdel[e][dlv[e][i].req] \in Outcome

\* The steps that end the loop: an invocation that was sent for a flow that is cut
\* off, and a delivery that ends without a value under a flow that awaits none.
LEMMA LoopEnds ==
  ASSUME IInv, AInv, Overtaken, Next PROVE EndStep
  <1> SUFFICES ASSUME pc # "ended", pc' = "ended" PROVE EndStep
    BY DEF EndStep
  <1>0. LoopType /\ OneOwner /\ RoundOwns /\ (pc = "enter" => after # "ended")
    BY DEF IInv, AInv, LoopType
  <1>1. ASSUME NEW e \in Exec, NEW i \in Flow, SendFails(e, i) PROVE EndStep
    <2>1. /\ flow[e][i].state = "PREPARED" /\ EndDelivery(e, i, "NotSent", "PREPARED")
      BY <1>1 DEF SendFails, Sending
    <2>2. cur' = <<e, i>> /\ ~(flow[e][i].active /\ flow[e][i].state = "PREPARED")
      BY <2>1 DEF EndDelivery
    <2>3. QED
      BY <2>1, <2>2 DEF EndStep
  <1>2. ASSUME NEW e \in Exec, NEW i \in Flow, Receiving(e, i), EndDelivery(e, i, "Unknown", "SENT")
        PROVE  EndStep
    <2>1. cur' = <<e, i>> /\ ~(flow[e][i].active /\ flow[e][i].state = "SENT")
      BY <1>2 DEF EndDelivery
    <2>2. <<e, i>> \in round /\ flow[e][i].state # "PREPARED"
      BY <1>2 DEF Receiving, First
    <2>3. flow[e][i].state \in {"READY", "SENT"}
      BY <2>2 DEF Overtaken
    <2>4. QED
      BY <2>1, <2>3 DEF EndStep
  <1>3. ASSUME NEW e \in Exec, NEW i \in Flow, Lose(e, i) PROVE EndStep
    BY <1>2, <1>3 DEF Lose
  <1>4. ASSUME NEW e \in Exec, NEW i \in Flow, Reject(e, i) PROVE EndStep
    <2>1. Receiving(e, i)
      BY <1>4 DEF Reject
    <2>2. PICK j \in Matching(e, ActionAt(e, i), Head(answers[ActionAt(e, i)])) \cup {i} :
            EndDelivery(e, j, "Unknown", "SENT")
      BY <1>4 DEF Reject
    <2>3. j = i
      BY <1>0, <2>1, <2>2, OwnAnswer
    <2>4. QED
      BY <1>2, <2>1, <2>2, <2>3
  <1>5. CASE MarkSent
    <2>1. ~flow[cur[1]][cur[2]].active /\ UNCHANGED cur
      BY <1>5 DEF MarkSent, Rest
    <2>2. QED
      BY <2>1 DEF EndStep
  <1>6. ASSUME NEW e \in Exec, NEW i \in Flow, Reconcile(e, i) PROVE FALSE
    BY <1>6 DEF Reconcile, EndDelivery, pcVars
  <1>7. ASSUME NEW e \in Exec, NEW i \in Flow,
               \/ Send(e, i) \/ SendNowhere(e, i) \/ ReceiveNothing(e, i) \/ Accept(e, i)
               \/ Prepare(e, i) \/ Assign(e, i)
        PROVE  FALSE
    BY <1>7 DEF Send, SendNowhere, ReceiveNothing, Accept, Prepare, Assign, Rest, pcVars
  <1>8. ASSUME NEW e \in Exec, Admit(e) \/ Return(e) PROVE FALSE
    BY <1>8 DEF Admit, Return, pcVars
  <1>9. ~(Started \/ Close \/ Finish \/ Poll)
    BY DEF Started, Close, Finish, Poll, Rest
  <1>10. ~Edges
    <2>1. \A steps : GoOn(steps) /\ pc = "enter" => pc' # "ended"
      BY <1>0 DEF GoOn
    <2>2. QED
      BY <2>1 DEF Edges, EnterAction, EnterFork, EnterDispatch, EnterJoin, CutFlow, EnterTerminal,
                  MaybeComplete, EnterEach, AdmitItem, Collect, EachFinish, Entering
  <1>11. ASSUME NEW a \in Action, Register(a) \/ AppRun(a) \/ AppDies(a) PROVE FALSE
    BY <1>11 DEF Register, AppRun, AppDies, pcVars
  <1>12. ASSUME NEW d \in Exec \X Req, AppRunLate(d) PROVE FALSE
    BY <1>12 DEF AppRunLate, pcVars
  <1>13. QED
    BY <1>1, <1>3, <1>4, <1>5, <1>6, <1>7, <1>8, <1>9, <1>10, <1>11, <1>12 DEF Next, Served

\* Without each regions, and when every branch of a Fork begins with an Action, the
\* loop ends with an error only over an entry of the round that an earlier entry has
\* overtaken, never over a flow that still awaits its delivery
\* (hermas_group_mark_sent, group_delivery_outcome).
THEOREM OnlyStaleEntriesEndTheLoop ==
  ASSUME AllOnly, ForksEnterActions
  PROVE  Spec => EndsOnlyOverStaleEntry
  <1>1. Init => Overtaken
    BY DEF Init, Overtaken
  <1>2. IInv /\ AInv /\ Overtaken /\ [Next]_vars => Overtaken'
    BY OvertakenStep
  <1>3. IInv /\ AInv /\ Overtaken /\ [Next]_vars => [EndStep]_vars
    BY LoopEnds
  <1>4. Spec => [](IInv /\ AInv)
    BY OneOwnerPerAction
  <1>5. QED
    BY <1>1, <1>2, <1>3, <1>4, PTL DEF Spec, EndsOnlyOverStaleEntry, EndStep
=============================================================================
