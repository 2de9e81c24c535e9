----------------------------- MODULE GroupLoop -----------------------------
(***************************************************************************)
(* Bounded concurrency inside one execution: the flow arena that runs `all`*)
(* (Fork and Join) and `each` (Collect) graphs (the hermas_group_ functions*)
(* of src/src/runtime.c), and the poll round of the daemon's loop that     *)
(* sends and receives for several flows at once (src/src/loop_linux.c).    *)
(*                                                                         *)
(* A poll fixes which flows it will serve before it serves the first one,  *)
(* so an entry of the round may concern a flow that an earlier entry has   *)
(* cut off or moved on: round and hups are that snapshot.  What a result   *)
(* does to the flows is a chain of edges; todo holds the edges that        *)
(* group_enter_edge and its callees have still to enter, in the order of   *)
(* the recursion.  Nothing outside the daemon happens in between.          *)
(*                                                                         *)
(* Values are left out: which case a Dispatch takes and how long a list is *)
(* are choices.  Kills and restarts are the subject of ForwardLoop.        *)
(***************************************************************************)
EXTENDS Journal, Sequences

CONSTANTS
  Node, Kind,           \* the nodes, each action, fork, join, dispatch, each,
                        \* collect or end
  Action, ActionOf,     \* the Action that an action node invokes
  Input,                \* the target of the input edge
  OnSuccess, OnAppError,\* the target of an Action's success and error edge
  Branch,               \* the targets of a Fork, in branch order
  Case,                 \* the targets of a Dispatch, in case order
  JoinOut,              \* per Join and used tag the target
  JoinSize,             \* number of tags of a Join
  Template, Collected,  \* the item edge and the output edge of an each region
  Concurrency, Bound,   \* its concurrency and the bound of its source list
  MaxFlows,             \* HERMAS_RUNTIME_MAX_FLOWS
  MaxGroups,            \* HERMAS_DAEMON_MAX_GROUP_EXECUTIONS
  MaxAnswers            \* bound: frames queued on one connection

Flow   == 1 .. MaxFlows
Target == [node : Node, tag : 0 .. MaxFlows]

ASSUME GroupAssumption ==
  /\ MaxFlows \in Nat \ {0} /\ MaxGroups \in Nat \ {0} /\ MaxAnswers \in Nat \ {0}
  /\ MaxGroups <= MaxInterrupted /\ MaxFlows <= MaxOpen
  /\ Input \in Target /\ \E n \in Node : Kind[n] = "end"
  /\ \A n \in Node :
       /\ Kind[n] = "action" => /\ ActionOf[n] \in Action
                                /\ OnSuccess[n] \in Target /\ OnAppError[n] \in Target
       /\ Kind[n] = "fork" => Branch[n] \in Seq(Target) /\ Branch[n] # <<>>
       /\ Kind[n] = "dispatch" => Case[n] \in Seq(Target)
       /\ Kind[n] = "join" => JoinSize[n] \in Flow /\ \A k \in DOMAIN JoinOut[n] : JoinOut[n][k] \in Target
       /\ Kind[n] = "each" => /\ Concurrency[n] \in Flow /\ Bound[n] \in Nat
                              /\ Template[n] \in Target /\ Collected[n] \in Target

VARIABLES
  flow,      \* hermas_flow, per execution and index
  dlv,       \* hermas_loop_delivery, per execution and flow index
  used,      \* executions that have a slot and an arena
  nreq,      \* next_request_id
  pending,   \* pending_outcome
  complete,
  each,      \* the active each region: node, coordinator, counters
  route,     \* node and item that a journaled delivery was prepared for
  pc, cur,   \* where the daemon is, for which execution and flow
  verdict,   \* the result that is being accepted
  after,     \* where the daemon goes when todo is done
  todo,      \* edges to enter
  round,     \* entries of the poll round that are still to be served
  hups,      \* those that were reported as hung up
  results,   \* the terminal result store
  fd, inbox, answers, \* as in ForwardLoop
  late,      \* invocations left behind on connections the daemon closed
  sends, ran, told    \* history

runVars  == <<flow, nreq, pending, complete, each>>
pcVars   == <<pc, cur, verdict, after, todo>>
appVars  == <<fd, inbox, late, answers, ran>>
vars == <<journalVars, runVars, dlv, used, route, pcVars, round, hups, results,
          appVars, sends, told>>

Answer    == {"Success", "AppError", "bad"}
NoFlow    == [active |-> FALSE, state |-> "EMPTY", node |-> Input.node, req |-> 0,
              join |-> Input.node, tag |-> 0, region |-> "none", item |-> 0]
NoDlv     == [req |-> 1, node |-> Input.node, owns |-> FALSE]
NoEach    == [region |-> "none", coord |-> 1, count |-> 0, next |-> 0, flush |-> 0]

TypeOK ==
  /\ JournalTypeOK
  /\ \A e \in Exec, i \in Flow :
       /\ flow[e][i].active \in BOOLEAN
       /\ flow[e][i].state \in {"EMPTY", "READY", "PREPARED", "SENT", "WAITING"}
       /\ flow[e][i].node \in Node /\ flow[e][i].req \in 0 .. MaxReqId
       /\ dlv[e][i] \in [req : Req, node : Node, owns : BOOLEAN]
  /\ used \subseteq Exec /\ Cardinality(used) <= MaxGroups
  /\ nreq \in [Exec -> 1 .. MaxReqId + 1]
  /\ pending \in [Exec -> Outcome \cup {"none"}]
  /\ complete \in [Exec -> BOOLEAN]
  /\ pc \in {"idle", "started", "round", "sent", "enter", "closing", "finish", "ended"}
  /\ round \subseteq Exec \X Flow /\ hups \subseteq Exec \X Flow
  /\ results \in [Exec -> {"none", "Success", "AppError"}]
  /\ fd \in [Action -> {"none", "open", "hup"}]
  /\ told \in [Exec -> Outcome \cup {"none"}]

Init ==
  /\ JournalInit
  /\ flow = [e \in Exec |-> [i \in Flow |-> NoFlow]]
  /\ dlv = [e \in Exec |-> [i \in Flow |-> NoDlv]]
  /\ used = {}
  /\ nreq = [e \in Exec |-> 1]
  /\ pending = [e \in Exec |-> "none"]
  /\ complete = [e \in Exec |-> FALSE]
  /\ each = [e \in Exec |-> NoEach]
  /\ route = [e \in Exec |-> [r \in Req |-> <<Input.node, 0>>]]
  /\ pc = "idle" /\ cur = <<0, 0>> /\ verdict = "none" /\ after = "idle"
  /\ todo = <<>> /\ round = {} /\ hups = {}
  /\ results = [e \in Exec |-> "none"]
  /\ fd = [a \in Action |-> "none"]
  /\ inbox = [a \in Action |-> {}]
  /\ answers = [a \in Action |-> <<>>]
  /\ late = {}
  /\ sends = [e \in Exec |-> [r \in Req |-> 0]]
  /\ ran = [e \in Exec |-> [r \in Req |-> FALSE]]
  /\ told = [e \in Exec |-> "none"]

-----------------------------------------------------------------------------
(* The flow arena: hermas_group_ functions.                                *)

Idle(e)  == {i \in Flow : ~flow[e][i].active}
Lowest(S, k) == CHOOSE i \in S : Cardinality({j \in S : j < i}) = k - 1

Enter(i, to, o) == [op |-> "edge", i |-> i, to |-> to, o |-> o]
Cut(S)  == [op |-> "cut", flows |-> S]
Settle  == [op |-> "settle"]
AdmitItems == [op |-> "admit"]
FinishEach == [op |-> "collected"]

\* The chain of edges goes on with these steps, then with what was waiting.
GoOn(steps) ==
  LET next == steps \o Tail(todo) IN
  /\ todo' = next
  /\ pc' = IF next = <<>> THEN after ELSE "enter"
  /\ UNCHANGED <<cur, verdict, after>>

restOfEnter == <<journalVars, dlv, used, nreq, route, round, hups, results, appVars,
                 sends, told>>

\* The edge at the head of todo leads to a node of this kind.
Entering(kind) ==
  /\ pc = "enter" /\ Head(todo).op = "edge"
  /\ Kind[Head(todo).to.node] = kind

\* group_enter_edge, an Action
EnterAction ==
  LET t == Head(todo) IN
  /\ Entering("action")
  /\ flow' = [flow EXCEPT ![cur[1]][t.i] =
                [@ EXCEPT !.node = t.to.node, !.state = "READY", !.active = TRUE]]
  /\ GoOn(<<>>)
  /\ UNCHANGED <<pending, complete, each, restOfEnter>>

\* group_enter_fork: the first branch keeps the flow, the others get idle ones.
\* Only graphs whose branches fit into the arena are instances of this module.
EnterFork ==
  LET t == Head(todo)
      e == cur[1]
      n == t.to.node
      size == Len(Branch[n])
      free == Idle(e) \ {t.i}
      at(k) == IF k = 1 THEN t.i ELSE Lowest(free, k - 1)
      others == {at(k) : k \in 2 .. size}
  IN
  /\ Entering("fork") /\ Cardinality(free) >= size - 1
  /\ flow' = [flow EXCEPT ![e] = [i \in Flow |->
       IF i = t.i THEN [@[i] EXCEPT !.node = n]
       ELSE IF i \in others THEN [@[i] EXCEPT !.active = TRUE] ELSE @[i]]]
  /\ GoOn([k \in 1 .. size |-> Enter(at(k), Branch[n][k], "none")])
  /\ UNCHANGED <<pending, complete, each, restOfEnter>>

\* group_route_dispatch
EnterDispatch ==
  LET t == Head(todo) IN
  /\ Entering("dispatch")
  /\ flow' = [flow EXCEPT ![cur[1]][t.i].node = t.to.node]
  /\ \E k \in 1 .. Len(Case[t.to.node]) : GoOn(<<Enter(t.i, Case[t.to.node][k], t.o)>>)
  /\ UNCHANGED <<pending, complete, each, restOfEnter>>

Arrived(flows, n, k) ==
  {i \in Flow : /\ flows[i].active /\ flows[i].state = "WAITING"
                /\ flows[i].join = n /\ flows[i].tag = k}

ResolvedOnUse(flows, n) == \A k \in DOMAIN JoinOut[n] : Arrived(flows, n, k) # {}

Resolved(flows, n) == \A k \in 1 .. JoinSize[n] : Arrived(flows, n, k) # {}

\* group_enter_edge and group_resolve_join: a flow whose result is used goes on,
\* the others end.
EnterJoin ==
  LET t == Head(todo)
      e == cur[1]
      n == t.to.node
      moved == [flow[e] EXCEPT ![t.i] =
                  [@ EXCEPT !.node = n, !.join = n, !.tag = t.to.tag, !.state = "WAITING"]]
      leave(k) == IF k \in DOMAIN JoinOut[n]
                    THEN Enter(Lowest(Arrived(moved, n, k), 1), JoinOut[n][k], "Success")
                    ELSE Cut(Arrived(moved, n, k))
  IN
  /\ Entering("join")
  /\ flow' = [flow EXCEPT ![e] = moved]
  /\ IF Resolved(moved, n)
       THEN GoOn(Append([k \in 1 .. JoinSize[n] |-> leave(k)], Settle))
       ELSE GoOn(<<Settle>>)
  /\ UNCHANGED <<pending, complete, each, restOfEnter>>

CutFlow ==
  /\ pc = "enter" /\ Head(todo).op = "cut"
  /\ flow' = [flow EXCEPT ![cur[1]] = [i \in Flow |->
       IF i \in Head(todo).flows THEN [@[i] EXCEPT !.active = FALSE] ELSE @[i]]]
  /\ GoOn(<<>>)
  /\ UNCHANGED <<pending, complete, each, restOfEnter>>

RecordedFirst(o, p) == IF p = "none" THEN o ELSE p

\* outcome_precedence of the runtime: the outcome that is kept of two
Recorded(o, p) == IF Precedence(o) > Precedence(p) THEN o ELSE p

\* group_record_terminal: a failure deactivates every flow that is not sent.
EnterTerminal ==
  LET t == Head(todo)
      e == cur[1]
  IN
  /\ Entering("end")
  /\ pending' = [pending EXCEPT ![e] = Recorded(t.o, @)]
  /\ flow' = [flow EXCEPT ![e] = [i \in Flow |->
       IF i = t.i THEN [@[i] EXCEPT !.active = FALSE, !.node = t.to.node]
       ELSE IF t.o # "Success" /\ @[i].state # "SENT"
            THEN [@[i] EXCEPT !.active = FALSE] ELSE @[i]]]
  /\ GoOn(<<Settle>>)
  /\ UNCHANGED <<complete, each, restOfEnter>>

LiveFlows(e) == {i \in Flow : flow[e][i].active}

DoneOnSuccess(e) == pending[e] = "Success" /\ LiveFlows(e) = {}

\* group_has_active, group_has_sent
Done(e) ==
  \/ pending[e] = "Success" /\ LiveFlows(e) = {}
  \/ /\ pending[e] \notin {"none", "Success"}
     /\ \A i \in LiveFlows(e) : flow[e][i].state # "SENT"

\* group_maybe_complete
MaybeComplete ==
  /\ pc = "enter" /\ Head(todo).op = "settle"
  /\ complete' = [complete EXCEPT ![cur[1]] = @ \/ Done(cur[1])]
  /\ GoOn(<<>>)
  /\ UNCHANGED <<flow, pending, each, restOfEnter>>

\* group_each_start: the source flow becomes the coordinator and gives up its
\* place while the items run.
EnterEach ==
  LET t == Head(todo)
      e == cur[1]
  IN
  /\ Entering("each")
  /\ each[e].region = "none"
  /\ \E n \in 0 .. Bound[t.to.node] :
       /\ each' = [each EXCEPT ![e] = [region |-> t.to.node, coord |-> t.i,
                                       count |-> n, next |-> 0, flush |-> 0]]
       /\ GoOn(<<IF n = 0 THEN FinishEach ELSE AdmitItems>>)
  /\ flow' = [flow EXCEPT ![e][t.i] =
                [@ EXCEPT !.active = FALSE, !.region = "none", !.node = t.to.node]]
  /\ UNCHANGED <<pending, complete, restOfEnter>>

InRegion(e) == {i \in Flow : flow[e][i].active /\ flow[e][i].region = each[e].region}

RoomForOneMore(e) == /\ Cardinality(InRegion(e)) <= Concurrency[each[e].region]
                     /\ each[e].next < each[e].count

RoomForItem(e) == /\ Cardinality(InRegion(e)) < Concurrency[each[e].region]
                  /\ each[e].next < each[e].count

\* group_each_admit, one item.  As for a Fork, the items fit into the arena.
AdmitItem ==
  LET e == cur[1]
      s == each[e]
      i == Lowest(Idle(e), 1)
  IN
  /\ pc = "enter" /\ Head(todo).op = "admit" /\ s.region # "none"
  /\ \/ /\ RoomForItem(e) /\ Idle(e) # {}
        /\ flow' = [flow EXCEPT ![e][i] =
                      [@ EXCEPT !.active = TRUE, !.region = s.region, !.item = s.next]]
        /\ each' = [each EXCEPT ![e].next = @ + 1]
        /\ GoOn(<<Enter(i, Template[s.region], "none"), AdmitItems>>)
     \/ /\ ~RoomForItem(e)
        /\ GoOn(<<>>)
        /\ UNCHANGED <<flow, each>>
  /\ UNCHANGED <<pending, complete, restOfEnter>>

AllAdmitted(s, flush) == s.next = s.count

AllCollected(s, flush) == flush = s.count

\* group_each_collect: the finished items are appended in source order.
Collect ==
  LET t == Head(todo)
      e == cur[1]
      s == each[e]
      moved == [flow[e] EXCEPT ![t.i] = [@ EXCEPT !.state = "WAITING", !.node = t.to.node]]
      waits(k) == {i \in Flow : /\ moved[i].active /\ moved[i].region = s.region
                                /\ moved[i].state = "WAITING" /\ moved[i].item = k}
      flushed == {k \in s.flush .. s.count - 1 : \A j \in s.flush .. k : waits(j) # {}}
      gone == UNION {waits(k) : k \in flushed}
      next == s.flush + Cardinality(flushed)
  IN
  /\ Entering("collect") /\ s.region # "none" /\ flow[e][t.i].region = s.region
  /\ flow' = [flow EXCEPT ![e] = [i \in Flow |->
       IF i \in gone THEN [moved[i] EXCEPT !.active = FALSE, !.region = "none"]
       ELSE moved[i]]]
  /\ each' = [each EXCEPT ![e].flush = next]
  /\ GoOn(<<IF AllCollected(s, next) THEN FinishEach ELSE AdmitItems>>)
  /\ UNCHANGED <<pending, complete, restOfEnter>>

\* group_each_finish
EachFinish ==
  LET e == cur[1]
      s == each[e]
  IN
  /\ pc = "enter" /\ Head(todo).op = "collected" /\ s.region # "none"
  /\ flow' = [flow EXCEPT ![e][s.coord] = [@ EXCEPT !.active = TRUE, !.region = "none"]]
  /\ each' = [each EXCEPT ![e].region = "none"]
  /\ GoOn(<<Enter(s.coord, Collected[s.region], "Success")>>)
  /\ UNCHANGED <<pending, complete, restOfEnter>>

-----------------------------------------------------------------------------
(* The loop.                                                               *)

ActionAt(e, i) == ActionOf[dlv[e][i].node]
SameRegion(e, i, j) == flow[e][i].region # "none" /\ flow[e][i].region = flow[e][j].region

\* hermas_daemon_loop_admit: hermas_group_start enters the input edge ...
Admit(e) ==
  /\ pc = "idle"
  /\ e > jlast /\ e \notin used
  /\ Cardinality(used) < MaxGroups
  /\ used' = used \cup {e}
  /\ flow' = [flow EXCEPT ![e] = [i \in Flow |-> [NoFlow EXCEPT !.active = (i = 1)]]]
  /\ pc' = "enter" /\ after' = "started" /\ cur' = <<e, 1>>
  /\ todo' = <<Enter(1, Input, "none")>>
  /\ UNCHANGED <<journalVars, nreq, pending, complete, each, dlv, route, verdict>>
  /\ UNCHANGED <<round, hups, results, appVars, sends, told>>

\* ... and then ExecutionStarted is appended.
Started ==
  /\ pc = "started"
  /\ AppendStarted(cur[1], jtail)
  /\ pc' = "idle"
  /\ UNCHANGED <<runVars, dlv, used, route, cur, verdict, after, todo, round, hups>>
  /\ UNCHANGED <<results, appVars, sends, told>>

\* hermas_group_prepare: one prepared or sent request per Action, except for
\* the items of one each region.
Preparable(e, i) ==
  /\ e \in used /\ ~complete[e]
  /\ flow[e][i].active /\ flow[e][i].state = "READY"
  /\ nreq[e] <= MaxReqId
  /\ \A j \in Flow \ {i} :
       /\ flow[e][j].active /\ flow[e][j].state \in {"PREPARED", "SENT"}
       /\ ActionOf[flow[e][j].node] = ActionOf[flow[e][i].node]
       => SameRegion(e, i, j)

\* prepare_ready
Prepare(e, i) ==
  LET r == nreq[e] IN
  /\ pc = "idle"
  /\ Preparable(e, i) /\ \A j \in 1 .. i - 1 : ~Preparable(e, j)
  /\ AppendPrepared(e, r)
  /\ flow' = [flow EXCEPT ![e][i] = [@ EXCEPT !.state = "PREPARED", !.req = r]]
  /\ dlv' = [dlv EXCEPT ![e][i] = [req |-> r, node |-> flow[e][i].node, owns |-> FALSE]]
  /\ nreq' = [nreq EXCEPT ![e] = r + 1]
  /\ route' = [route EXCEPT ![e][r] = <<flow[e][i].node, flow[e][i].item>>]
  /\ UNCHANGED <<pending, complete, each, used, pcVars, round, hups, results>>
  /\ UNCHANGED <<appVars, sends, told>>

\* drop_action: what the app had not run yet it may still run, unheard.
DropAction(a) ==
  /\ fd' = [fd EXCEPT ![a] = "none"]
  /\ inbox' = [inbox EXCEPT ![a] = {}]
  /\ late' = late \cup inbox[a]
  /\ answers' = [answers EXCEPT ![a] = <<>>]
  /\ UNCHANGED ran

\* A delivery ends without a value: the closing fact, then the flow takes its
\* NotSent or Unknown edge, which enters a terminal.  A flow that is not in the
\* state the runtime requires ends the loop with RUNTIME_ERROR.
End == [node |-> CHOOSE n \in Node : Kind[n] = "end", tag |-> 0]

EndDelivery(e, i, o, required) ==
  /\ AppendClosing(e, dlv[e][i].req, o)
  /\ \/ /\ flow[e][i].active /\ flow[e][i].state = required
        /\ dlv' = [dlv EXCEPT ![e][i].owns = FALSE]
        /\ DropAction(ActionAt(e, i))
        /\ pc' = "enter" /\ after' = "finish" /\ cur' = <<e, i>>
        /\ todo' = <<Enter(i, End, o)>>
     \/ /\ ~(flow[e][i].active /\ flow[e][i].state = required)
        /\ pc' = "ended" /\ cur' = <<e, i>>
        /\ UNCHANGED <<dlv, appVars, after, todo>>
  /\ UNCHANGED <<runVars, used, route, verdict, hups, results, sends, told>>

\* reconcile_missing_actions: the owner of an Action without a descriptor
Missing(e, i) == e \in used /\ dlv[e][i].owns /\ fd[ActionAt(e, i)] = "none"

Reconcile(e, i) ==
  /\ pc = "idle"
  /\ \A f \in Exec, j \in Flow : ~Preparable(f, j)
  /\ Missing(e, i)
  /\ \/ /\ flow[e][i].active /\ flow[e][i].state = "SENT"
        /\ EndDelivery(e, i, "Unknown", "SENT")
     \/ /\ ~(flow[e][i].active /\ flow[e][i].state = "SENT")
        /\ dlv' = [dlv EXCEPT ![e][i].owns = FALSE]
        /\ UNCHANGED <<journalVars, runVars, used, route, pcVars, hups, results>>
        /\ UNCHANGED <<appVars, sends, told>>
  /\ UNCHANGED round

\* action_owned_by_other
OwnedByOther(e, i) ==
  \E f \in used, j \in Flow :
    /\ <<f, j>> # <<e, i>> /\ dlv[f][j].owns /\ ActionAt(f, j) = ActionAt(e, i)
    /\ ~(f = e /\ SameRegion(e, i, j))

Assignable(e, i) ==
  /\ e \in used /\ flow[e][i].active /\ flow[e][i].state = "PREPARED"
  /\ ~dlv[e][i].owns /\ fd[ActionAt(e, i)] # "none" /\ ~OwnedByOther(e, i)

\* assign_available_actions
Assign(e, i) ==
  /\ pc = "idle"
  /\ \A f \in Exec, j \in Flow : ~Preparable(f, j) /\ ~Missing(f, j)
  /\ Assignable(e, i)
  /\ dlv' = [dlv EXCEPT ![e][i].owns = TRUE]
  /\ UNCHANGED <<journalVars, runVars, used, route, pcVars, round, hups, results>>
  /\ UNCHANGED <<appVars, sends, told>>

\* hermas_daemon_loop_poll asks for the flows that own an Action; a socket
\* whose buffer is full is not writable.
Polled(e, i) ==
  /\ e \in used /\ dlv[e][i].owns /\ flow[e][i].active
  /\ fd[ActionAt(e, i)] # "none"
  /\ \/ flow[e][i].state = "PREPARED"
     \/ /\ flow[e][i].state = "SENT"
        /\ answers[ActionAt(e, i)] # <<>> \/ fd[ActionAt(e, i)] = "hup"

Poll ==
  LET ready == {x \in Exec \X Flow : Polled(x[1], x[2])}
      hung  == {x \in ready : fd[ActionAt(x[1], x[2])] = "hup"}
      full  == {x \in ready \ hung : flow[x[1]][x[2]].state = "PREPARED"}
  IN
  /\ pc = "idle"
  /\ \A f \in Exec, j \in Flow : ~Preparable(f, j) /\ ~Missing(f, j) /\ ~Assignable(f, j)
  /\ \E later \in SUBSET full :
       /\ round' = ready \ later /\ round' # {}
       /\ hups' = hung
  /\ pc' = "round"
  /\ UNCHANGED <<journalVars, runVars, dlv, used, route, cur, verdict, after, todo>>
  /\ UNCHANGED <<results, appVars, sends, told>>

\* The entries are served in the order of their slots and flows.
First(x) ==
  /\ x \in round
  /\ \A y \in round : x[1] < y[1] \/ (x[1] = y[1] /\ x[2] <= y[2])

Rest(r) == round' = r /\ pc' = IF r = {} THEN "idle" ELSE "round"

\* The next entry is for a flow that hermas_daemon_loop_poll takes for prepared;
\* it looks at the state of the flow and not at whether it is active.
Sending(e, i) == pc = "round" /\ First(<<e, i>>) /\ flow[e][i].state = "PREPARED"

\* send_group_invocation: the invocation fits into the socket ...
Send(e, i) ==
  LET a == ActionAt(e, i)
      r == dlv[e][i].req
  IN
  /\ Sending(e, i) /\ fd[a] = "open"
  /\ inbox' = [inbox EXCEPT ![a] = @ \cup {<<e, r>>}]
  /\ sends' = [sends EXCEPT ![e][r] = @ + 1]
  /\ pc' = "sent" /\ cur' = <<e, i>> /\ round' = round \ {<<e, i>>}
  /\ UNCHANGED <<journalVars, runVars, dlv, used, route, verdict, after, todo, hups>>
  /\ UNCHANGED <<results, fd, late, answers, ran, told>>

\* ... or the Action lost its descriptor in this round ...
SendNowhere(e, i) ==
  /\ Sending(e, i) /\ fd[ActionAt(e, i)] = "none"
  /\ dlv' = [dlv EXCEPT ![e][i].owns = FALSE]
  /\ Rest(round \ {<<e, i>>})
  /\ UNCHANGED <<journalVars, runVars, used, route, cur, verdict, after, todo, hups>>
  /\ UNCHANGED <<results, appVars, sends, told>>

SendFailsUnknown(e, i) ==
  /\ Sending(e, i) /\ fd[ActionAt(e, i)] = "hup"
  /\ EndDelivery(e, i, "NotSent", "SENT")
  /\ round' = round \ {<<e, i>>}

\* ... or the app has closed its end.
SendFails(e, i) ==
  /\ Sending(e, i) /\ fd[ActionAt(e, i)] = "hup"
  /\ EndDelivery(e, i, "NotSent", "PREPARED")
  /\ round' = round \ {<<e, i>>}

\* DeliverySent and hermas_group_mark_sent
MarkSent ==
  LET e == cur[1]
      i == cur[2]
  IN
  /\ pc = "sent"
  /\ AppendSent(e, dlv[e][i].req)
  /\ \/ /\ flow[e][i].active
        /\ flow' = [flow EXCEPT ![e][i].state = "SENT"]
        /\ Rest(round)
     \/ /\ ~flow[e][i].active
        /\ pc' = "ended" /\ UNCHANGED <<flow, round>>
  /\ UNCHANGED <<nreq, pending, complete, each, dlv, used, route, cur, verdict, after>>
  /\ UNCHANGED <<todo, hups, results, appVars, sends, told>>

\* receive_group_result routes a frame by its request id among the sent flows
\* that own the Action.
Matching(e, a, f) ==
  {j \in Flow : /\ flow[e][j].active /\ flow[e][j].state = "SENT"
                /\ dlv[e][j].owns /\ ActionAt(e, j) = a /\ flow[e][j].req = f.r}

\* The next entry leads to receive_group_result: the flow is sent, or the
\* connection was reported as hung up.
Receiving(e, i) ==
  /\ pc = "round" /\ First(<<e, i>>) /\ flow[e][i].state # "PREPARED"
  /\ flow[e][i].state = "SENT" \/ <<e, i>> \in hups

\* An earlier entry has read the answer, or has moved the flow on.
ReceiveNothing(e, i) ==
  /\ pc = "round" /\ First(<<e, i>>) /\ flow[e][i].state # "PREPARED"
  /\ Receiving(e, i) => answers[ActionAt(e, i)] = <<>> /\ fd[ActionAt(e, i)] = "open"
  /\ Rest(round \ {<<e, i>>})
  /\ UNCHANGED <<journalVars, runVars, dlv, used, route, cur, verdict, after, todo, hups>>
  /\ UNCHANGED <<results, appVars, sends, told>>

LoseAsNotSent(e, i) ==
  /\ Receiving(e, i)
  /\ answers[ActionAt(e, i)] = <<>> /\ fd[ActionAt(e, i)] # "open"
  /\ EndDelivery(e, i, "NotSent", "SENT")
  /\ round' = round \ {<<e, i>>}

\* The connection is gone and there is no answer in it.
Lose(e, i) ==
  /\ Receiving(e, i)
  /\ answers[ActionAt(e, i)] = <<>> /\ fd[ActionAt(e, i)] # "open"
  /\ EndDelivery(e, i, "Unknown", "SENT")
  /\ round' = round \ {<<e, i>>}

\* The frame does not decode, matches no sent flow, or is not accepted.
Reject(e, i) ==
  LET a == ActionAt(e, i)
      f == Head(answers[a])
      m == Matching(e, a, f)
  IN
  /\ Receiving(e, i) /\ answers[a] # <<>>
  /\ \E j \in (IF m = {} THEN {i} ELSE m) \cup (IF f.kind = "bad" THEN {i} ELSE {}) :
       /\ m = {} \/ f.e # e \/ f.kind = "bad"
       /\ EndDelivery(e, j, "Unknown", "SENT")
  /\ round' = round \ {<<e, i>>}

\* hermas_group_accept_result: the edge that a result takes
ResultEdge(n, o) == IF o = "Success" THEN OnSuccess[n] ELSE OnAppError[n]

Accept(e, i) ==
  LET a == ActionAt(e, i)
      f == Head(answers[a])
  IN
  /\ Receiving(e, i) /\ answers[a] # <<>> /\ f.e = e /\ f.kind # "bad"
  /\ \E j \in Matching(e, a, f) :
       /\ cur' = <<e, j>>
       /\ todo' = <<Enter(j, ResultEdge(flow[e][j].node, f.kind), f.kind)>>
  /\ answers' = [answers EXCEPT ![a] = Tail(@)]
  /\ pc' = "enter" /\ after' = "closing" /\ verdict' = f.kind
  /\ round' = round \ {<<e, i>>}
  /\ UNCHANGED <<journalVars, runVars, dlv, used, route, hups, results>>
  /\ UNCHANGED <<fd, inbox, late, ran, sends, told>>

\* The closing fact of an accepted result
Close ==
  LET e == cur[1]
      i == cur[2]
  IN
  /\ pc = "closing"
  /\ AppendClosing(e, dlv[e][i].req, verdict)
  /\ dlv' = [dlv EXCEPT ![e][i].owns = FALSE]
  /\ pc' = "finish"
  /\ UNCHANGED <<runVars, used, route, cur, verdict, after, todo, round, hups, results>>
  /\ UNCHANGED <<appVars, sends, told>>

StoredAny(e) == pending[e]

\* append_result_if_complete: only a typed terminal is stored.
Stored(e) == IF pending[e] \in {"Success", "AppError"} THEN pending[e] ELSE results[e]

\* finish_group_transition: append_result_if_complete, append_finished_if_complete
Finish ==
  LET e == cur[1] IN
  /\ pc = "finish"
  /\ \/ /\ complete[e] /\ jphase[e] = "open"
        /\ results' = [results EXCEPT ![e] = Stored(e)]
        /\ AppendFinished(e, pending[e])
     \/ /\ ~(complete[e] /\ jphase[e] = "open")
        /\ UNCHANGED <<journalVars, results>>
  /\ Rest(round)
  /\ UNCHANGED <<runVars, dlv, used, route, cur, verdict, after, todo, hups>>
  /\ UNCHANGED <<appVars, sends, told>>

\* hermas_daemon_loop_result and hermas_daemon_loop_release
Return(e) ==
  /\ pc = "idle" /\ e \in used /\ complete[e]
  /\ told' = [told EXCEPT ![e] = pending[e]]
  /\ used' = used \ {e}
  /\ flow' = [flow EXCEPT ![e] = [i \in Flow |-> NoFlow]]
  /\ dlv' = [dlv EXCEPT ![e] = [i \in Flow |-> NoDlv]]
  /\ nreq' = [nreq EXCEPT ![e] = 1]
  /\ pending' = [pending EXCEPT ![e] = "none"]
  /\ complete' = [complete EXCEPT ![e] = FALSE]
  /\ each' = [each EXCEPT ![e] = NoEach]
  /\ UNCHANGED <<journalVars, route, pcVars, round, hups, results, appVars, sends>>

-----------------------------------------------------------------------------
(* The apps.                                                               *)

\* flush_acknowledgements: an Action without a descriptor gets one.
Register(a) ==
  /\ pc = "idle" /\ fd[a] = "none"
  /\ fd' = [fd EXCEPT ![a] = "open"]
  /\ UNCHANGED <<journalVars, runVars, dlv, used, route, pcVars, round, hups, results>>
  /\ UNCHANGED <<inbox, late, answers, ran, sends, told>>

\* The app runs an invocation and answers it, well or badly.
AppRun(a) ==
  /\ fd[a] = "open" /\ Len(answers[a]) < MaxAnswers
  /\ \E d \in inbox[a], k \in Answer :
       /\ ran' = [ran EXCEPT ![d[1]][d[2]] = TRUE]
       /\ inbox' = [inbox EXCEPT ![a] = @ \ {d}]
       /\ answers' = [answers EXCEPT ![a] =
                        Append(@, [e |-> d[1], r |-> d[2], kind |-> k])]
  /\ UNCHANGED <<journalVars, runVars, dlv, used, route, pcVars, round, hups, results>>
  /\ UNCHANGED <<fd, late, sends, told>>

\* The app runs an invocation of a connection that is closed by now.
AppRunLate(d) ==
  /\ d \in late
  /\ late' = late \ {d}
  /\ ran' = [ran EXCEPT ![d[1]][d[2]] = TRUE]
  /\ UNCHANGED <<journalVars, runVars, dlv, used, route, pcVars, round, hups, results>>
  /\ UNCHANGED <<fd, inbox, answers, sends, told>>

\* The app closes its end; what it has not run by then it may have run without
\* answering.
AppDies(a) ==
  /\ fd[a] = "open"
  /\ fd' = [fd EXCEPT ![a] = "hup"]
  /\ inbox' = [inbox EXCEPT ![a] = {}]
  /\ late' = late \cup inbox[a]
  /\ UNCHANGED <<journalVars, runVars, dlv, used, route, pcVars, round, hups, results>>
  /\ UNCHANGED <<answers, ran, sends, told>>

-----------------------------------------------------------------------------
Edges ==
  \/ EnterAction \/ EnterFork \/ EnterDispatch \/ EnterJoin \/ CutFlow
  \/ EnterTerminal \/ MaybeComplete \/ EnterEach \/ AdmitItem \/ Collect \/ EachFinish

Served(e, i) ==
  \/ Send(e, i) \/ SendNowhere(e, i) \/ SendFails(e, i)
  \/ ReceiveNothing(e, i) \/ Lose(e, i) \/ Reject(e, i) \/ Accept(e, i)

Next ==
  \/ Edges \/ Started \/ MarkSent \/ Close \/ Finish \/ Poll
  \/ \E e \in Exec :
       \/ Admit(e) \/ Return(e)
       \/ \E i \in Flow : \/ Prepare(e, i) \/ Reconcile(e, i) \/ Assign(e, i)
                          \/ Served(e, i)
  \/ \E a \in Action : Register(a) \/ AppRun(a) \/ AppDies(a)
  \/ \E d \in Exec \X Req : AppRunLate(d)

Spec == Init /\ [][Next]_vars

(***************************************************************************)
(* Fairness.  The daemon's thread takes every step it can take, the control*)
(* server collects what is complete, and the apps register and answer what *)
(* reaches them.                                                           *)
(***************************************************************************)
Fairness ==
  /\ WF_vars(Edges \/ Started \/ MarkSent \/ Close \/ Finish)
  /\ WF_vars(\E e \in Exec, i \in Flow : Served(e, i))
  /\ WF_vars(\E e \in Exec, i \in Flow : Prepare(e, i) \/ Reconcile(e, i) \/ Assign(e, i))
  /\ SF_vars(Poll)
  /\ \A e \in Exec : WF_vars(Return(e))
  /\ \A a \in Action : WF_vars(Register(a)) /\ WF_vars(AppRun(a))

FairSpec == Spec /\ Fairness

-----------------------------------------------------------------------------
(* Properties.                                                             *)

\* Every delivery of a group keeps the delivery contract: offered and run at
\* most once, one verdict, and an honest one (send_group_invocation,
\* receive_group_result, reconcile_missing_actions).
Contract == INSTANCE DeliveryContract WITH
  Executions <- Exec,
  Requests <- Req,
  verdict <- [e \in Exec |-> [r \in Req |->
                IF jdel[e][r] \in Outcome THEN jdel[e][r] ELSE "none"]]

ImplementsContract == Contract!Spec

Succeeded(e, n) == {r \in Req : route[e][r][1] = n /\ jdel[e][r] = "Success"}

\* What follows a Join is prepared only when every Action that enters the Join
\* has succeeded, and once (group_resolve_join).
JoinWaitsForAll ==
  \A e \in Exec, j \in Node : Kind[j] = "join" =>
    \A k \in DOMAIN JoinOut[j] :
      LET next == {r \in Req : jdel[e][r] # "none" /\ route[e][r][1] = JoinOut[j][k].node}
      IN /\ Cardinality(next) <= 1
         /\ next # {} => \A n \in Node : Kind[n] = "action" =>
              (OnSuccess[n].node = j => Succeeded(e, n) # {})

\* What follows an each region is prepared only when every item has succeeded,
\* each in one delivery (group_each_collect, group_each_admit).
CollectIsComplete ==
  \A e \in Exec, g \in Node : Kind[g] = "each" =>
    \A r \in Req : jdel[e][r] # "none" /\ route[e][r][1] = Collected[g].node =>
      LET items == {q \in Req : jdel[e][q] # "none" /\ route[e][q][1] = Template[g].node}
      IN /\ Cardinality(items) = each[e].count \/ e \notin used
         /\ \A q \in items : jdel[e][q] = "Success"
         /\ \A q, p \in items : route[e][q] = route[e][p] => q = p

\* The outcome of a finished group is the strongest of its closing facts
\* (group_record_terminal against outcome_precedence of the journal).
OutcomeIsStrongest ==
  \A e \in Exec : jphase[e] \in Outcome => jphase[e] = jagg[e]

\* "All other same-Action delivery remains single-flight": two sent flows share
\* an Action only within one each region, and no more than its concurrency.  A
\* flow that a chain of edges has taken over is sent only once the chain is done.
SingleFlight ==
  pc # "enter" => \A e, f \in used, i, j \in Flow :
    LET sent(g, k) == flow[g][k].active /\ flow[g][k].state = "SENT" IN
    /\ sent(e, i) /\ sent(f, j) /\ ActionAt(e, i) = ActionAt(f, j) =>
         <<e, i>> = <<f, j>> \/ (e = f /\ SameRegion(e, i, j))
    /\ sent(e, i) /\ flow[e][i].region # "none" =>
         Cardinality({k \in Flow : sent(e, k) /\ SameRegion(e, i, k)})
           <= Concurrency[flow[e][i].region]

\* The loop ends with an error only over an entry of the round that an earlier
\* entry has overtaken: its flow is cut off, has been given other work, or its
\* delivery has been closed (hermas_group_mark_sent, group_delivery_outcome).
EndsOnlyOverStaleEntry ==
  [][pc # "ended" /\ pc' = "ended" =>
       LET e == cur'[1]
           i == cur'[2]
       IN \/ ~flow[e][i].active \/ flow[e][i].state = "READY"
          \/ jdel[e][dlv[e][i].req] \in Outcome]_vars

\* "Appends exactly one closing Action fact": an execution is finished only when
\* every delivery that was prepared has one.
FinishedIsClosed ==
  \A e \in Exec : jphase[e] \in Outcome => OpenOf(e) = {}

\* "Sent work is awaited": a started group reaches its terminal fact unless the
\* loop ends with an error.
EveryGroupEnds ==
  \A e \in Exec : jphase[e] = "open" ~> (jphase[e] \in Outcome \/ pc = "ended")
=============================================================================
