---------------------------- MODULE ForwardLoop ----------------------------
(***************************************************************************)
(* Forward execution of sequential workflows by the daemon: the event loop *)
(* (src/src/loop_linux.c), the runtime of one execution                    *)
(* (src/src/runtime.c), the terminal result store (src/src/result.c), the  *)
(* journal it writes ahead to, and the startup of the host that closes     *)
(* interrupted executions (src/src/host_linux.c, src/src/journal_linux.c). *)
(*                                                                         *)
(* The daemon is one thread, but it can be killed between any two effects  *)
(* that outlive it: a synchronized append, a packet handed to a socket, a  *)
(* result returned to a client.  Each action below makes at most one such  *)
(* effect; pc says where in a handler the daemon is, cur for which         *)
(* execution.  Apps run, answer, die and register in between.              *)
(*                                                                         *)
(* The host polls the loop only in steps that begin with every Action      *)
(* registered, and a step polls several times; the model lets the loop     *)
(* advance whenever the Action it needs is registered, which includes all  *)
(* of those behaviours.  The order of the slots inside one poll is left    *)
(* open for the same reason.                                               *)
(***************************************************************************)
EXTENDS Journal, Sequences

CONSTANTS
  Node,         \* the Action nodes of the graph image
  Action,       \* the (app, action) pairs that register
  ActionOf,     \* the Action a node invokes
  Root,         \* the target of the input edge
  OnSuccess,    \* targets of a node's success edge (several: a Dispatch)
  OnAppError,   \* targets of a node's app-error edge
  Done,         \* a terminal
  MaxSlots,     \* HERMAS_DAEMON_MAX_EXECUTIONS
  MaxAnswers,   \* bound: frames queued on one connection
  MaxFaults     \* bound: how often the daemon is killed or an append fails
                \* without ending it

ASSUME LoopAssumption ==
  /\ Done \notin Node
  /\ Root \in Node
  /\ ActionOf \in [Node -> Action]
  /\ OnSuccess \in [Node -> SUBSET (Node \cup {Done}) \ {{}}]
  /\ OnAppError \in [Node -> SUBSET (Node \cup {Done}) \ {{}}]
  /\ MaxSlots \in Nat \ {0} /\ MaxSlots <= MaxInterrupted
  /\ MaxAnswers \in Nat \ {0}
  /\ MaxFaults \in Nat

VARIABLES
  state,     \* hermas_execution.state; EMPTY also when no slot is active
  node,      \* current_node
  req,       \* request_id
  owns,      \* owns_action of the slot
  outcome,   \* terminal_outcome
  floor,     \* minimum_execution_id
  pc, cur,   \* where the daemon is
  results,   \* the terminal result store (durable)
  fd,        \* the registry: no descriptor, connected, or peer gone (hup)
  inbox,     \* invocations the app has not run yet, on its live connection
  orphans,   \* invocations left behind on connections the daemon closed
  answers,   \* frames queued towards the daemon
  sends, ran,\* history: deliveries made, deliveries run
  told,      \* history: the outcome returned to the client
  crashes,   \* how often the daemon was killed
  errors     \* how often an append failed and the daemon went on

loopVars  == <<state, node, req, owns, outcome, floor, pc, cur>>
appVars   == <<fd, inbox, orphans, answers, ran>>
histVars  == <<sends, told, crashes, errors>>
vars == <<journalVars, loopVars, appVars, histVars, results>>

RunState == {"EMPTY", "READY", "PREPARED", "SENT", "COMPLETE"}
Answer   == {"Success", "AppError", "bad"}
Frame    == [e : Exec, r : Req, kind : Answer]

LoopTypeOK ==
  /\ state \in [Exec -> RunState]
  /\ node \in [Exec -> Node]
  /\ req \in [Exec -> Req]
  /\ owns \in [Exec -> BOOLEAN]
  /\ outcome \in [Exec -> Outcome \cup {"none"}]
  /\ floor \in 0 .. MaxExecId
  /\ pc \in {"down", "refused", "close", "idle", "sent", "store", "finish"}
  /\ cur \in Exec \cup {0}
  /\ results \in [Exec -> {"none", "Success", "AppError"}]

AppTypeOK ==
  /\ fd \in [Action -> {"none", "open", "hup"}]
  /\ inbox \in [Action -> SUBSET (Exec \X Req)]
  /\ orphans \in [Action -> SUBSET (Exec \X Req)]
  /\ answers \in [Action -> Seq(Frame)]
  /\ ran \in [Exec -> [Req -> BOOLEAN]]

TypeOK ==
  /\ JournalTypeOK
  /\ LoopTypeOK
  /\ AppTypeOK
  /\ sends \in [Exec -> [Req -> Nat]]
  /\ told \in [Exec -> Outcome \cup {"none"}]
  /\ crashes \in Nat
  /\ errors \in Nat

Init ==
  /\ JournalInit
  /\ state = [e \in Exec |-> "EMPTY"]
  /\ node = [e \in Exec |-> Root]
  /\ req = [e \in Exec |-> 1]
  /\ owns = [e \in Exec |-> FALSE]
  /\ outcome = [e \in Exec |-> "none"]
  /\ floor = 0
  /\ pc = "down" /\ cur = 0
  /\ results = [e \in Exec |-> "none"]
  /\ fd = [a \in Action |-> "none"]
  /\ inbox = [a \in Action |-> {}]
  /\ orphans = [a \in Action |-> {}]
  /\ answers = [a \in Action |-> <<>>]
  /\ sends = [e \in Exec |-> [r \in Req |-> 0]]
  /\ ran = [e \in Exec |-> [r \in Req |-> FALSE]]
  /\ told = [e \in Exec |-> "none"]
  /\ crashes = 0
  /\ errors = 0

-----------------------------------------------------------------------------
(* The loop.                                                               *)

Active       == {e \in Exec : state[e] # "EMPTY"}
ActionFor(e) == ActionOf[node[e]]

\* action_owned_by_other
OwnedByOther(e) ==
  \E f \in Exec \ {e} : owns[f] /\ ActionFor(f) = ActionFor(e)

\* drop_action: the daemon closes the connection; what the app had queued on
\* it can still be run, what it had answered is gone.
DropAction(a) ==
  /\ fd' = [fd EXCEPT ![a] = "none"]
  /\ inbox' = [inbox EXCEPT ![a] = {}]
  /\ orphans' = [orphans EXCEPT ![a] = @ \cup inbox[a]]
  /\ answers' = [answers EXCEPT ![a] = <<>>]
  /\ UNCHANGED ran

\* Mutation of Admit: the id is not compared with the floor.
AdmitAnyId(e) ==
  /\ pc = "idle" /\ state[e] = "EMPTY" /\ Cardinality(Active) < MaxSlots
  /\ AppendStarted(e, jtail)
  /\ state' = [state EXCEPT ![e] = "READY"]
  /\ node' = [node EXCEPT ![e] = Root]
  /\ req' = [req EXCEPT ![e] = 1]
  /\ floor' = e + 1
  /\ UNCHANGED <<owns, outcome, pc, cur, results, appVars, histVars>>

\* hermas_daemon_loop_admit with hermas_execution_start
Admit(e) ==
  /\ pc = "idle"
  /\ e >= floor
  /\ state[e] = "EMPTY"
  /\ Cardinality(Active) < MaxSlots
  /\ AppendStarted(e, jtail)
  /\ state' = [state EXCEPT ![e] = "READY"]
  /\ node' = [node EXCEPT ![e] = Root]
  /\ req' = [req EXCEPT ![e] = 1]
  /\ floor' = e + 1
  /\ UNCHANGED <<owns, outcome, pc, cur, results, appVars, histVars>>

\* The append of ExecutionStarted fails: hermas_control_submit rejects the
\* client and the daemon goes on.  Nothing, a part of the record or all of it
\* is in the file; the floor and the slot are as before.
AdmitFails(e) ==
  /\ pc = "idle"
  /\ e >= floor
  /\ state[e] = "EMPTY"
  /\ Cardinality(Active) < MaxSlots
  /\ crashes + errors < MaxFaults
  /\ errors' = errors + 1
  /\ \/ UNCHANGED journalVars
     \/ jtail' = "torn" /\ UNCHANGED <<jok, jlast, jphase, jdel, jhi, jagg>>
     \/ AppendStarted(e, "unsynced")
  /\ UNCHANGED <<loopVars, results, appVars, sends, told, crashes>>

\* prepare_ready with hermas_execution_prepare
Prepare(e) ==
  /\ pc = "idle"
  /\ state[e] = "READY"
  /\ AppendPrepared(e, req[e])
  /\ state' = [state EXCEPT ![e] = "PREPARED"]
  /\ UNCHANGED <<node, req, owns, outcome, floor, pc, cur, results>>
  /\ UNCHANGED <<appVars, histVars>>

\* Mutation of Assign: an Action that another slot owns is assigned again.
AssignShared(e) ==
  /\ pc = "idle"
  /\ state[e] = "PREPARED" /\ ~owns[e] /\ fd[ActionFor(e)] # "none"
  /\ owns' = [owns EXCEPT ![e] = TRUE]
  /\ UNCHANGED <<journalVars, state, node, req, outcome, floor, pc, cur>>
  /\ UNCHANGED <<results, appVars, histVars>>

\* assign_available_actions
Assign(e) ==
  /\ pc = "idle"
  /\ state[e] = "PREPARED" /\ ~owns[e]
  /\ fd[ActionFor(e)] # "none"
  /\ ~OwnedByOther(e)
  /\ owns' = [owns EXCEPT ![e] = TRUE]
  /\ UNCHANGED <<journalVars, state, node, req, outcome, floor, pc, cur>>
  /\ UNCHANGED <<results, appVars, histVars>>

\* send_invocation, the packet is handed over
Send(e) ==
  /\ pc = "idle"
  /\ state[e] = "PREPARED" /\ owns[e]
  /\ fd[ActionFor(e)] = "open"
  /\ inbox' = [inbox EXCEPT ![ActionFor(e)] = @ \cup {<<e, req[e]>>}]
  /\ sends' = [sends EXCEPT ![e][req[e]] = @ + 1]
  /\ pc' = "sent" /\ cur' = e
  /\ UNCHANGED <<journalVars, state, node, req, owns, outcome, floor>>
  /\ UNCHANGED <<results, fd, orphans, answers, ran, told, crashes, errors>>

\* Mutation of MarkSent: DeliverySent is not appended.
MarkSentUnlogged ==
  /\ pc = "sent"
  /\ state' = [state EXCEPT ![cur] = "SENT"]
  /\ pc' = "idle" /\ cur' = 0
  /\ UNCHANGED <<journalVars, node, req, owns, outcome, floor, results>>
  /\ UNCHANGED <<appVars, histVars>>

\* send_invocation, DeliverySent and hermas_execution_mark_sent
MarkSent ==
  /\ pc = "sent"
  /\ AppendSent(cur, req[cur])
  /\ state' = [state EXCEPT ![cur] = "SENT"]
  /\ pc' = "idle" /\ cur' = 0
  /\ UNCHANGED <<node, req, owns, outcome, floor, results>>
  /\ UNCHANGED <<appVars, histVars>>

\* Mutations of EndWithoutValue: a result is stored although there is none; the
\* slot keeps the Action whose connection is dropped.
EndStoringResult(e, o) ==
  /\ AppendClosing(e, req[e], o)
  /\ state' = [state EXCEPT ![e] = "COMPLETE"]
  /\ outcome' = [outcome EXCEPT ![e] = o]
  /\ owns' = [owns EXCEPT ![e] = FALSE]
  /\ DropAction(ActionFor(e))
  /\ pc' = "store" /\ cur' = e
  /\ UNCHANGED <<node, req, floor, results, histVars>>

EndStillOwning(e, o) ==
  /\ AppendClosing(e, req[e], o)
  /\ state' = [state EXCEPT ![e] = "COMPLETE"]
  /\ outcome' = [outcome EXCEPT ![e] = o]
  /\ DropAction(ActionFor(e))
  /\ pc' = "finish" /\ cur' = e
  /\ UNCHANGED <<node, req, owns, floor, results, histVars>>

\* The execution ends with a delivery fact that carries no value:
\* finish_delivery_outcome, then drop_action.
EndWithoutValue(e, o) ==
  /\ AppendClosing(e, req[e], o)
  /\ state' = [state EXCEPT ![e] = "COMPLETE"]
  /\ outcome' = [outcome EXCEPT ![e] = o]
  /\ owns' = [owns EXCEPT ![e] = FALSE]
  /\ DropAction(ActionFor(e))
  /\ pc' = "finish" /\ cur' = e
  /\ UNCHANGED <<node, req, floor, results, histVars>>

\* send_invocation, send() fails for good (hermas_execution_mark_not_sent)
SendFails(e) ==
  /\ pc = "idle"
  /\ state[e] = "PREPARED" /\ owns[e]
  /\ fd[ActionFor(e)] # "none"
  /\ EndWithoutValue(e, "NotSent")

\* The target of a result that accept_result takes.
Targets(e, kind) ==
  IF kind = "Success" THEN OnSuccess[node[e]] ELSE OnAppError[node[e]]

\* hermas_execution_accept_result: identities match, the value is valid, and
\* a further request id exists when the edge leads to an Action or Dispatch.
Acceptable(e, f) ==
  /\ f.e = e /\ f.r = req[e] /\ f.kind # "bad"
  /\ Targets(e, f.kind) # {Done} => req[e] < MaxReqId

\* receive_result, a valid result
Accept(e) ==
  LET a == ActionFor(e)
      f == Head(answers[a])
  IN
  /\ pc = "idle"
  /\ state[e] = "SENT" /\ owns[e]
  /\ answers[a] # <<>>
  /\ Acceptable(e, f)
  /\ AppendClosing(e, req[e], f.kind)
  /\ answers' = [answers EXCEPT ![a] = Tail(@)]
  /\ owns' = [owns EXCEPT ![e] = FALSE]
  /\ \E t \in Targets(e, f.kind) :
       \/ /\ t = Done
          /\ state' = [state EXCEPT ![e] = "COMPLETE"]
          /\ outcome' = [outcome EXCEPT ![e] = f.kind]
          /\ pc' = "store" /\ cur' = e
          /\ UNCHANGED <<node, req>>
       \/ /\ t # Done
          /\ state' = [state EXCEPT ![e] = "READY"]
          /\ node' = [node EXCEPT ![e] = t]
          /\ req' = [req EXCEPT ![e] = @ + 1]
          /\ UNCHANGED <<outcome, pc, cur>>
  /\ UNCHANGED <<floor, results, fd, inbox, orphans, ran, histVars>>

\* Mutation of Reject: the lost answer is taken for an invocation that never left.
RejectAsNotSent(e) ==
  LET a == ActionFor(e) IN
  /\ pc = "idle"
  /\ state[e] = "SENT" /\ owns[e]
  /\ IF answers[a] = <<>> THEN fd[a] = "hup" ELSE ~Acceptable(e, Head(answers[a]))
  /\ EndWithoutValue(e, "NotSent")

\* receive_result, end of file or a frame that is not the awaited result
\* (hermas_execution_mark_unknown)
Reject(e) ==
  LET a == ActionFor(e) IN
  /\ pc = "idle"
  /\ state[e] = "SENT" /\ owns[e]
  /\ IF answers[a] = <<>> THEN fd[a] = "hup" ELSE ~Acceptable(e, Head(answers[a]))
  /\ EndWithoutValue(e, "Unknown")

\* Mutation of StoreResult: the value is not stored.
StoreNothing ==
  /\ pc = "store"
  /\ pc' = "finish"
  /\ UNCHANGED <<journalVars, results, state, node, req, owns, outcome, floor, cur>>
  /\ UNCHANGED <<appVars, histVars>>

\* append_result_if_complete
StoreResult ==
  /\ pc = "store"
  /\ results' = [results EXCEPT ![cur] = outcome[cur]]
  /\ pc' = "finish"
  /\ UNCHANGED <<journalVars, state, node, req, owns, outcome, floor, cur>>
  /\ UNCHANGED <<appVars, histVars>>

\* append_finished_if_complete
Finish ==
  /\ pc = "finish"
  /\ AppendFinished(cur, outcome[cur])
  /\ pc' = "idle" /\ cur' = 0
  /\ UNCHANGED <<state, node, req, owns, outcome, floor, results>>
  /\ UNCHANGED <<appVars, histVars>>

\* hermas_daemon_loop_result and hermas_daemon_loop_release: the control
\* server returns the result, or finds its client gone.
Return(e) ==
  /\ pc = "idle"
  /\ state[e] = "COMPLETE"
  /\ \/ told' = [told EXCEPT ![e] = outcome[e]]
     \/ UNCHANGED told
  /\ state' = [state EXCEPT ![e] = "EMPTY"]
  /\ outcome' = [outcome EXCEPT ![e] = "none"]
  /\ UNCHANGED <<journalVars, node, req, owns, floor, pc, cur>>
  /\ UNCHANGED <<results, appVars, sends, crashes, errors>>

-----------------------------------------------------------------------------
(* Crash and startup.                                                      *)

Crash ==
  /\ pc \notin {"down", "refused"}
  /\ crashes + errors < MaxFaults
  /\ crashes' = crashes + 1
  /\ \/ jtail' = "torn"          \* killed within an append
     \/ UNCHANGED jtail
  /\ state' = [e \in Exec |-> "EMPTY"]
  /\ node' = [e \in Exec |-> Root]
  /\ req' = [e \in Exec |-> 1]
  /\ owns' = [e \in Exec |-> FALSE]
  /\ outcome' = [e \in Exec |-> "none"]
  /\ floor' = 0
  /\ pc' = "down" /\ cur' = 0
  /\ fd' = [a \in Action |-> "none"]
  /\ inbox' = [a \in Action |-> {}]
  /\ orphans' = [a \in Action |-> orphans[a] \cup inbox[a]]
  /\ answers' = [a \in Action |-> <<>>]
  /\ UNCHANGED <<jok, jlast, jphase, jdel, jhi, jagg>>
  /\ UNCHANGED <<results, ran, sends, told, errors>>

\* hermas_journal_file_open scans the whole file or refuses it.
Open ==
  /\ pc = "down"
  /\ \/ jok /\ jtail # "torn" /\ jtail' = "whole" /\ pc' = "close"
     \/ ~(jok /\ jtail # "torn") /\ pc' = "refused" /\ UNCHANGED jtail
  /\ UNCHANGED <<jok, jlast, jphase, jdel, jhi, jagg>>
  /\ UNCHANGED <<state, node, req, owns, outcome, floor, cur>>
  /\ UNCHANGED <<results, appVars, histVars>>

\* hermas_journal_file_close_interrupted, one interrupted execution after the
\* other: ActionUnknown for each open delivery, then ExecutionFinished.
CloseDelivery(e, r) ==
  /\ pc = "close" /\ cur \in {0, e}
  /\ jphase[e] = "open" /\ IsOpen(e, r)
  /\ AppendClosing(e, r, "Unknown")
  /\ cur' = e
  /\ UNCHANGED <<state, node, req, owns, outcome, floor, pc>>
  /\ UNCHANGED <<results, appVars, histVars>>

\* Mutations of CloseExecution: it closes executions that have a terminal fact;
\* it does not wait for the facts of the open deliveries.
CloseAgain(e) ==
  /\ pc = "close" /\ cur \in {0, e}
  /\ jphase[e] \notin {"absent", "Unknown"} /\ OpenOf(e) = {}
  /\ AppendFinished(e, "Unknown")
  /\ cur' = 0
  /\ UNCHANGED <<state, node, req, owns, outcome, floor, pc>>
  /\ UNCHANGED <<results, appVars, histVars>>

CloseWithOpenDelivery(e) ==
  /\ pc = "close" /\ cur \in {0, e}
  /\ jphase[e] = "open"
  /\ AppendFinished(e, "Unknown")
  /\ cur' = 0
  /\ UNCHANGED <<state, node, req, owns, outcome, floor, pc>>
  /\ UNCHANGED <<results, appVars, histVars>>

CloseExecution(e) ==
  /\ pc = "close" /\ cur \in {0, e}
  /\ jphase[e] = "open" /\ OpenOf(e) = {}
  /\ AppendFinished(e, "Unknown")
  /\ cur' = 0
  /\ UNCHANGED <<state, node, req, owns, outcome, floor, pc>>
  /\ UNCHANGED <<results, appVars, histVars>>

\* Mutation of Serve: the loop starts before the interrupted executions are closed.
ServeEarly ==
  /\ pc = "close"
  /\ floor' = jlast + 1
  /\ pc' = "idle"
  /\ UNCHANGED <<journalVars, state, node, req, owns, outcome, cur>>
  /\ UNCHANGED <<results, appVars, histVars>>

\* restore_startup_state is done; hermas_daemon_loop_set_execution_floor
Serve ==
  /\ pc = "close"
  /\ Unfinished = {}
  /\ floor' = jlast + 1
  /\ pc' = "idle"
  /\ UNCHANGED <<journalVars, state, node, req, owns, outcome, cur>>
  /\ UNCHANGED <<results, appVars, histVars>>

-----------------------------------------------------------------------------
(* The apps.                                                               *)

\* flush_acknowledgements: an Action without a descriptor gets one.
Register(a) ==
  /\ pc = "idle"
  /\ fd[a] = "none"
  /\ fd' = [fd EXCEPT ![a] = "open"]
  /\ UNCHANGED <<journalVars, loopVars, results, histVars>>
  /\ UNCHANGED <<inbox, orphans, answers, ran>>

\* The app runs an invocation and answers it, well or badly.
AppRun(a) ==
  /\ fd[a] = "open" /\ Len(answers[a]) < MaxAnswers
  /\ \E d \in inbox[a], k \in Answer :
       /\ ran' = [ran EXCEPT ![d[1]][d[2]] = TRUE]
       /\ inbox' = [inbox EXCEPT ![a] = @ \ {d}]
       /\ answers' = [answers EXCEPT ![a] =
                        Append(@, [e |-> d[1], r |-> d[2], kind |-> k])]
  /\ UNCHANGED <<journalVars, loopVars, results, histVars, fd, orphans>>

\* The app sends the frame it last queued once more.
AppRepeat(a) ==
  /\ fd[a] = "open"
  /\ Len(answers[a]) > 0 /\ Len(answers[a]) < MaxAnswers
  /\ answers' = [answers EXCEPT ![a] = Append(@, @[Len(@)])]
  /\ UNCHANGED <<journalVars, loopVars, results, histVars>>
  /\ UNCHANGED <<fd, inbox, orphans, ran>>

\* The app runs an invocation of a connection that is closed by now.
AppRunOrphan(a) ==
  /\ \E d \in orphans[a] :
       /\ ran' = [ran EXCEPT ![d[1]][d[2]] = TRUE]
       /\ orphans' = [orphans EXCEPT ![a] = @ \ {d}]
  /\ UNCHANGED <<journalVars, loopVars, results, histVars>>
  /\ UNCHANGED <<fd, inbox, answers>>

\* The app closes its end; what it has not run by then it may have run
\* without answering.
AppDies(a) ==
  /\ fd[a] = "open"
  /\ fd' = [fd EXCEPT ![a] = "hup"]
  /\ inbox' = [inbox EXCEPT ![a] = {}]
  /\ \/ UNCHANGED ran
     \/ \E d \in inbox[a] : ran' = [ran EXCEPT ![d[1]][d[2]] = TRUE]
  /\ UNCHANGED <<journalVars, loopVars, results, histVars>>
  /\ UNCHANGED <<orphans, answers>>

-----------------------------------------------------------------------------
Next ==
  \/ \E e \in Exec :
       \/ Admit(e) \/ AdmitFails(e) \/ Prepare(e) \/ Assign(e) \/ Send(e) \/ SendFails(e)
       \/ Accept(e) \/ Reject(e) \/ Return(e) \/ CloseExecution(e)
       \/ \E r \in Req : CloseDelivery(e, r)
  \/ MarkSent \/ StoreResult \/ Finish
  \/ Crash \/ Open \/ Serve
  \/ \E a \in Action :
       Register(a) \/ AppRun(a) \/ AppRepeat(a) \/ AppRunOrphan(a) \/ AppDies(a)

Spec == Init /\ [][Next]_vars

(***************************************************************************)
(* Fairness.  The daemon's single thread runs as long as it is not killed: *)
(* every step it can take forever it takes.  A supervisor restarts it.  Of *)
(* the apps it is assumed that they register and answer or die: the loop   *)
(* has no deadline of its own and waits for a silent app forever.          *)
(***************************************************************************)
Fairness ==
  /\ WF_vars(MarkSent \/ StoreResult \/ Finish)
  /\ WF_vars(Open \/ Serve)
  /\ \A e \in Exec :
       /\ WF_vars(\/ Prepare(e) \/ Assign(e) \/ Send(e) \/ SendFails(e)
                  \/ Accept(e) \/ Reject(e))
       /\ WF_vars(CloseExecution(e) \/ \E r \in Req : CloseDelivery(e, r))
  /\ \A a \in Action : WF_vars(Register(a)) /\ WF_vars(AppRun(a))

FairSpec == Spec /\ Fairness

-----------------------------------------------------------------------------
(* Properties.                                                             *)

\* The daemon, its crashes and its restarts implement the delivery contract:
\* no invocation is offered or run twice, no verdict is revised, and NotSent,
\* Success and AppError are true of what the app saw (send_invocation,
\* receive_result, close_interrupted).
Contract == INSTANCE DeliveryContract WITH
  Executions <- Exec,
  Requests <- Req,
  verdict <- [e \in Exec |-> [r \in Req |->
                IF jdel[e][r] \in Outcome THEN jdel[e][r] ELSE "none"]]

ImplementsContract == Contract!Spec

Serving == pc \in {"idle", "sent", "store", "finish"}

\* The execution went on after an app error, over an app-error edge that enters a
\* recovery Action.
Recovered(e) == \E r \in Req : r < req[e] /\ jdel[e][r] = "AppError"

\* Of what the loop appends while it serves, the scan of the next startup refuses
\* only what follows a failed append of ExecutionStarted in the same life of the
\* daemon, and the ExecutionFinished of an execution that recovered from an app
\* error and ended in an outcome that the scan ranks below it.  Otherwise ids grow
\* across restarts, request ids grow, every fact finds its delivery in the right
\* state, and ExecutionFinished states the aggregate of the closing facts.
LiveRefusalHasCause ==
  [][Serving /\ jok /\ ~jok' =>
       \/ jtail # "whole" /\ errors > 0
       \/ /\ pc = "finish" /\ Recovered(cur)
          /\ outcome[cur] \in {"Success", "NotSent"}]_vars

\* "A failure to append or synchronize is fatal to loop progress": after an append
\* that failed the loop does not go on, and no record follows the one that failed.
AppendFailureIsFatal ==
  [][Serving /\ jtail # "whole" =>
       pc' = "down" \/ UNCHANGED <<journalVars, loopVars>>]_vars

\* Startup never turns a journal that it accepted into one that it refuses.
RecoveryAppendsReadable == [][pc = "close" /\ jok => jok']_vars

\* The only record of startup that the scan refuses is the Unknown terminal of
\* an execution whose closing facts aggregate to a known outcome.
RecoveryRefusedOnlyIfKnown ==
  [][pc = "close" /\ jok /\ ~jok' =>
       \E e \in Exec : /\ jphase[e] = "open" /\ jphase'[e] = "Unknown"
                       /\ OpenOf(e) = {}
                       /\ jagg[e] \in {"Success", "AppError", "NotSent"}]_vars

\* A client is told an outcome only when that outcome is durable, and no later
\* crash or startup records another one for that execution.
ToldIsDurable ==
  \A e \in Exec : told[e] # "none" => jphase[e] = told[e]

\* A known terminal fact has its value in the result store: the value is
\* stored before ExecutionFinished is appended.
KnownTerminalHasValue ==
  \A e \in Exec : jphase[e] \in {"Success", "AppError"} => results[e] = jphase[e]

\* A slot that owns an Action finds its descriptor in the registry, so that
\* reconcile_missing_actions has nothing to do for a sequential execution.
OwnerHasDescriptor ==
  \A e \in Exec : owns[e] => fd[ActionFor(e)] # "none"

\* Two executions never await an answer on the same connection.
OneAwaitedAnswer ==
  \A e, f \in Exec :
    state[e] = "SENT" /\ state[f] = "SENT" /\ ActionFor(e) = ActionFor(f) => e = f

(***************************************************************************)
(* The inductive invariant behind these properties.                        *)
(***************************************************************************)
\* The writer is told of every byte that is in the file, but for the rest of an
\* append that failed in this life of the daemon.
TailIsCounted ==
  /\ Serving /\ jtail # "whole" => errors > 0
  /\ pc = "close" => jtail = "whole"

\* Where the daemon is says what the execution at hand has reached.
PcMatchesSlot ==
  /\ pc \in {"sent", "store", "finish"} => cur \in Exec
  /\ pc = "sent" => state[cur] = "PREPARED"
  /\ pc \in {"store", "finish"} => state[cur] = "COMPLETE"
  /\ pc = "store" => outcome[cur] \in {"Success", "AppError"}
  /\ pc = "finish" /\ outcome[cur] \in {"Success", "AppError"} =>
       results[cur] = outcome[cur]
  /\ ~Serving => \A e \in Exec : state[e] = "EMPTY"

\* Between its last closing fact and ExecutionFinished.
Ending(e) == pc \in {"store", "finish"} /\ cur = e

\* ... with an outcome that is not the aggregate of the closing facts.
Outranked(e) ==
  jagg[e] = "AppError" /\ Recovered(e) /\ outcome[e] \in {"Success", "NotSent"}

\* What the journal says of an execution that has a slot.
SlotMatchesJournal(e) ==
  /\ state[e] \in {"READY", "PREPARED", "SENT"} =>
       /\ jphase[e] = "open"
       /\ \/ jagg[e] \in {"none", "Success"}
          \/ jagg[e] = "AppError" /\ Recovered(e)
  /\ state[e] = "READY" => OpenOf(e) = {} /\ jhi[e] < req[e]
  /\ state[e] = "PREPARED" =>
       /\ OpenOf(e) = {req[e]} /\ jdel[e][req[e]] = "prepared"
       /\ sends[e][req[e]] = IF pc = "sent" /\ cur = e THEN 1 ELSE 0
  /\ state[e] = "SENT" =>
       OpenOf(e) = {req[e]} /\ jdel[e][req[e]] = "sent"
  /\ state[e] \in {"PREPARED", "SENT"} => jhi[e] = req[e]
  /\ state[e] = "COMPLETE" =>
       /\ OpenOf(e) = {} /\ outcome[e] \in Outcome
       /\ IF Ending(e)
            THEN jphase[e] = "open" /\ (jagg[e] = outcome[e] \/ Outranked(e))
            ELSE jphase[e] = outcome[e]

\* Ids are spent once, in memory and across restarts.  An execution whose
\* ExecutionStarted is in the file although the append failed has no slot; it is
\* one, the last, and above the floor.
IdIsSpent(e) ==
  /\ jphase[e] # "absent" \/ state[e] # "EMPTY" => e <= jlast
  /\ jhi[e] # 0 \/ jagg[e] # "none" \/ told[e] # "none" => jphase[e] # "absent"
  /\ Serving =>
       /\ state[e] # "EMPTY" => e < floor
       /\ e >= floor => /\ jhi[e] = 0 /\ jagg[e] = "none" /\ told[e] = "none"
                        /\ jphase[e] \in {"absent", "open"}
  /\ Serving /\ jok =>
       /\ floor > jlast \/ jtail # "whole"
       /\ jphase[e] = "open" =>
            \/ state[e] # "EMPTY"
            \/ jtail # "whole" /\ e >= floor /\ e = jlast

\* What the journal says of a delivery is true of the app.
DeliveryFact(e, r) ==
  /\ sends[e][r] \in {0, 1}
  /\ r > jhi[e] => jdel[e][r] = "none"
  /\ jdel[e][r] \in {"none", "NotSent"} => sends[e][r] = 0
  /\ jdel[e][r] \in {"sent", "Success", "AppError"} => sends[e][r] = 1
  /\ jdel[e][r] \in {"Success", "AppError"} => ran[e][r]
  /\ ran[e][r] => sends[e][r] = 1

\* An invocation that waits for its app was sent and was not run yet ...
FramesPending ==
  \A a \in Action : \A d \in inbox[a] \cup orphans[a] :
    sends[d[1]][d[2]] = 1 /\ ~ran[d[1]][d[2]]

\* ... and it waits in one place; ...
FramesApart ==
  \A a, b \in Action :
    /\ \A d \in inbox[a] : d \notin orphans[b]
    /\ a # b => /\ \A d \in inbox[a] : d \notin inbox[b]
               /\ \A d \in orphans[a] : d \notin orphans[b]

\* ... an answer comes from a run.
AnswersRan ==
  \A a \in Action : \A i \in 1 .. Len(answers[a]) :
    ran[answers[a][i].e][answers[a][i].r]

\* Who owns an Action waits for it alone.
OwnerFacts ==
  /\ \A e \in Exec : owns[e] => /\ state[e] \in {"PREPARED", "SENT"}
                                 /\ fd[ActionFor(e)] # "none"
  /\ \A e \in Exec : state[e] = "SENT" => owns[e]
  /\ \A e, f \in Exec : owns[e] /\ owns[f] /\ ActionFor(e) = ActionFor(f) => e = f
  /\ pc = "sent" => owns[cur]

\* Memory, journal, results and apps agree in every state the daemon can be
\* killed in.
MemoryMatchesDisk ==
  /\ PcMatchesSlot
  /\ TailIsCounted
  /\ \A e \in Exec : SlotMatchesJournal(e)
  /\ \A e \in Exec : IdIsSpent(e)
  /\ \A e \in Exec, r \in Req : DeliveryFact(e, r)
  /\ FramesPending
  /\ FramesApart
  /\ AnswersRan
  /\ OwnerFacts
  /\ ToldIsDurable
  /\ KnownTerminalHasValue

\* Every execution that was admitted, and every one that a startup finds open,
\* reaches a terminal fact, in this life of the daemon or by the startup of a
\* later one, unless startup refuses.
EveryExecutionSettles ==
  \A e \in Exec :
    jphase[e] = "open" /\ (Serving => state[e] # "EMPTY")
      ~> (jphase[e] \in Outcome \/ pc = "refused")
=============================================================================
