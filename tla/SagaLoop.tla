------------------------------ MODULE SagaLoop ------------------------------
(***************************************************************************)
(* A saga in the daemon: the forward pipeline enrols a compensation token  *)
(* for every step that succeeds, and a known failure is compensated in     *)
(* reverse order (src/src/saga.c, the compensating paths of                *)
(* src/src/loop_linux.c).  Startup reconstructs a compensation that was    *)
(* under way from the journal, the token store and the saga log, or        *)
(* refuses (src/src/saga_linux.c, src/src/host_linux.c).                   *)
(*                                                                         *)
(* As in ForwardLoop each action makes at most one effect that outlives    *)
(* the daemon, and the daemon can be killed between any two.  A saga is a  *)
(* pipeline, so the forward request id of a step is its ordinal.  Which    *)
(* slot gets an Action when, and frames that answer another invocation,    *)
(* are the subject of ForwardLoop: here a prepared invocation may be sent, *)
(* or fail to be, at any time.                                             *)
(***************************************************************************)
EXTENDS SagaLog

CONSTANTS
  MaxSlots,    \* HERMAS_DAEMON_MAX_EXECUTIONS
  MaxEvents    \* bound: executions started and times that the daemon is killed

ASSUME SagaAssumption ==
  /\ 2 * Steps < MaxReqId
  /\ MaxSlots \in Nat \ {0} /\ MaxSlots <= MaxInterrupted /\ MaxSlots <= MaxActive
  /\ MaxEvents \in Nat

VARIABLES
  state,    \* hermas_execution.state
  step,     \* the ordinal of current_node
  outcome,  \* terminal_outcome
  comp,     \* off, or the state of the saga driver of a compensating slot
  left,     \* remaining
  nreq,     \* next_request_id of the saga; the current one is nreq - 1
  rout,     \* compensation_outcome
  reaped,   \* the slot was resumed at startup: no client waits for it
  floor,    \* minimum_execution_id
  pc, cur,  \* where the daemon is
  tokens,   \* the token store: records per execution and step
  results,  \* the terminal result store
  torn,     \* one of the three other stores ends in a torn record
  queued,   \* invocations at their app, on a live connection
  late,     \* invocations at their app, on a connection the daemon closed
  answer,   \* the answer that waits for the daemon
  sends, runs, told,  \* history
  crashes

slotVars  == <<state, step, outcome, comp, left, nreq, rout, reaped>>
storeVars == <<journalVars, sagaLogVars, tokens, results, torn>>
appVars   == <<queued, late, answer, runs>>
vars == <<storeVars, slotVars, floor, pc, cur, appVars, sends, told, crashes>>

Direction  == {"fwd", "rev"}
Invocation == Direction \X Exec \X Ordinal
Answer     == {"Success", "AppError", "bad"}

TypeOK ==
  /\ JournalTypeOK /\ SagaLogTypeOK
  /\ state \in [Exec -> {"EMPTY", "READY", "PREPARED", "SENT", "COMPLETE"}]
  /\ step \in [Exec -> Ordinal]
  /\ outcome \in [Exec -> {"none"} \cup Outcome]
  /\ comp \in [Exec -> {"off", "READY", "PREPARED", "SENT"}]
  /\ left \in [Exec -> 0 .. Steps]
  /\ nreq \in [Exec -> Nat]
  /\ rout \in [Exec -> {"none"} \cup Outcome]
  /\ reaped \in [Exec -> BOOLEAN]
  /\ floor \in 0 .. MaxExecId
  /\ pc \in {"down", "refused", "unsafe", "close", "idle", "sent", "succeed",
             "store", "finish", "begin", "revsent", "revfinish"}
  /\ cur \in Exec \cup {0}
  /\ tokens \in [Exec \X Ordinal -> Nat]
  /\ results \in [Exec -> {"none", "Success", "AppError"}]
  /\ torn \in BOOLEAN
  /\ queued \subseteq Invocation /\ late \subseteq Invocation
  /\ answer \in [Exec -> {"none"} \cup Answer]
  /\ sends \in [Invocation -> Nat] /\ runs \in [Invocation -> Nat]
  /\ told \in [Exec -> {"none"} \cup Outcome]
  /\ crashes \in 0 .. MaxEvents

NoSlots ==
  /\ state = [e \in Exec |-> "EMPTY"]
  /\ step = [e \in Exec |-> 1]
  /\ outcome = [e \in Exec |-> "none"]
  /\ comp = [e \in Exec |-> "off"]
  /\ left = [e \in Exec |-> 0]
  /\ nreq = [e \in Exec |-> 0]
  /\ rout = [e \in Exec |-> "none"]
  /\ reaped = [e \in Exec |-> FALSE]

Init ==
  /\ JournalInit /\ SagaLogInit /\ NoSlots
  /\ floor = 0 /\ pc = "down" /\ cur = 0
  /\ tokens = [t \in Exec \X Ordinal |-> 0]
  /\ results = [e \in Exec |-> "none"]
  /\ torn = FALSE
  /\ queued = {} /\ late = {}
  /\ answer = [e \in Exec |-> "none"]
  /\ sends = [d \in Invocation |-> 0] /\ runs = [d \in Invocation |-> 0]
  /\ told = [e \in Exec |-> "none"]
  /\ crashes = 0

\* The invocation a slot is about.
At(e) == IF comp[e] = "off" THEN <<"fwd", e, step[e]>> ELSE <<"rev", e, left[e]>>

Goto(p, e) == pc' = p /\ cur' = e

\* The daemon stops listening to the app of this slot.
DropConnection(e) ==
  /\ queued' = queued \ {At(e)}
  /\ late' = late \cup (queued \cap {At(e)})
  /\ answer' = [answer EXCEPT ![e] = "none"]
  /\ UNCHANGED runs

TakeAnswer(e) ==
  /\ answer' = [answer EXCEPT ![e] = "none"]
  /\ UNCHANGED <<queued, late, runs>>

-----------------------------------------------------------------------------
(* Forward.                                                                *)

Events == crashes + Cardinality({e \in Exec : jphase[e] # "absent"})

Active == {e \in Exec : state[e] # "EMPTY"}

\* hermas_daemon_loop_admit
Admit(e) ==
  /\ pc = "idle" /\ e >= floor /\ state[e] = "EMPTY"
  /\ Cardinality(Active) < MaxSlots
  /\ Events < MaxEvents
  /\ AppendStarted(e, jtail)
  /\ state' = [state EXCEPT ![e] = "READY"]
  /\ step' = [step EXCEPT ![e] = 1]
  /\ floor' = e + 1
  /\ UNCHANGED <<outcome, comp, left, nreq, rout, reaped, pc, cur, sagaLogVars>>
  /\ UNCHANGED <<tokens, results, torn, appVars, sends, told, crashes>>

\* prepare_ready
Prepare(e) ==
  /\ pc = "idle" /\ state[e] = "READY"
  /\ AppendPrepared(e, step[e])
  /\ state' = [state EXCEPT ![e] = "PREPARED"]
  /\ UNCHANGED <<step, outcome, comp, left, nreq, rout, reaped, floor, pc, cur>>
  /\ UNCHANGED <<sagaLogVars, tokens, results, torn, appVars, sends, told, crashes>>

\* send_invocation, in either direction
Send(e) ==
  /\ pc = "idle"
  /\ state[e] = "PREPARED" \/ comp[e] = "PREPARED"
  /\ queued' = queued \cup {At(e)}
  /\ sends' = [sends EXCEPT ![At(e)] = @ + 1]
  /\ Goto(IF comp[e] = "off" THEN "sent" ELSE "revsent", e)
  /\ UNCHANGED <<storeVars, slotVars, floor, late, answer, runs, told, crashes>>

\* send_invocation, DeliverySent
MarkSent ==
  /\ pc = "sent"
  /\ AppendSent(cur, step[cur])
  /\ state' = [state EXCEPT ![cur] = "SENT"]
  /\ Goto("idle", 0)
  /\ UNCHANGED <<step, outcome, comp, left, nreq, rout, reaped, floor>>
  /\ UNCHANGED <<sagaLogVars, tokens, results, torn, appVars, sends, told, crashes>>

\* Mutation of Enrol: the token is not stored.
EnrolNothing(e) ==
  /\ pc = "idle" /\ state[e] = "SENT" /\ answer[e] = "Success"
  /\ TakeAnswer(e)
  /\ Goto("succeed", e)
  /\ UNCHANGED <<journalVars, sagaLogVars, tokens, results, torn, slotVars, floor>>
  /\ UNCHANGED <<sends, told, crashes>>

\* receive_result, a success: append_compensation_token comes first
Enrol(e) ==
  /\ pc = "idle" /\ state[e] = "SENT" /\ answer[e] = "Success"
  /\ tokens' = [tokens EXCEPT ![<<e, step[e]>>] = @ + 1]
  /\ TakeAnswer(e)
  /\ Goto("succeed", e)
  /\ UNCHANGED <<journalVars, sagaLogVars, results, torn, slotVars, floor>>
  /\ UNCHANGED <<sends, told, crashes>>

\* receive_result, ActionSucceeded
Succeed ==
  /\ pc = "succeed"
  /\ AppendClosing(cur, step[cur], "Success")
  /\ \/ /\ step[cur] < Steps
        /\ state' = [state EXCEPT ![cur] = "READY"]
        /\ step' = [step EXCEPT ![cur] = @ + 1]
        /\ Goto("idle", 0)
        /\ UNCHANGED outcome
     \/ /\ step[cur] = Steps
        /\ state' = [state EXCEPT ![cur] = "COMPLETE"]
        /\ outcome' = [outcome EXCEPT ![cur] = "Success"]
        /\ Goto("store", cur)
        /\ UNCHANGED step
  /\ UNCHANGED <<comp, left, nreq, rout, reaped, floor, sagaLogVars, tokens, results>>
  /\ UNCHANGED <<torn, appVars, sends, told, crashes>>

\* The forward execution ends with a failed or unknown delivery.
FailForward(e, o, next) ==
  /\ AppendClosing(e, step[e], o)
  /\ state' = [state EXCEPT ![e] = "COMPLETE"]
  /\ outcome' = [outcome EXCEPT ![e] = o]
  /\ Goto(next, e)
  /\ UNCHANGED <<step, comp, left, nreq, rout, reaped, floor, sagaLogVars, tokens>>
  /\ UNCHANGED <<results, torn, sends, told, crashes>>

\* Mutation of SendFails: a result is stored although there is none.
SendFailsStored(e) ==
  /\ pc = "idle" /\ state[e] = "PREPARED"
  /\ FailForward(e, "NotSent", "store")
  /\ DropConnection(e)

\* send_invocation, send() fails for good
SendFails(e) ==
  /\ pc = "idle" /\ state[e] = "PREPARED"
  /\ FailForward(e, "NotSent", "finish")
  /\ DropConnection(e)

\* receive_result, an app error
AppFails(e) ==
  /\ pc = "idle" /\ state[e] = "SENT" /\ answer[e] = "AppError"
  /\ FailForward(e, "AppError", "store")
  /\ TakeAnswer(e)

\* receive_result, end of file or a frame that is not the awaited result
Reject(e) ==
  /\ pc = "idle" /\ state[e] = "SENT" /\ answer[e] \in {"none", "bad"}
  /\ FailForward(e, "Unknown", "finish")
  /\ DropConnection(e)

\* append_result_if_complete
StoreResult ==
  /\ pc = "store"
  /\ results' = [results EXCEPT ![cur] = outcome[cur]]
  /\ Goto("finish", cur)
  /\ UNCHANGED <<journalVars, sagaLogVars, tokens, torn, slotVars, floor>>
  /\ UNCHANGED <<appVars, sends, told, crashes>>

\* Mutation of Finish: an unknown outcome is compensated like a known failure.
FinishCompensatingUnknown ==
  /\ pc = "finish"
  /\ AppendFinished(cur, outcome[cur])
  /\ IF outcome[cur] # "Success" /\ step[cur] > 1
       THEN Goto("begin", cur) ELSE Goto("idle", 0)
  /\ UNCHANGED <<sagaLogVars, tokens, results, torn, slotVars, floor>>
  /\ UNCHANGED <<appVars, sends, told, crashes>>

\* append_finished_if_complete; a known failure after an enrolled step goes on
\* with begin_live_compensation.
Finish ==
  /\ pc = "finish"
  /\ AppendFinished(cur, outcome[cur])
  /\ IF outcome[cur] \in Failure /\ step[cur] > 1
       THEN Goto("begin", cur) ELSE Goto("idle", 0)
  /\ UNCHANGED <<sagaLogVars, tokens, results, torn, slotVars, floor>>
  /\ UNCHANGED <<appVars, sends, told, crashes>>

-----------------------------------------------------------------------------
(* Reverse.                                                                *)

\* hermas_compensation_find: no record is a missing token, two are an error
TokenFound(e, i) == tokens[<<e, i>>] = 1

\* begin_live_compensation: hermas_saga_begin_live has every token, then
\* hermas_saga_driver_begin.  Without them the loop, and with it the daemon,
\* ends.
HasTokens(e, n) == \A i \in 1 .. n : TokenFound(e, i)

Begin ==
  /\ pc = "begin"
  /\ IF HasTokens(cur, step[cur] - 1)
       THEN /\ LogStarted(cur, step[cur] - 1, outcome[cur])
            /\ comp' = [comp EXCEPT ![cur] = "READY"]
            /\ left' = [left EXCEPT ![cur] = step[cur] - 1]
            /\ nreq' = [nreq EXCEPT ![cur] = step[cur] + 1]
            /\ Goto("idle", 0)
       ELSE /\ Goto("refused", 0)
            /\ UNCHANGED <<sagaLogVars, comp, left, nreq>>
  /\ UNCHANGED <<journalVars, state, step, outcome, rout, reaped, floor, tokens>>
  /\ UNCHANGED <<results, torn, appVars, sends, told, crashes>>

\* hermas_saga_driver_prepare
PrepareReverse(e) ==
  /\ pc = "idle" /\ comp[e] = "READY"
  /\ IF TokenFound(e, left[e]) /\ nreq[e] < MaxReqId
       THEN /\ LogPrepared(e, left[e], nreq[e])
            /\ comp' = [comp EXCEPT ![e] = "PREPARED"]
            /\ nreq' = [nreq EXCEPT ![e] = @ + 1]
            /\ UNCHANGED <<pc, cur>>
       ELSE /\ Goto("refused", 0)
            /\ UNCHANGED <<sagaLogVars, comp, nreq>>
  /\ UNCHANGED <<journalVars, state, step, outcome, left, rout, reaped, floor>>
  /\ UNCHANGED <<tokens, results, torn, appVars, sends, told, crashes>>

\* Mutation of MarkReverseSent: DeliverySent is not appended to the log.
MarkReverseSentUnlogged ==
  /\ pc = "revsent"
  /\ comp' = [comp EXCEPT ![cur] = "SENT"]
  /\ Goto("idle", 0)
  /\ UNCHANGED <<storeVars, state, step, outcome, left, nreq, rout, reaped, floor>>
  /\ UNCHANGED <<appVars, sends, told, crashes>>

\* hermas_saga_driver_mark_sent
MarkReverseSent ==
  /\ pc = "revsent"
  /\ LogSent(cur, left[cur], nreq[cur] - 1)
  /\ comp' = [comp EXCEPT ![cur] = "SENT"]
  /\ Goto("idle", 0)
  /\ UNCHANGED <<journalVars, state, step, outcome, left, nreq, rout, reaped, floor>>
  /\ UNCHANGED <<tokens, results, torn, appVars, sends, told, crashes>>

\* Mutation of Block: the client is told the failure that was to be compensated.
BlockKeepingOutcome(e, o) ==
  /\ LogStep(e, left[e], nreq[e] - 1, o)
  /\ rout' = [rout EXCEPT ![e] = o]
  /\ Goto("revfinish", e)
  /\ UNCHANGED <<journalVars, state, step, outcome, comp, left, nreq, reaped, floor>>
  /\ UNCHANGED <<tokens, results, torn, sends, told, crashes>>

\* finish_driver, fail_compensation: what the client will be told; the driver
\* is done when Finished is in the log.
Block(e, o) ==
  /\ LogStep(e, left[e], nreq[e] - 1, o)
  /\ outcome' = [outcome EXCEPT ![e] = IF o = "NotSent" THEN "NotSent" ELSE "Unknown"]
  /\ rout' = [rout EXCEPT ![e] = o]
  /\ Goto("revfinish", e)
  /\ UNCHANGED <<journalVars, state, step, comp, left, nreq, reaped, floor>>
  /\ UNCHANGED <<tokens, results, torn, sends, told, crashes>>

\* hermas_saga_driver_mark_not_sent
SendReverseFails(e) ==
  /\ pc = "idle" /\ comp[e] = "PREPARED"
  /\ Block(e, "NotSent")
  /\ DropConnection(e)

\* receive_result of a compensating slot
ReverseFails(e) ==
  /\ pc = "idle" /\ comp[e] = "SENT" /\ answer[e] = "AppError"
  /\ Block(e, "AppError")
  /\ TakeAnswer(e)

RejectReverse(e) ==
  /\ pc = "idle" /\ comp[e] = "SENT" /\ answer[e] \in {"none", "bad"}
  /\ Block(e, "Unknown")
  /\ DropConnection(e)

\* hermas_saga_driver_accept_result, a success
ReverseSucceeds(e) ==
  /\ pc = "idle" /\ comp[e] = "SENT" /\ answer[e] = "Success"
  /\ LogStep(e, left[e], nreq[e] - 1, "Success")
  /\ TakeAnswer(e)
  /\ left' = [left EXCEPT ![e] = @ - 1]
  /\ rout' = [rout EXCEPT ![e] = "Success"]
  /\ \/ /\ left[e] > 1
        /\ comp' = [comp EXCEPT ![e] = "READY"]
        /\ UNCHANGED <<pc, cur>>
     \/ /\ left[e] = 1
        /\ Goto("revfinish", e)
        /\ UNCHANGED comp
  /\ UNCHANGED <<journalVars, state, step, outcome, nreq, reaped, floor>>
  /\ UNCHANGED <<tokens, results, torn, sends, told, crashes>>

\* The driver's Finished, after which the slot compensates no more.
FinishReverse ==
  /\ pc = "revfinish"
  /\ LogFinished(cur, rout[cur])
  /\ comp' = [comp EXCEPT ![cur] = "off"]
  /\ Goto("idle", 0)
  /\ UNCHANGED <<journalVars, state, step, outcome, left, nreq, rout, reaped, floor>>
  /\ UNCHANGED <<tokens, results, torn, appVars, sends, told, crashes>>

\* hermas_daemon_loop_result and hermas_daemon_loop_release, by the control
\* server or by reap_recovered
Return(e) ==
  /\ pc = "idle" /\ state[e] = "COMPLETE" /\ comp[e] = "off"
  /\ \/ ~reaped[e] /\ told' = [told EXCEPT ![e] = outcome[e]]
     \/ UNCHANGED told
  /\ state' = [state EXCEPT ![e] = "EMPTY"]
  /\ outcome' = [outcome EXCEPT ![e] = "none"]
  /\ step' = [step EXCEPT ![e] = 1]
  /\ left' = [left EXCEPT ![e] = 0]
  /\ nreq' = [nreq EXCEPT ![e] = 0]
  /\ rout' = [rout EXCEPT ![e] = "none"]
  /\ reaped' = [reaped EXCEPT ![e] = FALSE]
  /\ UNCHANGED <<storeVars, comp, floor, pc, cur, appVars, sends, crashes>>
-----------------------------------------------------------------------------
(* Crash and startup.                                                      *)

Crash ==
  /\ pc \notin {"down", "refused", "unsafe"}
  /\ Events < MaxEvents
  /\ crashes' = crashes + 1
  /\ \/ UNCHANGED <<jtail, torn>>
     \/ jtail' = "torn" /\ UNCHANGED torn   \* killed within an append
     \/ torn' = TRUE /\ UNCHANGED jtail
  /\ state' = [e \in Exec |-> "EMPTY"] /\ step' = [e \in Exec |-> 1]
  /\ outcome' = [e \in Exec |-> "none"] /\ comp' = [e \in Exec |-> "off"]
  /\ left' = [e \in Exec |-> 0] /\ nreq' = [e \in Exec |-> 0]
  /\ rout' = [e \in Exec |-> "none"] /\ reaped' = [e \in Exec |-> FALSE]
  /\ floor' = 0 /\ Goto("down", 0)
  /\ queued' = {} /\ late' = late \cup queued
  /\ answer' = [e \in Exec |-> "none"]
  /\ UNCHANGED <<jok, jlast, jphase, jdel, jhi, jagg, sagaLogVars>>
  /\ UNCHANGED <<tokens, results, runs, sends, told>>

\* open_state scans every store or refuses.
Open ==
  /\ pc = "down"
  /\ pc' = IF Sound /\ sok /\ ~torn THEN "close" ELSE "refused"
  /\ UNCHANGED <<storeVars, slotVars, floor, cur, appVars, sends, told, crashes>>

\* hermas_journal_file_close_interrupted
CloseDelivery(e, r) ==
  /\ pc = "close" /\ cur \in {0, e}
  /\ jphase[e] = "open" /\ IsOpen(e, r)
  /\ AppendClosing(e, r, "Unknown")
  /\ cur' = e
  /\ UNCHANGED <<pc, sagaLogVars, tokens, results, torn, slotVars, floor>>
  /\ UNCHANGED <<appVars, sends, told, crashes>>

CloseExecution(e) ==
  /\ pc = "close" /\ cur \in {0, e}
  /\ jphase[e] = "open" /\ OpenOf(e) = {}
  /\ AppendFinished(e, "Unknown")
  /\ cur' = 0
  /\ UNCHANGED <<pc, sagaLogVars, tokens, results, torn, slotVars, floor>>
  /\ UNCHANGED <<appVars, sends, told, crashes>>

\* The forward steps that the journal confirms.
Confirmed(e) == {i \in Ordinal : jdel[e][i] = "Success"}
Completed(e) == Cardinality(Confirmed(e))

\* hermas_saga_recover rescans the journal and requires a finished execution
\* whose successes are a prefix of the saga and whose terminal agrees with
\* the delivery that follows them.
HistoryConsistent(e) ==
  LET n == Completed(e) IN
  /\ jok /\ jphase[e] \in Outcome
  /\ Confirmed(e) = 1 .. n
  /\ IF jphase[e] = "Success" THEN n = Steps ELSE n < Steps /\ jdel[e][n + 1] = jphase[e]

\* hermas_saga_reconcile: Started agrees with the forward history.
LogConsistent(e) ==
  /\ sok /\ sorig[e] = jphase[e]
  /\ sinit[e] = Completed(e) /\ snext[e] <= Completed(e)

\* Mutation of NextRequest: the ids of earlier reverse deliveries are forgotten.
NextForwardRequest(e) == jhi[e] + 1

\* The request id that a resumed compensation continues with.
NextRequest(e) == (IF shigh[e] > jhi[e] THEN shigh[e] ELSE jhi[e]) + 1

\* Mutation of Classify: an open reverse delivery does not stop the saga.
ClassifyIgnoringOpen(e) ==
  IF /\ HistoryConsistent(e) /\ jphase[e] # "Unknown" /\ LogConsistent(e)
     /\ HasTokens(e, Completed(e)) /\ sterm[e] = "none" /\ snext[e] # 0
    THEN "idle" ELSE "refused"

\* hermas_saga_recover_files and hermas_daemon_loop_resume_saga for one saga of
\* the log: resumed, unsafe (RECOVERY_REQUIRED), or a state error.
Classify(e) ==
  CASE ~HistoryConsistent(e) -> "refused"
    [] HistoryConsistent(e) /\ jphase[e] = "Unknown" -> "unsafe"
    [] OTHER ->
         IF ~(LogConsistent(e) /\ HasTokens(e, Completed(e))) THEN "refused"
         ELSE IF sdel[e] # "none" THEN "unsafe"
         ELSE IF \/ sterm[e] # "none" \/ snext[e] = 0
                 \/ sorig[e] = "AppError" /\ results[e] # "AppError"
                 \/ Cardinality(InLog) > MaxSlots  \* no slot is left
              THEN "refused"
              ELSE "idle"

\* Mutation of Resumable: a saga with reverse progress is left alone.
ResumableUntouched == {e \in InLog : snext[e] = sinit[e]}

\* The active sagas of the log.
Resumable == InLog

\* restore_startup_state resumes every saga of the log or refuses, with the
\* error of the first that it cannot resume.
Serve ==
  /\ pc = "close" /\ Unfinished = {}
  /\ \/ /\ \A e \in Resumable : Classify(e) = "idle"
        /\ pc' = "idle"
        /\ state' = [e \in Exec |-> IF e \in Resumable THEN "COMPLETE" ELSE "EMPTY"]
        /\ step' = [e \in Exec |-> IF e \in Resumable THEN Completed(e) + 1 ELSE 1]
        /\ outcome' = [e \in Exec |-> IF e \notin Resumable THEN "none"
                         ELSE IF sorig[e] = "AppError" THEN "AppError" ELSE "Unknown"]
        /\ comp' = [e \in Exec |-> IF e \in Resumable THEN "READY" ELSE "off"]
        /\ left' = [e \in Exec |-> IF e \in Resumable THEN snext[e] ELSE 0]
        /\ nreq' = [e \in Exec |-> IF e \notin Resumable THEN 0
                      ELSE NextRequest(e)]
        /\ reaped' = [e \in Exec |-> e \in Resumable]
        /\ floor' = jlast + 1
        /\ UNCHANGED rout
     \/ \E e \in Resumable :
          /\ Classify(e) # "idle"
          /\ pc' = Classify(e)
          /\ UNCHANGED <<slotVars, floor>>
  /\ UNCHANGED <<storeVars, cur, appVars, sends, told, crashes>>

-----------------------------------------------------------------------------
(* The apps.                                                               *)

\* The app runs an invocation and answers it, well or badly.
AppRun(d) ==
  /\ d \in queued
  /\ runs' = [runs EXCEPT ![d] = @ + 1]
  /\ queued' = queued \ {d}
  /\ \E k \in Answer : answer' = [answer EXCEPT ![d[2]] = k]
  /\ UNCHANGED <<storeVars, slotVars, floor, pc, cur, late, sends, told, crashes>>

\* The app runs an invocation of a connection that is closed by now.
AppRunLate(d) ==
  /\ d \in late
  /\ runs' = [runs EXCEPT ![d] = @ + 1]
  /\ late' = late \ {d}
  /\ UNCHANGED <<storeVars, slotVars, floor, pc, cur, queued, answer>>
  /\ UNCHANGED <<sends, told, crashes>>

-----------------------------------------------------------------------------
Next ==
  \/ \E e \in Exec :
       \/ Admit(e) \/ Prepare(e) \/ Send(e) \/ Enrol(e)
       \/ SendFails(e) \/ AppFails(e) \/ Reject(e)
       \/ PrepareReverse(e) \/ SendReverseFails(e) \/ ReverseFails(e)
       \/ RejectReverse(e) \/ ReverseSucceeds(e) \/ Return(e)
       \/ CloseExecution(e)
       \/ \E r \in Req : CloseDelivery(e, r)
  \/ MarkSent \/ Succeed \/ StoreResult \/ Finish
  \/ Begin \/ MarkReverseSent \/ FinishReverse
  \/ Crash \/ Open \/ Serve
  \/ \E d \in Invocation : AppRun(d) \/ AppRunLate(d)

Spec == Init /\ [][Next]_vars

(***************************************************************************)
(* Fairness.  The daemon's thread takes every step it can take, a          *)
(* supervisor restarts it, and an app runs what reaches it: without a      *)
(* deadline of its own the loop waits for a silent app forever.            *)
(***************************************************************************)
Fairness ==
  /\ WF_vars(MarkSent \/ Succeed \/ StoreResult \/ Finish \/ Begin)
  /\ WF_vars(MarkReverseSent \/ FinishReverse)
  /\ WF_vars(Open \/ Serve)
  /\ \A e \in Exec :
       /\ WF_vars(CloseExecution(e) \/ \E r \in Req : CloseDelivery(e, r))
       /\ WF_vars(PrepareReverse(e)) /\ WF_vars(Send(e) \/ SendReverseFails(e))
       /\ WF_vars(ReverseFails(e) \/ RejectReverse(e) \/ ReverseSucceeds(e))
  /\ \A d \in Invocation : WF_vars(AppRun(d))

FairSpec == Spec /\ Fairness

-----------------------------------------------------------------------------
(* Properties.                                                             *)

\* Over all lives of the daemon no step and no compensation is sent to its app
\* twice (hermas_saga_reconcile skips durable reverse successes and refuses to
\* resume past an open delivery).
SentOnce == \A d \in Invocation : sends[d] <= 1

\* A compensation is sent only for a step that its app ran and that the journal
\* confirms, after a known failure, and only when every later step has been
\* compensated (hermas_saga_prepare).
ReverseOrder ==
  \A e \in Exec, i \in Ordinal : sends[<<"rev", e, i>>] > 0 =>
    /\ runs[<<"fwd", e, i>>] = 1
    /\ i \in Confirmed(e) /\ jphase[e] \in Failure
    /\ \A j \in Confirmed(e) : j > i => runs[<<"rev", e, j>>] = 1

\* A client that is told AppError can rely on a complete rollback: the apps ran
\* the compensation of every confirmed step (fail_compensation hides the
\* original failure otherwise).
RollbackIsProven ==
  \A e \in Exec : told[e] = "AppError" =>
    \A i \in Confirmed(e) : runs[<<"rev", e, i>>] = 1

\* Live and resumed drivers together write a saga log that the scan accepts.
SagaLogReadable == sok

\* Startup asks for an operator only when a reverse delivery is open, and finds
\* an error in the state only when the journal is unreadable, or a step has
\* failed or the last one has succeeded without the Finished record; while it
\* serves the daemon misses no token (hermas_saga_begin_live,
\* hermas_saga_recover, hermas_saga_reconcile, hermas_daemon_loop_resume_saga).
RefusalHasCause ==
  [][/\ pc = "close" /\ pc' = "unsafe" => \E e \in InLog : sdel[e] # "none"
     /\ pc = "close" /\ pc' = "refused" =>
          ~jok \/ \E e \in InLog : sterm[e] # "none" \/ snext[e] = 0
     /\ pc \in {"begin", "idle"} => pc' # "refused"]_vars

\* Request ids of compensations continue above the forward ones and above those
\* of earlier lives of the daemon (hermas_saga_reconcile).
ReverseRequestsAreFresh ==
  [][\A e \in Exec : sdel[e] = "none" /\ sdel'[e] = "prepared" =>
       sreq'[e] > jhi[e] /\ sreq'[e] > shigh[e]]_vars

\* "Reverse `StepSucceeded`: Confirmed reverse progress; Resume at predecessor":
\* a startup that finds every saga of the log between two steps resumes them.
ConfirmedProgressResumes ==
  [][pc = "close" /\ jok /\ (\A e \in InLog : sdel[e] = "none" /\ sterm[e] = "none")
       => pc' # "refused"]_vars

\* A compensation that was started ends, or a startup refuses to serve.
StartedSagaEnds ==
  \A e \in Exec :
    sphase[e] = "active" ~> (sphase[e] \in Outcome \/ pc \in {"refused", "unsafe"})
=============================================================================
