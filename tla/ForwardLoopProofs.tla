------------------------ MODULE ForwardLoopProofs ------------------------
(***************************************************************************)
(* Proofs about ForwardLoop for every graph, every number of executions,   *)
(* requests, slots, crashes and failed appends: the inductive invariant,   *)
(* that the loop implements DeliveryContract, and which of the records it  *)
(* writes its own next startup refuses.                                    *)
(***************************************************************************)
EXTENDS ForwardLoop, FiniteSetTheorems, TLAPS

Inv == TypeOK /\ MemoryMatchesDisk

-----------------------------------------------------------------------------

\* The stronger of two outcomes is one of them (outcome_precedence).
LEMMA StrongerType ==
  ASSUME NEW o \in Outcome, NEW p \in Outcome \cup {"none"}
  PROVE  Stronger(o, p) \in Outcome \cup {"none"}
  BY DEF Stronger, Outcome

\* Appending ExecutionStarted, whole or not, leaves a journal of the right
\* type.
LEMMA StartedType ==
  ASSUME JournalTypeOK, NEW e \in Exec, NEW t \in {"whole", "torn", "unsynced"},
         AppendStarted(e, t)
  PROVE  JournalTypeOK'
  <1>1. jok' \in BOOLEAN
    BY DEF AppendStarted
  <1>2. /\ jtail' \in {"whole", "torn", "unsynced"}
        /\ jlast' \in 0 .. (MaxExecId - 1)
    BY JournalAssumption DEF AppendStarted, JournalTypeOK, Exec
  <1>3. jphase' \in [Exec -> Phase]
    BY DEF AppendStarted, JournalTypeOK, Phase
  <1>4. QED
    BY <1>1, <1>2, <1>3 DEF AppendStarted, JournalTypeOK

\* Appending DeliveryPrepared leaves a journal of the right type.
LEMMA PreparedType ==
  ASSUME JournalTypeOK, NEW e \in Exec, NEW r \in Req, AppendPrepared(e, r)
  PROVE  JournalTypeOK'
  <1>1. jok' \in BOOLEAN
    BY DEF AppendPrepared
  <1>2. jdel' \in [Exec -> [Req -> Delivery]]
    BY DEF AppendPrepared, JournalTypeOK, Delivery
  <1>3. jhi' \in [Exec -> 0 .. MaxReqId]
    BY JournalAssumption DEF AppendPrepared, JournalTypeOK, Req
  <1>4. QED
    BY <1>1, <1>2, <1>3 DEF AppendPrepared, JournalTypeOK

\* Appending DeliverySent leaves a journal of the right type.
LEMMA SentType ==
  ASSUME JournalTypeOK, NEW e \in Exec, NEW r \in Req, AppendSent(e, r)
  PROVE  JournalTypeOK'
  <1>1. jok' \in BOOLEAN
    BY DEF AppendSent
  <1>2. jdel' \in [Exec -> [Req -> Delivery]]
    BY DEF AppendSent, JournalTypeOK, Delivery
  <1>3. QED
    BY <1>1, <1>2 DEF AppendSent, JournalTypeOK

\* Appending a closing Action fact leaves a journal of the right type.
LEMMA ClosingType ==
  ASSUME JournalTypeOK, NEW e \in Exec, NEW r \in Req, NEW o \in Outcome,
         AppendClosing(e, r, o)
  PROVE  JournalTypeOK'
  <1>1. jok' \in BOOLEAN
    BY DEF AppendClosing
  <1>2. jdel' \in [Exec -> [Req -> Delivery]]
    BY DEF AppendClosing, JournalTypeOK, Delivery
  <1>3. jagg' \in [Exec -> Outcome \cup {"none"}]
    BY StrongerType DEF AppendClosing, JournalTypeOK
  <1>4. QED
    BY <1>1, <1>2, <1>3 DEF AppendClosing, JournalTypeOK

\* Appending ExecutionFinished leaves a journal of the right type.
LEMMA FinishedType ==
  ASSUME JournalTypeOK, NEW e \in Exec, NEW o \in Outcome, AppendFinished(e, o)
  PROVE  JournalTypeOK'
  <1>1. jok' \in BOOLEAN
    BY DEF AppendFinished
  <1>2. jphase' \in [Exec -> Phase]
    BY DEF AppendFinished, JournalTypeOK, Phase
  <1>3. QED
    BY <1>1, <1>2 DEF AppendFinished, JournalTypeOK

\* The daemon that was never started is of the right type.
LEMMA InitType == Init => TypeOK
  <1> SUFFICES ASSUME Init PROVE TypeOK
    OBVIOUS
  <1>1. JournalTypeOK
    BY JournalAssumption
       DEF Init, JournalInit, JournalTypeOK, Exec, Req, Phase, Delivery, Outcome
  <1>2. LoopTypeOK
    BY JournalAssumption, LoopAssumption
       DEF Init, LoopTypeOK, Exec, Req, RunState, Outcome
  <1>3. AppTypeOK
    BY DEF Init, AppTypeOK
  <1>4. QED
    BY <1>1, <1>2, <1>3 DEF Init, TypeOK

\* No step of the daemon or of an app leaves the types; which execution is
\* at hand (cur) and that a prepared request exists come from the invariant.
LEMMA NextType ==
  ASSUME TypeOK, PcMatchesSlot, \A e \in Exec : SlotMatchesJournal(e), [Next]_vars
  PROVE  TypeOK'
  <1> USE JournalAssumption, LoopAssumption
  <1>1. ASSUME NEW e \in Exec, Admit(e) PROVE TypeOK'
    <2>1. JournalTypeOK'
      <3>1. jtail \in {"whole", "torn", "unsynced"}
        BY DEF TypeOK, JournalTypeOK
      <3>2. QED
        BY <1>1, <3>1, StartedType DEF TypeOK, Admit
    <2>2. LoopTypeOK'
      <3>1. /\ state' \in [Exec -> RunState]
            /\ node' \in [Exec -> Node]
        BY <1>1 DEF TypeOK, LoopTypeOK, Admit, RunState
      <3>2. req' \in [Exec -> Req]
        <4>1. 1 \in Req
          BY DEF Req
        <4>2. QED
          BY <1>1, <4>1 DEF TypeOK, LoopTypeOK, Admit
      <3>3. floor' \in 0 .. MaxExecId
        BY <1>1 DEF Admit, Exec
      <3>4. QED
        BY <1>1, <3>1, <3>2, <3>3 DEF TypeOK, LoopTypeOK, Admit
    <2>3. AppTypeOK'
      BY <1>1 DEF TypeOK, AppTypeOK, Admit, appVars
    <2>4. QED
      BY <1>1, <2>1, <2>2, <2>3 DEF TypeOK, Admit, histVars
  <1>2. ASSUME NEW e \in Exec, AdmitFails(e) PROVE TypeOK'
    <2>1. JournalTypeOK'
      <3>1. CASE UNCHANGED journalVars
        BY <3>1 DEF TypeOK, JournalTypeOK, journalVars
      <3>2. CASE jtail' = "torn" /\ UNCHANGED <<jok, jlast, jphase, jdel, jhi, jagg>>
        BY <3>2 DEF TypeOK, JournalTypeOK
      <3>3. CASE AppendStarted(e, "unsynced")
        BY <3>3, StartedType DEF TypeOK
      <3>4. QED
        BY <1>2, <3>1, <3>2, <3>3 DEF AdmitFails
    <2>2. LoopTypeOK'
      BY <1>2 DEF TypeOK, LoopTypeOK, AdmitFails, loopVars
    <2>3. AppTypeOK'
      BY <1>2 DEF TypeOK, AppTypeOK, AdmitFails, appVars
    <2>4. QED
      BY <1>2, <2>1, <2>2, <2>3 DEF TypeOK, AdmitFails, histVars
  <1>3. ASSUME NEW e \in Exec, Prepare(e) PROVE TypeOK'
    <2>1. JournalTypeOK'
      BY <1>3, PreparedType DEF TypeOK, Prepare, LoopTypeOK
    <2>2. LoopTypeOK'
      BY <1>3 DEF TypeOK, LoopTypeOK, Prepare, RunState
    <2>3. AppTypeOK'
      BY <1>3 DEF TypeOK, AppTypeOK, Prepare, appVars
    <2>4. QED
      BY <1>3, <2>1, <2>2, <2>3 DEF TypeOK, Prepare, histVars
  <1>4. ASSUME NEW e \in Exec, Assign(e) PROVE TypeOK'
    <2>1. JournalTypeOK'
      BY <1>4 DEF TypeOK, Assign, journalVars, JournalTypeOK
    <2>2. LoopTypeOK'
      BY <1>4 DEF TypeOK, LoopTypeOK, Assign
    <2>3. AppTypeOK'
      BY <1>4 DEF TypeOK, AppTypeOK, Assign, appVars
    <2>4. QED
      BY <1>4, <2>1, <2>2, <2>3 DEF TypeOK, Assign, histVars
  <1>5. ASSUME NEW e \in Exec, Send(e) PROVE TypeOK'
    <2>1. JournalTypeOK'
      BY <1>5 DEF TypeOK, Send, journalVars, JournalTypeOK
    <2>2. LoopTypeOK'
      BY <1>5 DEF TypeOK, LoopTypeOK, Send
    <2>3. AppTypeOK'
      BY <1>5 DEF TypeOK, AppTypeOK, Send, ActionFor, LoopTypeOK
    <2>4. sends' \in [Exec -> [Req -> Nat]]
      BY <1>5 DEF TypeOK, LoopTypeOK, Send
    <2>5. QED
      BY <1>5, <2>1, <2>2, <2>3, <2>4 DEF TypeOK, Send
  <1>6. ASSUME NEW e \in Exec, SendFails(e) PROVE TypeOK'
    <2>1. JournalTypeOK'
      BY <1>6, ClosingType
         DEF TypeOK, SendFails, EndWithoutValue, LoopTypeOK, Outcome
    <2>2. LoopTypeOK'
      BY <1>6
         DEF TypeOK, LoopTypeOK, SendFails, EndWithoutValue, RunState,
             Outcome
    <2>3. AppTypeOK'
      <3>1. DropAction(ActionFor(e)) /\ ActionFor(e) \in Action
        BY <1>6 DEF SendFails, EndWithoutValue, ActionFor, TypeOK, LoopTypeOK
      <3>2. QED
        BY <3>1 DEF TypeOK, AppTypeOK, DropAction
    <2>4. QED
      BY <1>6, <2>1, <2>2, <2>3
         DEF TypeOK, SendFails, EndWithoutValue, histVars
  <1>7. ASSUME NEW e \in Exec, Accept(e) PROVE TypeOK'
    <2> DEFINE f == Head(answers[ActionFor(e)])
    <2>1. f \in Frame /\ f.kind \in Outcome /\ req[e] \in Req /\ ActionFor(e) \in Action
      <3>1. req[e] \in Req /\ ActionFor(e) \in Action
        BY DEF TypeOK, LoopTypeOK, ActionFor
      <3>2. f \in Frame
        BY <1>7, <3>1 DEF TypeOK, AppTypeOK, Accept
      <3>3. f.kind \in Outcome
        BY <1>7, <3>2 DEF Accept, Acceptable, Frame, Answer, Outcome
      <3>4. QED
        BY <3>1, <3>2, <3>3
    <2>2. JournalTypeOK'
      BY <1>7, <2>1, ClosingType DEF TypeOK, Accept
    <2>3. LoopTypeOK'
      <3>1. PICK t \in Targets(e, f.kind) :
              \/ /\ t = Done
                 /\ state' = [state EXCEPT ![e] = "COMPLETE"]
                 /\ outcome' = [outcome EXCEPT ![e] = f.kind]
                 /\ pc' = "store" /\ cur' = e
                 /\ UNCHANGED <<node, req>>
              \/ /\ t # Done
                 /\ state' = [state EXCEPT ![e] = "READY"]
                 /\ node' = [node EXCEPT ![e] = t]
                 /\ req' = [req EXCEPT ![e] = @ + 1]
                 /\ UNCHANGED <<outcome, pc, cur>>
        BY <1>7 DEF Accept
      <3>2. t \in Node \cup {Done}
        BY <2>1 DEF Targets, TypeOK, LoopTypeOK
      <3>3. t # Done => req[e] + 1 \in Req
        BY <1>7, <2>1 DEF Accept, Acceptable, Req
      <3>4. CASE t = Done
        BY <1>7, <2>1, <3>1, <3>4 DEF TypeOK, LoopTypeOK, Accept, RunState
      <3>5. CASE t # Done
        <4>1. node' \in [Exec -> Node]
          BY <3>1, <3>2, <3>5 DEF TypeOK, LoopTypeOK
        <4>2. req' \in [Exec -> Req]
          BY <3>1, <3>3, <3>5 DEF TypeOK, LoopTypeOK
        <4>3. state' \in [Exec -> RunState]
          BY <3>1, <3>5 DEF TypeOK, LoopTypeOK, RunState
        <4>4. QED
          BY <1>7, <3>1, <3>5, <4>1, <4>2, <4>3 DEF TypeOK, LoopTypeOK, Accept
      <3>6. QED
        BY <3>4, <3>5
    <2>4. AppTypeOK'
      BY <1>7, <2>1 DEF TypeOK, AppTypeOK, Accept
    <2>5. QED
      BY <1>7, <2>2, <2>3, <2>4 DEF TypeOK, Accept, histVars
  <1>8. ASSUME NEW e \in Exec, Reject(e) PROVE TypeOK'
    <2>1. JournalTypeOK'
      BY <1>8, ClosingType
         DEF TypeOK, Reject, EndWithoutValue, LoopTypeOK, Outcome
    <2>2. LoopTypeOK'
      BY <1>8
         DEF TypeOK, LoopTypeOK, Reject, EndWithoutValue, RunState, Outcome
    <2>3. AppTypeOK'
      BY <1>8
         DEF TypeOK, AppTypeOK, Reject, EndWithoutValue, DropAction,
             ActionFor, LoopTypeOK
    <2>4. QED
      BY <1>8, <2>1, <2>2, <2>3 DEF TypeOK, Reject, EndWithoutValue, histVars
  <1>9. ASSUME NEW e \in Exec, Return(e) PROVE TypeOK'
    <2>1. JournalTypeOK'
      BY <1>9 DEF TypeOK, Return, journalVars, JournalTypeOK
    <2>2. LoopTypeOK'
      BY <1>9 DEF TypeOK, LoopTypeOK, Return, RunState
    <2>3. AppTypeOK'
      BY <1>9 DEF TypeOK, AppTypeOK, Return, appVars
    <2>4. told' \in [Exec -> Outcome \cup {"none"}]
      BY <1>9 DEF TypeOK, LoopTypeOK, Return
    <2>5. QED
      BY <1>9, <2>1, <2>2, <2>3, <2>4 DEF TypeOK, Return
  <1>10. ASSUME NEW e \in Exec, CloseExecution(e) PROVE TypeOK'
    <2>1. JournalTypeOK'
      BY <1>10, FinishedType DEF TypeOK, CloseExecution, Outcome
    <2>2. LoopTypeOK'
      BY <1>10 DEF TypeOK, LoopTypeOK, CloseExecution
    <2>3. AppTypeOK'
      BY <1>10 DEF TypeOK, AppTypeOK, CloseExecution, appVars
    <2>4. QED
      BY <1>10, <2>1, <2>2, <2>3 DEF TypeOK, CloseExecution, histVars
  <1>11. ASSUME NEW e \in Exec, NEW r \in Req, CloseDelivery(e, r)
         PROVE  TypeOK'
    <2>1. JournalTypeOK'
      BY <1>11, ClosingType DEF TypeOK, CloseDelivery, Outcome
    <2>2. LoopTypeOK'
      BY <1>11 DEF TypeOK, LoopTypeOK, CloseDelivery
    <2>3. AppTypeOK'
      BY <1>11 DEF TypeOK, AppTypeOK, CloseDelivery, appVars
    <2>4. QED
      BY <1>11, <2>1, <2>2, <2>3 DEF TypeOK, CloseDelivery, histVars
  <1>12. ASSUME MarkSent PROVE TypeOK'
    <2>1. JournalTypeOK'
      BY <1>12, SentType DEF TypeOK, MarkSent, PcMatchesSlot, LoopTypeOK
    <2>2. LoopTypeOK'
      BY <1>12 DEF TypeOK, LoopTypeOK, MarkSent, PcMatchesSlot, RunState
    <2>3. AppTypeOK'
      BY <1>12 DEF TypeOK, AppTypeOK, MarkSent, appVars
    <2>4. QED
      BY <1>12, <2>1, <2>2, <2>3 DEF TypeOK, MarkSent, histVars
  <1>13. ASSUME StoreResult PROVE TypeOK'
    <2>1. JournalTypeOK'
      BY <1>13 DEF TypeOK, StoreResult, journalVars, JournalTypeOK
    <2>2. LoopTypeOK'
      BY <1>13 DEF TypeOK, LoopTypeOK, StoreResult, PcMatchesSlot
    <2>3. AppTypeOK'
      BY <1>13 DEF TypeOK, AppTypeOK, StoreResult, appVars
    <2>4. QED
      BY <1>13, <2>1, <2>2, <2>3 DEF TypeOK, StoreResult, histVars
  <1>14. ASSUME Finish PROVE TypeOK'
    <2>1. JournalTypeOK'
      BY <1>14, FinishedType
         DEF TypeOK, Finish, PcMatchesSlot, SlotMatchesJournal
    <2>2. LoopTypeOK'
      BY <1>14 DEF TypeOK, LoopTypeOK, Finish
    <2>3. AppTypeOK'
      BY <1>14 DEF TypeOK, AppTypeOK, Finish, appVars
    <2>4. QED
      BY <1>14, <2>1, <2>2, <2>3 DEF TypeOK, Finish, histVars
  <1>15. ASSUME Crash PROVE TypeOK'
    <2>1. JournalTypeOK'
      BY <1>15 DEF TypeOK, Crash, JournalTypeOK
    <2>2. LoopTypeOK'
      BY <1>15 DEF TypeOK, LoopTypeOK, Crash, RunState, Req, Exec
    <2>3. AppTypeOK'
      BY <1>15 DEF TypeOK, AppTypeOK, Crash
    <2>4. QED
      BY <1>15, <2>1, <2>2, <2>3 DEF TypeOK, Crash, histVars
  <1>16. ASSUME Open PROVE TypeOK'
    <2>1. JournalTypeOK'
      BY <1>16 DEF TypeOK, Open, JournalTypeOK
    <2>2. LoopTypeOK'
      BY <1>16 DEF TypeOK, LoopTypeOK, Open
    <2>3. AppTypeOK'
      BY <1>16 DEF TypeOK, AppTypeOK, Open, appVars
    <2>4. QED
      BY <1>16, <2>1, <2>2, <2>3 DEF TypeOK, Open, histVars
  <1>17. ASSUME Serve PROVE TypeOK'
    <2>1. JournalTypeOK'
      BY <1>17 DEF TypeOK, Serve, journalVars, JournalTypeOK
    <2>2. LoopTypeOK'
      BY <1>17 DEF TypeOK, LoopTypeOK, Serve, JournalTypeOK
    <2>3. AppTypeOK'
      BY <1>17 DEF TypeOK, AppTypeOK, Serve, appVars
    <2>4. QED
      BY <1>17, <2>1, <2>2, <2>3 DEF TypeOK, Serve, histVars
  <1>18. ASSUME NEW a \in Action, Register(a) PROVE TypeOK'
    <2>1. JournalTypeOK'
      BY <1>18 DEF TypeOK, Register, journalVars, JournalTypeOK
    <2>2. LoopTypeOK'
      BY <1>18 DEF TypeOK, LoopTypeOK, Register, loopVars
    <2>3. AppTypeOK'
      BY <1>18 DEF TypeOK, AppTypeOK, Register
    <2>4. QED
      BY <1>18, <2>1, <2>2, <2>3 DEF TypeOK, Register, histVars
  <1>19. ASSUME NEW a \in Action, AppRun(a) PROVE TypeOK'
    <2>1. JournalTypeOK'
      BY <1>19 DEF TypeOK, AppRun, journalVars, JournalTypeOK
    <2>2. LoopTypeOK'
      BY <1>19 DEF TypeOK, LoopTypeOK, AppRun, loopVars
    <2>3. AppTypeOK'
      <3>1. PICK d \in inbox[a], k \in Answer :
              /\ ran' = [ran EXCEPT ![d[1]][d[2]] = TRUE]
              /\ inbox' = [inbox EXCEPT ![a] = @ \ {d}]
              /\ answers' = [answers EXCEPT ![a] =
                               Append(@, [e |-> d[1], r |-> d[2], kind |-> k])]
        BY <1>19 DEF AppRun
      <3>2. d[1] \in Exec /\ d[2] \in Req
        BY <3>1 DEF TypeOK, AppTypeOK
      <3>3. [e |-> d[1], r |-> d[2], kind |-> k] \in Frame
        BY <3>2 DEF Frame
      <3>4. answers' \in [Action -> Seq(Frame)]
        BY <3>1, <3>3 DEF TypeOK, AppTypeOK
      <3>5. ran' \in [Exec -> [Req -> BOOLEAN]]
        BY <3>1, <3>2 DEF TypeOK, AppTypeOK
      <3>6. QED
        BY <1>19, <3>1, <3>4, <3>5 DEF TypeOK, AppTypeOK, AppRun
    <2>4. QED
      BY <1>19, <2>1, <2>2, <2>3 DEF TypeOK, AppRun, histVars
  <1>20. ASSUME NEW a \in Action, AppRepeat(a) PROVE TypeOK'
    <2>1. JournalTypeOK'
      BY <1>20 DEF TypeOK, AppRepeat, journalVars, JournalTypeOK
    <2>2. LoopTypeOK'
      BY <1>20 DEF TypeOK, LoopTypeOK, AppRepeat, loopVars
    <2>3. AppTypeOK'
      BY <1>20 DEF TypeOK, AppTypeOK, AppRepeat
    <2>4. QED
      BY <1>20, <2>1, <2>2, <2>3 DEF TypeOK, AppRepeat, histVars
  <1>21. ASSUME NEW a \in Action, AppRunOrphan(a) PROVE TypeOK'
    <2>1. JournalTypeOK'
      BY <1>21 DEF TypeOK, AppRunOrphan, journalVars, JournalTypeOK
    <2>2. LoopTypeOK'
      BY <1>21 DEF TypeOK, LoopTypeOK, AppRunOrphan, loopVars
    <2>3. AppTypeOK'
      <3>1. PICK d \in orphans[a] :
              /\ ran' = [ran EXCEPT ![d[1]][d[2]] = TRUE]
              /\ orphans' = [orphans EXCEPT ![a] = @ \ {d}]
        BY <1>21 DEF AppRunOrphan
      <3>2. ran' \in [Exec -> [Req -> BOOLEAN]] /\ orphans' \in [Action -> SUBSET (Exec \X Req)]
        BY <3>1 DEF TypeOK, AppTypeOK
      <3>3. QED
        BY <1>21, <3>2 DEF TypeOK, AppTypeOK, AppRunOrphan
    <2>4. QED
      BY <1>21, <2>1, <2>2, <2>3 DEF TypeOK, AppRunOrphan, histVars
  <1>22. ASSUME NEW a \in Action, AppDies(a) PROVE TypeOK'
    <2>1. JournalTypeOK'
      BY <1>22 DEF TypeOK, AppDies, journalVars, JournalTypeOK
    <2>2. LoopTypeOK'
      BY <1>22 DEF TypeOK, LoopTypeOK, AppDies, loopVars
    <2>3. AppTypeOK'
      <3>1. ran' \in [Exec -> [Req -> BOOLEAN]]
        <4>1. CASE UNCHANGED ran
          BY <4>1 DEF TypeOK, AppTypeOK
        <4>2. ASSUME NEW d \in inbox[a], ran' = [ran EXCEPT ![d[1]][d[2]] = TRUE]
              PROVE  ran' \in [Exec -> [Req -> BOOLEAN]]
          <5>1. d[1] \in Exec /\ d[2] \in Req
            BY <4>2 DEF TypeOK, AppTypeOK
          <5>2. QED
            BY <4>2, <5>1 DEF TypeOK, AppTypeOK
        <4>3. QED
          BY <1>22, <4>1, <4>2 DEF AppDies
      <3>2. QED
        BY <1>22, <3>1 DEF TypeOK, AppTypeOK, AppDies
    <2>4. QED
      BY <1>22, <2>1, <2>2, <2>3 DEF TypeOK, AppDies, histVars
  <1>23. CASE UNCHANGED vars
    BY <1>23 DEF vars, journalVars, loopVars, appVars, histVars,
                 TypeOK, JournalTypeOK, LoopTypeOK, AppTypeOK
  <1>24. QED
    BY <1>1, <1>2, <1>3, <1>4, <1>5, <1>6, <1>7, <1>8, <1>9, <1>10,
       <1>11, <1>12,
       <1>13, <1>14, <1>15, <1>16, <1>17, <1>18, <1>19, <1>20, <1>21, <1>22, <1>23
       DEF Next

-----------------------------------------------------------------------------
(* The effects of the steps that carry the argument.                       *)

\* What receive_result does with a valid result: the delivery is closed with
\* the kind k of the awaited frame, and the execution ends or goes on.
AcceptStep(e, k) ==
  /\ pc = "idle" /\ state[e] = "SENT" /\ owns[e]
  /\ k \in {"Success", "AppError"}
  /\ answers[ActionFor(e)] # <<>>
  /\ answers[ActionFor(e)][1].e = e /\ answers[ActionFor(e)][1].r = req[e]
  /\ AppendClosing(e, req[e], k)
  /\ answers' = [answers EXCEPT ![ActionFor(e)] = Tail(@)]
  /\ owns' = [owns EXCEPT ![e] = FALSE]
  /\ \/ /\ state' = [state EXCEPT ![e] = "COMPLETE"]
        /\ outcome' = [outcome EXCEPT ![e] = k]
        /\ pc' = "store" /\ cur' = e
        /\ UNCHANGED <<node, req>>
     \/ /\ state' = [state EXCEPT ![e] = "READY"]
        /\ \E t \in Node : node' = [node EXCEPT ![e] = t]
        /\ req' = [req EXCEPT ![e] = @ + 1]
        /\ req[e] < MaxReqId
        /\ UNCHANGED <<outcome, pc, cur>>
  /\ UNCHANGED <<floor, results, fd, inbox, orphans, ran, histVars>>

\* receive_result, freed of the choice among the targets of a Dispatch.
LEMMA AcceptIsStep ==
  ASSUME TypeOK, NEW e \in Exec, Accept(e)
  PROVE  \E k \in {"Success", "AppError"} : AcceptStep(e, k)
  <1> DEFINE f == Head(answers[ActionFor(e)])
  <1>1. req[e] \in Req /\ node[e] \in Node /\ ActionFor(e) \in Action
    BY LoopAssumption DEF TypeOK, LoopTypeOK, ActionFor
  <1>2. f \in Frame /\ f = answers[ActionFor(e)][1]
    BY <1>1 DEF TypeOK, AppTypeOK, Accept
  <1>3. f.kind \in {"Success", "AppError"}
    BY <1>2 DEF Accept, Acceptable, Frame, Answer
  <1>4. PICK t \in Targets(e, f.kind) :
          \/ /\ t = Done
             /\ state' = [state EXCEPT ![e] = "COMPLETE"]
             /\ outcome' = [outcome EXCEPT ![e] = f.kind]
             /\ pc' = "store" /\ cur' = e
             /\ UNCHANGED <<node, req>>
          \/ /\ t # Done
             /\ state' = [state EXCEPT ![e] = "READY"]
             /\ node' = [node EXCEPT ![e] = t]
             /\ req' = [req EXCEPT ![e] = @ + 1]
             /\ UNCHANGED <<outcome, pc, cur>>
    BY DEF Accept
  <1>5. t \in Node \cup {Done}
    BY <1>1, <1>3, LoopAssumption DEF Targets
  <1>6. t # Done => req[e] < MaxReqId
    BY <1>3, <1>4 DEF Accept, Acceptable
  <1>7. AcceptStep(e, f.kind)
    <2>1. /\ pc = "idle" /\ state[e] = "SENT" /\ owns[e]
          /\ answers[ActionFor(e)] # <<>>
          /\ f.e = e /\ f.r = req[e]
          /\ AppendClosing(e, req[e], f.kind)
          /\ answers' = [answers EXCEPT ![ActionFor(e)] = Tail(@)]
          /\ owns' = [owns EXCEPT ![e] = FALSE]
          /\ UNCHANGED <<floor, results, fd, inbox, orphans, ran, histVars>>
      BY DEF Accept, Acceptable
    <2>2. QED
      BY <1>2, <1>3, <1>4, <1>5, <1>6, <2>1 DEF AcceptStep
  <1>8. QED
    BY <1>3, <1>7

\* A closing Action fact changes one delivery and one aggregate.
LEMMA ClosingEffect ==
  ASSUME JournalTypeOK, NEW e \in Exec, NEW r \in Req, NEW o \in Outcome,
         AppendClosing(e, r, o), NEW f \in Exec, NEW q \in Req
  PROVE  /\ jdel'[f][q] = IF f = e /\ q = r THEN o ELSE jdel[f][q]
         /\ jagg'[f] = IF f = e THEN Stronger(o, jagg[e]) ELSE jagg[f]
         /\ UNCHANGED <<jtail, jlast, jphase, jhi>>
         /\ jok' => jok
  BY DEF AppendClosing, JournalTypeOK, Sound

\* DeliveryPrepared changes one delivery and the largest request id.
LEMMA PreparedEffect ==
  ASSUME JournalTypeOK, NEW e \in Exec, NEW r \in Req, AppendPrepared(e, r),
         NEW f \in Exec, NEW q \in Req
  PROVE  /\ jdel'[f][q] = IF f = e /\ q = r THEN "prepared" ELSE jdel[f][q]
         /\ jhi'[f] = IF f = e THEN r ELSE jhi[f]
         /\ UNCHANGED <<jtail, jlast, jphase, jagg>>
         /\ jok' => jok
  BY DEF AppendPrepared, JournalTypeOK, Sound

\* DeliverySent changes one delivery.
LEMMA SentEffect ==
  ASSUME JournalTypeOK, NEW e \in Exec, NEW r \in Req, AppendSent(e, r),
         NEW f \in Exec, NEW q \in Req
  PROVE  /\ jdel'[f][q] = IF f = e /\ q = r THEN "sent" ELSE jdel[f][q]
         /\ UNCHANGED <<jtail, jlast, jphase, jhi, jagg>>
         /\ jok' => jok
  BY DEF AppendSent, JournalTypeOK, Sound

\* A closing fact always leaves an aggregate, its own outcome when only
\* successes came before (outcome_precedence).
LEMMA StrongerIsOutcome ==
  ASSUME NEW o \in Outcome, NEW p \in Outcome \cup {"none"}
  PROVE  /\ Stronger(o, p) \in Outcome
         /\ p \in {"none", "Success"} => Stronger(o, p) = o
         /\ p = "AppError" => Stronger(o, p) = IF o = "Unknown" THEN o ELSE p
  BY DEF Stronger, Outcome, Precedence

-----------------------------------------------------------------------------
(* The inductive invariant, one lemma per part.                            *)

\* A step of a handler leaves the execution at hand where the next step of
\* that handler expects it (loop_linux.c).
LEMMA NextPcMatchesSlot ==
  ASSUME TypeOK, MemoryMatchesDisk, [Next]_vars
  PROVE  PcMatchesSlot'
  <1>1. ASSUME NEW e \in Exec, Admit(e) PROVE PcMatchesSlot'
    BY <1>1
       DEF MemoryMatchesDisk, PcMatchesSlot, Serving, TypeOK, LoopTypeOK,
           Admit, AppendStarted, appVars, histVars
  <1>2. ASSUME NEW e \in Exec, AdmitFails(e) PROVE PcMatchesSlot'
    BY <1>2
       DEF MemoryMatchesDisk, PcMatchesSlot, Serving, TypeOK, LoopTypeOK,
           AdmitFails, AppendStarted, journalVars, loopVars, appVars
  <1>3. ASSUME NEW e \in Exec, Prepare(e) PROVE PcMatchesSlot'
    BY <1>3
       DEF MemoryMatchesDisk, PcMatchesSlot, Serving, TypeOK, LoopTypeOK,
           Prepare, AppendPrepared, appVars, histVars
  <1>4. ASSUME NEW e \in Exec, Assign(e) PROVE PcMatchesSlot'
    BY <1>4
       DEF MemoryMatchesDisk, PcMatchesSlot, Serving, TypeOK, LoopTypeOK,
           Assign, journalVars, appVars, histVars
  <1>5. ASSUME NEW e \in Exec, Send(e) PROVE PcMatchesSlot'
    BY <1>5
       DEF MemoryMatchesDisk, PcMatchesSlot, Serving, TypeOK, LoopTypeOK,
           Send, journalVars
  <1>6. ASSUME NEW e \in Exec, SendFails(e) PROVE PcMatchesSlot'
    BY <1>6
       DEF MemoryMatchesDisk, PcMatchesSlot, Serving, TypeOK, LoopTypeOK,
           SendFails, EndWithoutValue, AppendClosing, DropAction, histVars
  <1>7. ASSUME NEW e \in Exec, Accept(e) PROVE PcMatchesSlot'
    <2>1. PICK k \in {"Success", "AppError"} : AcceptStep(e, k)
      BY <1>7, AcceptIsStep
    <2>2. QED
      BY <2>1
         DEF MemoryMatchesDisk, PcMatchesSlot, Serving, TypeOK, LoopTypeOK,
             AcceptStep, AppendClosing, histVars
  <1>8. ASSUME NEW e \in Exec, Reject(e) PROVE PcMatchesSlot'
    BY <1>8
       DEF MemoryMatchesDisk, PcMatchesSlot, Serving, TypeOK, LoopTypeOK,
           Reject, EndWithoutValue, AppendClosing, DropAction, histVars
  <1>9. ASSUME NEW e \in Exec, Return(e) PROVE PcMatchesSlot'
    BY <1>9
       DEF MemoryMatchesDisk, PcMatchesSlot, Serving, TypeOK, LoopTypeOK,
           Return, journalVars, appVars
  <1>10. ASSUME NEW e \in Exec, CloseExecution(e) PROVE PcMatchesSlot'
    BY <1>10
       DEF MemoryMatchesDisk, PcMatchesSlot, Serving, TypeOK, LoopTypeOK,
           CloseExecution, AppendFinished, appVars, histVars
  <1>11. ASSUME NEW e \in Exec, NEW r \in Req, CloseDelivery(e, r)
         PROVE  PcMatchesSlot'
    BY <1>11
       DEF MemoryMatchesDisk, PcMatchesSlot, Serving, TypeOK, LoopTypeOK,
           CloseDelivery, AppendClosing, appVars, histVars
  <1>12. ASSUME MarkSent PROVE PcMatchesSlot'
    BY <1>12
       DEF MemoryMatchesDisk, PcMatchesSlot, Serving, TypeOK, LoopTypeOK,
           MarkSent, AppendSent, appVars, histVars
  <1>13. ASSUME StoreResult PROVE PcMatchesSlot'
    BY <1>13
       DEF MemoryMatchesDisk, PcMatchesSlot, Serving, TypeOK, LoopTypeOK,
           StoreResult, journalVars, appVars, histVars
  <1>14. ASSUME Finish PROVE PcMatchesSlot'
    BY <1>14
       DEF MemoryMatchesDisk, PcMatchesSlot, Serving, TypeOK, LoopTypeOK,
           Finish, AppendFinished, appVars, histVars
  <1>15. ASSUME Crash PROVE PcMatchesSlot'
    BY <1>15
       DEF MemoryMatchesDisk, PcMatchesSlot, Serving, TypeOK, LoopTypeOK,
           Crash
  <1>16. ASSUME Open PROVE PcMatchesSlot'
    BY <1>16
       DEF MemoryMatchesDisk, PcMatchesSlot, Serving, TypeOK, LoopTypeOK,
           Open, appVars, histVars
  <1>17. ASSUME Serve PROVE PcMatchesSlot'
    BY <1>17
       DEF MemoryMatchesDisk, PcMatchesSlot, Serving, TypeOK, LoopTypeOK,
           Serve, journalVars, appVars, histVars
  <1>18. ASSUME NEW a \in Action, Register(a) PROVE PcMatchesSlot'
    BY <1>18
       DEF MemoryMatchesDisk, PcMatchesSlot, Serving, TypeOK, LoopTypeOK,
           Register, journalVars, loopVars, histVars
  <1>19. ASSUME NEW a \in Action, AppRun(a) PROVE PcMatchesSlot'
    BY <1>19
       DEF MemoryMatchesDisk, PcMatchesSlot, Serving, TypeOK, LoopTypeOK,
           AppRun, journalVars, loopVars, histVars
  <1>20. ASSUME NEW a \in Action, AppRepeat(a) PROVE PcMatchesSlot'
    BY <1>20
       DEF MemoryMatchesDisk, PcMatchesSlot, Serving, TypeOK, LoopTypeOK,
           AppRepeat, journalVars, loopVars, histVars
  <1>21. ASSUME NEW a \in Action, AppRunOrphan(a) PROVE PcMatchesSlot'
    BY <1>21
       DEF MemoryMatchesDisk, PcMatchesSlot, Serving, TypeOK, LoopTypeOK,
           AppRunOrphan, journalVars, loopVars, histVars
  <1>22. ASSUME NEW a \in Action, AppDies(a) PROVE PcMatchesSlot'
    BY <1>22
       DEF MemoryMatchesDisk, PcMatchesSlot, Serving, TypeOK, LoopTypeOK,
           AppDies, journalVars, loopVars, histVars
  <1>23. CASE UNCHANGED vars
    BY <1>23
       DEF MemoryMatchesDisk, PcMatchesSlot, Serving, TypeOK, LoopTypeOK,
           vars, journalVars, loopVars, appVars, histVars
  <1>24. QED
    BY <1>1, <1>2, <1>3, <1>4, <1>5, <1>6, <1>7, <1>8, <1>9, <1>10,
       <1>11, <1>12, <1>13, <1>14, <1>15, <1>16, <1>17, <1>18,
       <1>19, <1>20, <1>21, <1>22, <1>23
       DEF Next

\* The writer knows of every byte of the file, unless an append failed
\* (hermas_journal_file_append); the startup scan starts from a whole file.
LEMMA NextTailIsCounted ==
  ASSUME TypeOK, TailIsCounted, PcMatchesSlot, [Next]_vars
  PROVE  TailIsCounted'
  <1> USE DEF TailIsCounted, Serving
  <1>1. ASSUME NEW e \in Exec, AdmitFails(e) PROVE TailIsCounted'
    BY <1>1 DEF AdmitFails, loopVars, TypeOK
  <1>2. ASSUME NEW e \in Exec, Admit(e) \/ Prepare(e) \/ Assign(e) \/ Send(e) \/ Return(e)
        PROVE  TailIsCounted'
    BY <1>2 DEF Admit, AppendStarted, Prepare, AppendPrepared, Assign, Send,
                Return, journalVars, histVars
  <1>3. ASSUME NEW e \in Exec, SendFails(e) \/ Accept(e) \/ Reject(e) PROVE TailIsCounted'
    <2>1. UNCHANGED <<jtail, errors>> /\ pc = "idle" /\ pc' \in {"idle", "store", "finish"}
      BY <1>3 DEF SendFails, Accept, Reject, EndWithoutValue, AppendClosing, histVars
    <2>2. QED
      BY <2>1
  <1>4. ASSUME NEW e \in Exec, CloseExecution(e) PROVE TailIsCounted'
    BY <1>4 DEF CloseExecution, AppendFinished, histVars
  <1>5. ASSUME NEW e \in Exec, NEW r \in Req, CloseDelivery(e, r) PROVE TailIsCounted'
    BY <1>5 DEF CloseDelivery, AppendClosing, histVars
  <1>6. CASE MarkSent \/ StoreResult \/ Finish
    BY <1>6 DEF MarkSent, AppendSent, StoreResult, Finish, AppendFinished,
                journalVars, histVars
  <1>7. CASE Crash \/ Open \/ Serve
    BY <1>7 DEF Crash, Open, Serve, journalVars, histVars
  <1>8. ASSUME NEW a \in Action, \/ Register(a) \/ AppRun(a) \/ AppRepeat(a)
                                 \/ AppRunOrphan(a) \/ AppDies(a)
        PROVE  TailIsCounted'
    BY <1>8 DEF Register, AppRun, AppRepeat, AppRunOrphan, AppDies, journalVars,
                loopVars, histVars
  <1>9. CASE UNCHANGED vars
    BY <1>9 DEF vars, journalVars, loopVars, histVars
  <1>10. QED
    BY <1>1, <1>2, <1>3, <1>4, <1>5, <1>6, <1>7, <1>8, <1>9 DEF Next

\* An execution that keeps its slot still has the app error it recovered from:
\* its request id never falls and the facts before it never change.
LEMMA NextRecovered ==
  ASSUME TypeOK, MemoryMatchesDisk, [Next]_vars,
         NEW f \in Exec, Recovered(f), state[f] # "EMPTY", state'[f] # "EMPTY"
  PROVE  Recovered(f)'
  <1> USE DEF Recovered
  <1>0. /\ JournalTypeOK /\ \A e \in Exec : req[e] \in Req /\ req[e] \in Nat
        /\ PcMatchesSlot
    BY DEF TypeOK, LoopTypeOK, Req, MemoryMatchesDisk
  <1>1. ASSUME NEW e \in Exec, Admit(e) \/ AdmitFails(e) PROVE Recovered(f)'
    <2>1. jdel' = jdel /\ req'[f] = req[f]
      BY <1>1 DEF Admit, AdmitFails, AppendStarted, journalVars, loopVars, TypeOK,
                  LoopTypeOK
    <2>2. QED
      BY <2>1
  <1>2. ASSUME NEW e \in Exec, Prepare(e) PROVE Recovered(f)'
    <2>1. AppendPrepared(e, req[e]) /\ req' = req
      BY <1>2 DEF Prepare
    <2>2. \A q \in Req : q < req[f] => jdel'[f][q] = jdel[f][q]
      BY <1>0, <2>1, PreparedEffect
    <2>3. QED
      BY <2>1, <2>2
  <1>3. ASSUME NEW e \in Exec, Assign(e) \/ Send(e) \/ Return(e) PROVE Recovered(f)'
    BY <1>3 DEF Assign, Send, Return, journalVars
  <1>4. ASSUME NEW e \in Exec, NEW o \in Outcome, EndWithoutValue(e, o) PROVE Recovered(f)'
    <2>1. AppendClosing(e, req[e], o) /\ req' = req
      BY <1>4 DEF EndWithoutValue
    <2>2. \A q \in Req : q < req[f] => jdel'[f][q] = jdel[f][q]
      BY <1>0, <2>1, ClosingEffect
    <2>3. QED
      BY <2>1, <2>2
  <1>5. ASSUME NEW e \in Exec, SendFails(e) \/ Reject(e) PROVE Recovered(f)'
    BY <1>4, <1>5 DEF SendFails, Reject, Outcome
  <1>6. ASSUME NEW e \in Exec, Accept(e) PROVE Recovered(f)'
    <2>1. PICK k \in {"Success", "AppError"} : AcceptStep(e, k)
      BY <1>6, AcceptIsStep
    <2>2. AppendClosing(e, req[e], k) /\ k \in Outcome
      BY <2>1 DEF AcceptStep, Outcome
    <2>3. req'[f] >= req[f] /\ req'[f] \in Int
      <3>1. req' = req \/ req' = [req EXCEPT ![e] = @ + 1]
        BY <2>1 DEF AcceptStep
      <3>2. QED
        BY <1>0, <3>1 DEF TypeOK, LoopTypeOK
    <2>4. \A q \in Req : q < req[f] => jdel'[f][q] = jdel[f][q]
      BY <1>0, <2>2, ClosingEffect
    <2>5. PICK r \in Req : r < req[f] /\ jdel[f][r] = "AppError"
      OBVIOUS
    <2>6. r < req'[f] /\ jdel'[f][r] = "AppError"
      BY <1>0, <2>3, <2>4, <2>5 DEF Req
    <2>7. QED
      BY <2>6
  <1>7. CASE MarkSent
    <2>1. cur \in Exec /\ AppendSent(cur, req[cur]) /\ req' = req
      BY <1>0, <1>7 DEF MarkSent, PcMatchesSlot
    <2>2. \A q \in Req : q < req[f] => jdel'[f][q] = jdel[f][q]
      BY <1>0, <2>1, SentEffect
    <2>3. QED
      BY <2>1, <2>2
  <1>8. CASE StoreResult \/ Finish
    BY <1>8 DEF StoreResult, Finish, AppendFinished, journalVars
  <1>9. ASSUME \/ \E e \in Exec : CloseExecution(e) \/ \E r \in Req : CloseDelivery(e, r)
               \/ Crash \/ Open \/ Serve
        PROVE  FALSE
    BY <1>0, <1>9 DEF CloseExecution, CloseDelivery, Crash, Open, Serve, PcMatchesSlot, Serving
  <1>10. ASSUME NEW a \in Action, \/ Register(a) \/ AppRun(a) \/ AppRepeat(a)
                                  \/ AppRunOrphan(a) \/ AppDies(a)
         PROVE  Recovered(f)'
    BY <1>10 DEF Register, AppRun, AppRepeat, AppRunOrphan, AppDies, journalVars, loopVars
  <1>11. CASE UNCHANGED vars
    BY <1>11 DEF vars, journalVars, loopVars
  <1>12. QED
    BY <1>1, <1>2, <1>3, <1>5, <1>6, <1>7, <1>8, <1>9, <1>10, <1>11 DEF Next

\* The open deliveries of an execution depend on its own facts only.
LEMMA SameOpen ==
  ASSUME NEW f \in Exec, \A q \in Req : jdel'[f][q] = jdel[f][q]
  PROVE  OpenOf(f)' = OpenOf(f)
  BY DEF OpenOf, IsOpen

\* Every handler leaves the slot of an execution and the records of its
\* deliveries in agreement (prepare_ready, send_invocation, receive_result,
\* append_finished_if_complete).
LEMMA NextSlotMatchesJournal ==
  ASSUME TypeOK, MemoryMatchesDisk, [Next]_vars
  PROVE  \A f \in Exec : SlotMatchesJournal(f)'
  <1> SUFFICES ASSUME NEW f \in Exec
               PROVE  SlotMatchesJournal(f)'
    OBVIOUS
  <1>0. /\ SlotMatchesJournal(f)
        /\ UNCHANGED jdel => OpenOf(f)' = OpenOf(f)
        /\ state[f] # "EMPTY" /\ state'[f] # "EMPTY" /\ Recovered(f) => Recovered(f)'
    BY SameOpen, NextRecovered DEF MemoryMatchesDisk
  <1>1. ASSUME NEW e \in Exec, Admit(e) PROVE SlotMatchesJournal(f)'
    <2>1. jhi[e] = 0 /\ jagg[e] = "none"
      BY <1>1 DEF Admit, MemoryMatchesDisk, IdIsSpent, Serving
    <2>2. OpenOf(e) = {}
      BY <2>1 DEF MemoryMatchesDisk, DeliveryFact, OpenOf, IsOpen, Req
    <2>3. QED
      BY <1>1, <1>0, <2>1, <2>2, JournalAssumption, SMTT(40)
         DEF SlotMatchesJournal, Ending, Outranked, JournalTypeOK, TypeOK, LoopTypeOK, Req,
             Admit, AppendStarted, histVars
  <1>2. ASSUME NEW e \in Exec, AdmitFails(e) PROVE SlotMatchesJournal(f)'
    <2>1. CASE UNCHANGED journalVars
      BY <1>2, <2>1, <1>0
         DEF MemoryMatchesDisk, SlotMatchesJournal, Ending, Outranked, PcMatchesSlot,
             Serving, JournalTypeOK, TypeOK, LoopTypeOK, AdmitFails,
             journalVars, loopVars, appVars
    <2>2. CASE jtail' = "torn" /\ UNCHANGED <<jok, jlast, jphase, jdel, jhi, jagg>>
      BY <1>2, <2>2, <1>0
         DEF MemoryMatchesDisk, SlotMatchesJournal, Ending, Outranked, PcMatchesSlot,
             Serving, JournalTypeOK, TypeOK, LoopTypeOK, AdmitFails,
             loopVars, appVars
    <2>3. CASE AppendStarted(e, "unsynced")
      BY <1>2, <2>3, <1>0
         DEF MemoryMatchesDisk, SlotMatchesJournal, Ending, Outranked, PcMatchesSlot,
             Serving, JournalTypeOK, TypeOK, LoopTypeOK, AdmitFails,
             AppendStarted, loopVars, appVars
    <2>4. QED
      BY <1>2, <2>1, <2>2, <2>3 DEF AdmitFails
  <1>3. ASSUME NEW e \in Exec, Prepare(e) PROVE SlotMatchesJournal(f)'
    <2>1. req[e] \in Req /\ JournalTypeOK /\ AppendPrepared(e, req[e])
      BY <1>3 DEF TypeOK, LoopTypeOK, Prepare
    <2>2. CASE f # e
      <3>1. OpenOf(f)' = OpenOf(f)
        BY <2>1, <2>2, PreparedEffect, SameOpen
      <3>2. QED
        BY <1>3, <1>0, <2>2, <3>1
           DEF SlotMatchesJournal, Ending, Outranked, JournalTypeOK, TypeOK, LoopTypeOK,
               Prepare, AppendPrepared, histVars
    <2>3. CASE f = e
      <3>1. OpenOf(e) = {} /\ jhi[e] < req[e]
        BY <1>3, <1>0, <2>3 DEF SlotMatchesJournal, Prepare
      <3>2. OpenOf(e)' = {req[e]}
        BY <2>1, <3>1, PreparedEffect DEF OpenOf, IsOpen
      <3>3. jdel[e][req[e]] = "none"
        BY <2>1, <3>1 DEF MemoryMatchesDisk, DeliveryFact
      <3>4. sends[e][req[e]] = 0
        BY <2>1, <3>3 DEF MemoryMatchesDisk, DeliveryFact
      <3>5. jdel'[e][req[e]] = "prepared" /\ jhi'[e] = req[e] /\ UNCHANGED <<jphase, jagg>>
        BY <2>1, PreparedEffect
      <3>6. QED
        BY <1>3, <1>0, <2>3, <3>2, <3>4, <3>5
           DEF SlotMatchesJournal, Ending, Outranked, TypeOK, LoopTypeOK, Prepare, histVars
    <2>4. QED
      BY <2>2, <2>3
  <1>4. ASSUME NEW e \in Exec, Assign(e) PROVE SlotMatchesJournal(f)'
    BY <1>4, <1>0, JournalAssumption
       DEF MemoryMatchesDisk, SlotMatchesJournal, Ending, Outranked, PcMatchesSlot,
           Serving, JournalTypeOK, TypeOK, LoopTypeOK, Assign, journalVars,
           appVars, histVars
  <1>5. ASSUME NEW e \in Exec, Send(e) PROVE SlotMatchesJournal(f)'
    BY <1>5, <1>0, JournalAssumption
       DEF MemoryMatchesDisk, SlotMatchesJournal, Ending, Outranked, PcMatchesSlot,
           Serving, JournalTypeOK, TypeOK, LoopTypeOK, Send, journalVars
  <1>6. ASSUME NEW e \in Exec, SendFails(e) PROVE SlotMatchesJournal(f)'
    <2>1. req[e] \in Req /\ JournalTypeOK /\ AppendClosing(e, req[e], "NotSent")
      BY <1>6 DEF TypeOK, LoopTypeOK, SendFails, EndWithoutValue
    <2>2. "NotSent" \in Outcome
      BY DEF Outcome
    <2>3. CASE f # e
      <3>1. OpenOf(f)' = OpenOf(f)
        BY <2>1, <2>2, <2>3, ClosingEffect, SameOpen
      <3>2. QED
        BY <1>6, <1>0, <2>3, <3>1
           DEF SlotMatchesJournal, Ending, Outranked, JournalTypeOK, TypeOK, LoopTypeOK,
               SendFails, EndWithoutValue, AppendClosing, histVars
    <2>4. CASE f = e
      <3>1. OpenOf(e)' = {}
        BY <1>6, <2>1, <2>2, <2>4, <1>0, ClosingEffect
           DEF SendFails, SlotMatchesJournal, OpenOf, IsOpen, Outcome
      <3>2. /\ jphase[e] = "open" /\ state[e] # "EMPTY"
            /\ \/ jagg[e] \in {"none", "Success"}
               \/ jagg[e] = "AppError" /\ Recovered(e)
        BY <1>6, <1>0, <2>4 DEF SendFails, SlotMatchesJournal
      <3>3. \/ jagg'[e] = "NotSent"
            \/ jagg'[e] = "AppError" /\ "NotSent" = "NotSent" /\ Recovered(e)
        BY <2>1, <2>2, <3>2, ClosingEffect, StrongerIsOutcome DEF JournalTypeOK
      <3>4. QED
        BY <1>6, <1>0, <2>1, <2>2, <2>4, <3>1, <3>2, <3>3
           DEF SlotMatchesJournal, Ending, Outranked, TypeOK, LoopTypeOK, SendFails,
               EndWithoutValue, AppendClosing
    <2>5. QED
      BY <2>3, <2>4
  <1>7. ASSUME NEW e \in Exec, Accept(e) PROVE SlotMatchesJournal(f)'
    <2>1. PICK k \in {"Success", "AppError"} : AcceptStep(e, k)
      BY <1>7, AcceptIsStep
    <2>2. req[e] \in Req /\ JournalTypeOK /\ AppendClosing(e, req[e], k) /\ k \in Outcome
      BY <2>1 DEF TypeOK, LoopTypeOK, AcceptStep, Outcome
    <2>3. CASE f # e
      <3>1. OpenOf(f)' = OpenOf(f)
        BY <2>2, <2>3, ClosingEffect, SameOpen
      <3>2. QED
        BY <2>1, <1>0, <2>3, <3>1, SMTT(40)
           DEF SlotMatchesJournal, Ending, Outranked, JournalTypeOK, TypeOK, LoopTypeOK,
               AcceptStep, AppendClosing, histVars
    <2>4. CASE f = e
      <3>1. OpenOf(e)' = {}
        BY <2>1, <2>2, <2>4, <1>0, ClosingEffect
           DEF AcceptStep, SlotMatchesJournal, OpenOf, IsOpen, Outcome
      <3>2. /\ jphase[e] = "open" /\ jhi[e] = req[e]
            /\ \/ jagg[e] \in {"none", "Success"}
               \/ jagg[e] = "AppError" /\ Recovered(e)
        BY <2>1, <1>0, <2>4 DEF AcceptStep, SlotMatchesJournal
      <3>3. /\ jagg'[e] = k \/ (jagg'[e] = "AppError" /\ Recovered(e))
            /\ jdel'[e][req[e]] = k
        BY <2>2, <3>2, ClosingEffect, StrongerIsOutcome DEF JournalTypeOK
      <3>4. jphase'[e] = "open" /\ jhi'[e] = req[e]
        BY <2>2, <3>2 DEF AppendClosing
      <3>5. CASE state' = [state EXCEPT ![e] = "READY"]
        <4>1. /\ state'[e] = "READY" /\ req'[e] = req[e] + 1 /\ UNCHANGED pc /\ pc = "idle"
              /\ state[e] # "EMPTY" /\ req[e] \in Nat
          BY <2>1, <2>2, <3>5 DEF AcceptStep, TypeOK, LoopTypeOK, Req
        <4>2. k = "AppError" => Recovered(e)'
          BY <2>2, <3>3, <4>1 DEF Recovered
        <4>3. Recovered(e) => Recovered(e)'
          BY <1>0, <2>4, <4>1
        <4>4. jagg'[e] \in {"none", "Success"} \/ (jagg'[e] = "AppError" /\ Recovered(e)')
          BY <3>3, <4>2, <4>3
        <4>5. jphase'[e] = "open" /\ OpenOf(e)' = {} /\ jhi'[e] < req'[e]
          BY <3>1, <3>4, <4>1
        <4>6. QED
          BY <2>4, <4>1, <4>4, <4>5 DEF SlotMatchesJournal, Ending
      <3>6. CASE state' = [state EXCEPT ![e] = "COMPLETE"]
        <4>1. /\ state'[e] = "COMPLETE" /\ pc' = "store" /\ cur' = e
              /\ state[e] # "EMPTY" /\ outcome'[e] = k
          BY <2>1, <3>6 DEF AcceptStep, TypeOK, LoopTypeOK
        <4>2. jagg'[e] = k \/ (jagg'[e] = "AppError" /\ Recovered(e)')
          BY <1>0, <2>4, <3>3, <4>1
        <4>3. jagg'[e] = outcome'[e] \/ Outranked(e)'
          BY <4>1, <4>2 DEF Outranked
        <4>4. QED
          BY <2>2, <2>4, <3>1, <3>4, <4>1, <4>3 DEF SlotMatchesJournal, Ending
      <3>7. QED
        BY <2>1, <3>5, <3>6 DEF AcceptStep
    <2>5. QED
      BY <2>3, <2>4
  <1>8. ASSUME NEW e \in Exec, Reject(e) PROVE SlotMatchesJournal(f)'
    <2>1. req[e] \in Req /\ JournalTypeOK /\ AppendClosing(e, req[e], "Unknown")
      BY <1>8 DEF TypeOK, LoopTypeOK, Reject, EndWithoutValue
    <2>2. "Unknown" \in Outcome
      BY DEF Outcome
    <2>3. CASE f # e
      <3>1. OpenOf(f)' = OpenOf(f)
        BY <2>1, <2>2, <2>3, ClosingEffect, SameOpen
      <3>2. QED
        BY <1>8, <1>0, <2>3, <3>1
           DEF SlotMatchesJournal, Ending, Outranked, JournalTypeOK, TypeOK, LoopTypeOK,
               Reject, EndWithoutValue, AppendClosing, histVars
    <2>4. CASE f = e
      <3>1. OpenOf(e)' = {}
        BY <1>8, <2>1, <2>2, <2>4, <1>0, ClosingEffect
           DEF Reject, SlotMatchesJournal, OpenOf, IsOpen, Outcome
      <3>2. /\ jphase[e] = "open" /\ state[e] # "EMPTY"
            /\ \/ jagg[e] \in {"none", "Success"}
               \/ jagg[e] = "AppError" /\ Recovered(e)
        BY <1>8, <1>0, <2>4 DEF Reject, SlotMatchesJournal
      <3>3. \/ jagg'[e] = "Unknown"
            \/ jagg'[e] = "AppError" /\ "Unknown" = "NotSent" /\ Recovered(e)
        BY <2>1, <2>2, <3>2, ClosingEffect, StrongerIsOutcome DEF JournalTypeOK
      <3>4. QED
        BY <1>8, <1>0, <2>1, <2>2, <2>4, <3>1, <3>2, <3>3
           DEF SlotMatchesJournal, Ending, Outranked, TypeOK, LoopTypeOK, Reject,
               EndWithoutValue, AppendClosing
    <2>5. QED
      BY <2>3, <2>4
  <1>9. ASSUME NEW e \in Exec, Return(e) PROVE SlotMatchesJournal(f)'
    BY <1>9, <1>0, JournalAssumption
       DEF MemoryMatchesDisk, SlotMatchesJournal, Ending, Outranked, PcMatchesSlot,
           Serving, JournalTypeOK, TypeOK, LoopTypeOK, Return, journalVars,
           appVars
  <1>10. ASSUME NEW e \in Exec, CloseExecution(e) PROVE SlotMatchesJournal(f)'
    BY <1>10, <1>0, JournalAssumption
       DEF MemoryMatchesDisk, SlotMatchesJournal, Ending, Outranked, PcMatchesSlot,
           Serving, JournalTypeOK, TypeOK, LoopTypeOK, CloseExecution,
           AppendFinished, appVars, histVars
  <1>11. ASSUME NEW e \in Exec, NEW r \in Req, CloseDelivery(e, r)
         PROVE  SlotMatchesJournal(f)'
    BY <1>11, <1>0, JournalAssumption
       DEF MemoryMatchesDisk, SlotMatchesJournal, Ending, Outranked, PcMatchesSlot,
           Serving, JournalTypeOK, TypeOK, LoopTypeOK, CloseDelivery,
           AppendClosing, appVars, histVars
  <1>12. ASSUME MarkSent PROVE SlotMatchesJournal(f)'
    <2>1. cur \in Exec /\ state[cur] = "PREPARED"
      BY <1>12 DEF MarkSent, MemoryMatchesDisk, PcMatchesSlot
    <2>2. req[cur] \in Req /\ JournalTypeOK /\ AppendSent(cur, req[cur])
      BY <1>12, <2>1 DEF TypeOK, LoopTypeOK, MarkSent
    <2>3. OpenOf(f)' = OpenOf(f)
      <3>1. SlotMatchesJournal(cur)
        BY <2>1 DEF MemoryMatchesDisk
      <3>2. jdel[cur][req[cur]] = "prepared"
        BY <2>1, <3>1 DEF SlotMatchesJournal
      <3>3. \A q \in Req : jdel'[f][q] = IF f = cur /\ q = req[cur] THEN "sent" ELSE jdel[f][q]
        BY <2>1, <2>2, SentEffect
      <3>4. QED
        BY <3>2, <3>3 DEF OpenOf, IsOpen
    <2>4. QED
      BY <1>12, <1>0, <2>1, <2>2, <2>3
         DEF SlotMatchesJournal, Ending, Outranked, JournalTypeOK, TypeOK, LoopTypeOK,
             MarkSent, AppendSent, histVars
  <1>13. ASSUME StoreResult PROVE SlotMatchesJournal(f)'
    BY <1>13, <1>0, JournalAssumption
       DEF MemoryMatchesDisk, SlotMatchesJournal, Ending, Outranked, PcMatchesSlot,
           Serving, JournalTypeOK, TypeOK, LoopTypeOK, StoreResult,
           journalVars, appVars, histVars
  <1>14. ASSUME Finish PROVE SlotMatchesJournal(f)'
    BY <1>14, <1>0, JournalAssumption
       DEF MemoryMatchesDisk, SlotMatchesJournal, Ending, Outranked, PcMatchesSlot,
           Serving, JournalTypeOK, TypeOK, LoopTypeOK, Finish,
           AppendFinished, appVars, histVars
  <1>15. ASSUME Crash PROVE SlotMatchesJournal(f)'
    BY <1>15, <1>0, JournalAssumption
       DEF MemoryMatchesDisk, SlotMatchesJournal, Ending, Outranked, PcMatchesSlot,
           Serving, JournalTypeOK, TypeOK, LoopTypeOK, Crash
  <1>16. ASSUME Open PROVE SlotMatchesJournal(f)'
    BY <1>16, <1>0, JournalAssumption
       DEF MemoryMatchesDisk, SlotMatchesJournal, Ending, Outranked, PcMatchesSlot,
           Serving, JournalTypeOK, TypeOK, LoopTypeOK, Open, appVars,
           histVars
  <1>17. ASSUME Serve PROVE SlotMatchesJournal(f)'
    BY <1>17, <1>0, JournalAssumption
       DEF MemoryMatchesDisk, SlotMatchesJournal, Ending, Outranked, PcMatchesSlot,
           Serving, JournalTypeOK, TypeOK, LoopTypeOK, Serve, journalVars,
           appVars, histVars
  <1>18. ASSUME NEW a \in Action, Register(a) PROVE SlotMatchesJournal(f)'
    BY <1>18, <1>0, JournalAssumption
       DEF MemoryMatchesDisk, SlotMatchesJournal, Ending, Outranked, PcMatchesSlot,
           Serving, JournalTypeOK, TypeOK, LoopTypeOK, Register,
           journalVars, loopVars, histVars
  <1>19. ASSUME NEW a \in Action, AppRun(a) PROVE SlotMatchesJournal(f)'
    BY <1>19, <1>0, JournalAssumption
       DEF MemoryMatchesDisk, SlotMatchesJournal, Ending, Outranked, PcMatchesSlot,
           Serving, JournalTypeOK, TypeOK, LoopTypeOK, AppRun, journalVars,
           loopVars, histVars
  <1>20. ASSUME NEW a \in Action, AppRepeat(a) PROVE SlotMatchesJournal(f)'
    BY <1>20, <1>0, JournalAssumption
       DEF MemoryMatchesDisk, SlotMatchesJournal, Ending, Outranked, PcMatchesSlot,
           Serving, JournalTypeOK, TypeOK, LoopTypeOK, AppRepeat,
           journalVars, loopVars, histVars
  <1>21. ASSUME NEW a \in Action, AppRunOrphan(a) PROVE SlotMatchesJournal(f)'
    BY <1>21, <1>0, JournalAssumption
       DEF MemoryMatchesDisk, SlotMatchesJournal, Ending, Outranked, PcMatchesSlot,
           Serving, JournalTypeOK, TypeOK, LoopTypeOK, AppRunOrphan,
           journalVars, loopVars, histVars
  <1>22. ASSUME NEW a \in Action, AppDies(a) PROVE SlotMatchesJournal(f)'
    BY <1>22, <1>0, JournalAssumption
       DEF MemoryMatchesDisk, SlotMatchesJournal, Ending, Outranked, PcMatchesSlot,
           Serving, JournalTypeOK, TypeOK, LoopTypeOK, AppDies, journalVars,
           loopVars, histVars
  <1>23. CASE UNCHANGED vars
    BY <1>23, <1>0
       DEF MemoryMatchesDisk, SlotMatchesJournal, Ending, Outranked, PcMatchesSlot,
           Serving, JournalTypeOK, TypeOK, LoopTypeOK, vars, journalVars,
           loopVars, appVars, histVars
  <1>24. QED
    BY <1>1, <1>2, <1>3, <1>4, <1>5, <1>6, <1>7, <1>8, <1>9, <1>10,
       <1>11, <1>12, <1>13, <1>14, <1>15, <1>16, <1>17, <1>18,
       <1>19, <1>20, <1>21, <1>22, <1>23
       DEF Next

\* Execution ids are used once, in one life of the daemon (admit) and across
\* restarts (set_execution_floor).
LEMMA NextIdsAreSpent ==
  ASSUME TypeOK, MemoryMatchesDisk, [Next]_vars
  PROVE  \A f \in Exec : IdIsSpent(f)'
  <1> SUFFICES ASSUME NEW f \in Exec PROVE IdIsSpent(f)'
    OBVIOUS
  <1>1. ASSUME NEW e \in Exec, Admit(e) PROVE IdIsSpent(f)'
    BY <1>1, JournalAssumption
       DEF MemoryMatchesDisk, IdIsSpent, PcMatchesSlot, Serving,
           SlotMatchesJournal, Ending, JournalTypeOK, Exec, Sound, Outcome,
           TypeOK, LoopTypeOK, Admit, AppendStarted, appVars, histVars
  <1>2. ASSUME NEW e \in Exec, AdmitFails(e) PROVE IdIsSpent(f)'
    <2>1. CASE UNCHANGED journalVars
      BY <1>2, <2>1, JournalAssumption
         DEF MemoryMatchesDisk, IdIsSpent, PcMatchesSlot, Serving,
             SlotMatchesJournal, Ending, JournalTypeOK, Exec, Sound,
             Outcome, TypeOK, LoopTypeOK, AdmitFails, journalVars, loopVars,
             appVars
    <2>2. CASE jtail' = "torn" /\ UNCHANGED <<jok, jlast, jphase, jdel, jhi, jagg>>
      BY <1>2, <2>2, JournalAssumption
         DEF MemoryMatchesDisk, IdIsSpent, PcMatchesSlot, Serving,
             SlotMatchesJournal, Ending, JournalTypeOK, Exec, Sound,
             Outcome, TypeOK, LoopTypeOK, AdmitFails, loopVars, appVars
    <2>3. CASE AppendStarted(e, "unsynced")
      BY <1>2, <2>3, JournalAssumption
         DEF MemoryMatchesDisk, IdIsSpent, PcMatchesSlot, Serving,
             SlotMatchesJournal, Ending, JournalTypeOK, Exec, Sound,
             Outcome, TypeOK, LoopTypeOK, AdmitFails, AppendStarted,
             loopVars, appVars
    <2>4. QED
      BY <1>2, <2>1, <2>2, <2>3 DEF AdmitFails
  <1>3. ASSUME NEW e \in Exec, Prepare(e) PROVE IdIsSpent(f)'
    BY <1>3, JournalAssumption
       DEF MemoryMatchesDisk, IdIsSpent, PcMatchesSlot, Serving,
           SlotMatchesJournal, Ending, JournalTypeOK, Exec, Sound, Outcome,
           TypeOK, LoopTypeOK, Prepare, AppendPrepared, appVars, histVars
  <1>4. ASSUME NEW e \in Exec, Assign(e) PROVE IdIsSpent(f)'
    BY <1>4, JournalAssumption
       DEF MemoryMatchesDisk, IdIsSpent, PcMatchesSlot, Serving,
           SlotMatchesJournal, Ending, JournalTypeOK, Exec, Sound, Outcome,
           TypeOK, LoopTypeOK, Assign, journalVars, appVars, histVars
  <1>5. ASSUME NEW e \in Exec, Send(e) PROVE IdIsSpent(f)'
    BY <1>5, JournalAssumption
       DEF MemoryMatchesDisk, IdIsSpent, PcMatchesSlot, Serving,
           SlotMatchesJournal, Ending, JournalTypeOK, Exec, Sound, Outcome,
           TypeOK, LoopTypeOK, Send, journalVars
  <1>6. ASSUME NEW e \in Exec, SendFails(e) PROVE IdIsSpent(f)'
    BY <1>6, JournalAssumption
       DEF MemoryMatchesDisk, IdIsSpent, PcMatchesSlot, Serving,
           SlotMatchesJournal, Ending, JournalTypeOK, Exec, Sound, Outcome,
           TypeOK, LoopTypeOK, SendFails, EndWithoutValue, AppendClosing,
           DropAction, histVars
  <1>7. ASSUME NEW e \in Exec, Accept(e) PROVE IdIsSpent(f)'
    <2>1. PICK k \in {"Success", "AppError"} : AcceptStep(e, k)
      BY <1>7, AcceptIsStep
    <2>2. e < floor /\ e \in Int /\ floor \in Int /\ jphase[e] = "open"
      BY <2>1
         DEF AcceptStep, MemoryMatchesDisk, IdIsSpent, SlotMatchesJournal,
             Serving, Exec, TypeOK, LoopTypeOK
    <2>3. (jagg'[f] # jagg[f] => f = e) /\ UNCHANGED <<jtail, jlast, jphase, jhi>> /\ (jok' => jok)
      BY <2>1, ClosingEffect DEF AcceptStep, TypeOK, LoopTypeOK, Outcome
    <2>4. (state'[f] = "EMPTY") <=> (state[f] = "EMPTY")
      BY <2>1 DEF AcceptStep, TypeOK, LoopTypeOK
    <2>5. UNCHANGED <<floor, told>> /\ pc = "idle"
      BY <2>1 DEF AcceptStep, histVars
    <2>6. QED
      BY <2>2, <2>3, <2>4, <2>5
         DEF MemoryMatchesDisk, IdIsSpent, Serving, Sound
  <1>8. ASSUME NEW e \in Exec, Reject(e) PROVE IdIsSpent(f)'
    BY <1>8, JournalAssumption, SMTT(40)
       DEF MemoryMatchesDisk, IdIsSpent, PcMatchesSlot, Serving,
           SlotMatchesJournal, Ending, JournalTypeOK, Exec, Sound, Outcome,
           TypeOK, LoopTypeOK, Reject, EndWithoutValue, AppendClosing,
           DropAction, histVars
  <1>9. ASSUME NEW e \in Exec, Return(e) PROVE IdIsSpent(f)'
    <2>1. jphase[e] \in Outcome /\ pc = "idle" /\ UNCHANGED <<journalVars, floor, pc>>
      BY <1>9 DEF Return, MemoryMatchesDisk, SlotMatchesJournal, Ending
    <2>2. state'[e] = "EMPTY" /\ \A g \in Exec \ {e} : state'[g] = state[g] /\ told'[g] = told[g]
      BY <1>9 DEF Return, TypeOK, LoopTypeOK
    <2>3. e < floor /\ e <= jlast
      BY <1>9 DEF Return, MemoryMatchesDisk, IdIsSpent, Serving
    <2>4. CASE f = e
      BY <2>1, <2>2, <2>3, <2>4
         DEF MemoryMatchesDisk, IdIsSpent, Serving, Sound, journalVars,
             Outcome, Exec, TypeOK, LoopTypeOK
    <2>5. CASE f # e
      BY <2>1, <2>2, <2>5
         DEF MemoryMatchesDisk, IdIsSpent, Serving, Sound, journalVars
    <2>6. QED
      BY <2>4, <2>5
  <1>10. ASSUME NEW e \in Exec, CloseExecution(e) PROVE IdIsSpent(f)'
    BY <1>10, JournalAssumption
       DEF MemoryMatchesDisk, IdIsSpent, PcMatchesSlot, Serving,
           SlotMatchesJournal, Ending, JournalTypeOK, Exec, Sound, Outcome,
           TypeOK, LoopTypeOK, CloseExecution, AppendFinished, appVars,
           histVars
  <1>11. ASSUME NEW e \in Exec, NEW r \in Req, CloseDelivery(e, r)
         PROVE  IdIsSpent(f)'
    <2>1. /\ AppendClosing(e, r, "Unknown") /\ jphase[e] = "open" /\ pc = "close"
          /\ UNCHANGED <<state, floor, pc, told>>
      BY <1>11 DEF CloseDelivery, histVars
    <2>2. jagg'[f] # jagg[f] => f = e
      BY <2>1, ClosingEffect DEF TypeOK, Outcome
    <2>3. UNCHANGED <<jlast, jphase, jhi>>
      BY <2>1 DEF AppendClosing
    <2>4. QED
      BY <2>1, <2>2, <2>3 DEF MemoryMatchesDisk, IdIsSpent, Serving
  <1>12. ASSUME MarkSent PROVE IdIsSpent(f)'
    BY <1>12, JournalAssumption
       DEF MemoryMatchesDisk, IdIsSpent, PcMatchesSlot, Serving,
           SlotMatchesJournal, Ending, JournalTypeOK, Exec, Sound, Outcome,
           TypeOK, LoopTypeOK, MarkSent, AppendSent, appVars, histVars
  <1>13. ASSUME StoreResult PROVE IdIsSpent(f)'
    BY <1>13, JournalAssumption
       DEF MemoryMatchesDisk, IdIsSpent, PcMatchesSlot, Serving,
           SlotMatchesJournal, Ending, JournalTypeOK, Exec, Sound, Outcome,
           TypeOK, LoopTypeOK, StoreResult, journalVars, appVars, histVars
  <1>14. ASSUME Finish PROVE IdIsSpent(f)'
    BY <1>14, JournalAssumption
       DEF MemoryMatchesDisk, IdIsSpent, PcMatchesSlot, Serving,
           SlotMatchesJournal, Ending, JournalTypeOK, Exec, Sound, Outcome,
           TypeOK, LoopTypeOK, Finish, AppendFinished, appVars, histVars
  <1>15. ASSUME Crash PROVE IdIsSpent(f)'
    BY <1>15, JournalAssumption
       DEF MemoryMatchesDisk, IdIsSpent, PcMatchesSlot, Serving,
           SlotMatchesJournal, Ending, JournalTypeOK, Exec, Sound, Outcome,
           TypeOK, LoopTypeOK, Crash
  <1>16. ASSUME Open PROVE IdIsSpent(f)'
    BY <1>16, JournalAssumption
       DEF MemoryMatchesDisk, IdIsSpent, PcMatchesSlot, Serving,
           SlotMatchesJournal, Ending, JournalTypeOK, Exec, Sound, Outcome,
           TypeOK, LoopTypeOK, Open, appVars, histVars
  <1>17. ASSUME Serve PROVE IdIsSpent(f)'
    BY <1>17
       DEF MemoryMatchesDisk, IdIsSpent, PcMatchesSlot, Serving, Unfinished,
           Exec,
               TypeOK, JournalTypeOK, Serve, journalVars, histVars
  <1>18. ASSUME NEW a \in Action, Register(a) PROVE IdIsSpent(f)'
    BY <1>18, JournalAssumption
       DEF MemoryMatchesDisk, IdIsSpent, PcMatchesSlot, Serving,
           SlotMatchesJournal, Ending, JournalTypeOK, Exec, Sound, Outcome,
           TypeOK, LoopTypeOK, Register, journalVars, loopVars, histVars
  <1>19. ASSUME NEW a \in Action, AppRun(a) PROVE IdIsSpent(f)'
    BY <1>19, JournalAssumption
       DEF MemoryMatchesDisk, IdIsSpent, PcMatchesSlot, Serving,
           SlotMatchesJournal, Ending, JournalTypeOK, Exec, Sound, Outcome,
           TypeOK, LoopTypeOK, AppRun, journalVars, loopVars, histVars
  <1>20. ASSUME NEW a \in Action, AppRepeat(a) PROVE IdIsSpent(f)'
    BY <1>20, JournalAssumption
       DEF MemoryMatchesDisk, IdIsSpent, PcMatchesSlot, Serving,
           SlotMatchesJournal, Ending, JournalTypeOK, Exec, Sound, Outcome,
           TypeOK, LoopTypeOK, AppRepeat, journalVars, loopVars, histVars
  <1>21. ASSUME NEW a \in Action, AppRunOrphan(a) PROVE IdIsSpent(f)'
    BY <1>21, JournalAssumption
       DEF MemoryMatchesDisk, IdIsSpent, PcMatchesSlot, Serving,
           SlotMatchesJournal, Ending, JournalTypeOK, Exec, Sound, Outcome,
           TypeOK, LoopTypeOK, AppRunOrphan, journalVars, loopVars, histVars
  <1>22. ASSUME NEW a \in Action, AppDies(a) PROVE IdIsSpent(f)'
    BY <1>22, JournalAssumption
       DEF MemoryMatchesDisk, IdIsSpent, PcMatchesSlot, Serving,
           SlotMatchesJournal, Ending, JournalTypeOK, Exec, Sound, Outcome,
           TypeOK, LoopTypeOK, AppDies, journalVars, loopVars, histVars
  <1>23. CASE UNCHANGED vars
    BY <1>23
       DEF MemoryMatchesDisk, IdIsSpent, PcMatchesSlot, Serving,
           SlotMatchesJournal, Ending, JournalTypeOK, Exec, Sound, Outcome,
           TypeOK, LoopTypeOK, vars, journalVars, loopVars, appVars,
           histVars
  <1>24. QED
    BY <1>1, <1>2, <1>3, <1>4, <1>5, <1>6, <1>7, <1>8, <1>9, <1>10,
       <1>11, <1>12, <1>13, <1>14, <1>15, <1>16, <1>17, <1>18,
       <1>19, <1>20, <1>21, <1>22, <1>23
       DEF Next

\* send_invocation, receive_result and close_interrupted keep every delivery
\* record true of what its app saw.
LEMMA NextDeliveryFacts ==
  ASSUME TypeOK, MemoryMatchesDisk, [Next]_vars
  PROVE  \A f \in Exec, q \in Req : DeliveryFact(f, q)'
  <1> SUFFICES ASSUME NEW f \in Exec, NEW q \in Req PROVE DeliveryFact(f, q)'
    OBVIOUS
  <1>1. ASSUME NEW e \in Exec, Admit(e) PROVE DeliveryFact(f, q)'
    BY <1>1, JournalAssumption, LoopAssumption
       DEF MemoryMatchesDisk, DeliveryFact, PcMatchesSlot, Serving,
           SlotMatchesJournal, JournalTypeOK, AppTypeOK, Delivery, Outcome,
           TypeOK, LoopTypeOK, Admit, AppendStarted, appVars, histVars
  <1>2. ASSUME NEW e \in Exec, AdmitFails(e) PROVE DeliveryFact(f, q)'
    <2>1. CASE UNCHANGED journalVars
      BY <1>2, <2>1
         DEF MemoryMatchesDisk, DeliveryFact, PcMatchesSlot, Serving,
             SlotMatchesJournal, JournalTypeOK, AppTypeOK, Delivery,
             Outcome, TypeOK, LoopTypeOK, AdmitFails, journalVars, loopVars,
             appVars
    <2>2. CASE jtail' = "torn" /\ UNCHANGED <<jok, jlast, jphase, jdel, jhi, jagg>>
      BY <1>2, <2>2
         DEF MemoryMatchesDisk, DeliveryFact, PcMatchesSlot, Serving,
             SlotMatchesJournal, JournalTypeOK, AppTypeOK, Delivery,
             Outcome, TypeOK, LoopTypeOK, AdmitFails, loopVars, appVars
    <2>3. CASE AppendStarted(e, "unsynced")
      BY <1>2, <2>3
         DEF MemoryMatchesDisk, DeliveryFact, PcMatchesSlot, Serving,
             SlotMatchesJournal, JournalTypeOK, AppTypeOK, Delivery,
             Outcome, TypeOK, LoopTypeOK, AdmitFails, AppendStarted,
             loopVars, appVars
    <2>4. QED
      BY <1>2, <2>1, <2>2, <2>3 DEF AdmitFails
  <1>3. ASSUME NEW e \in Exec, Prepare(e) PROVE DeliveryFact(f, q)'
    <2>1. /\ AppendPrepared(e, req[e]) /\ state[e] = "READY"
          /\ UNCHANGED <<sends, ran>> /\ req[e] \in Req
      BY <1>3 DEF Prepare, appVars, histVars, TypeOK, LoopTypeOK
    <2>2. /\ jdel'[f][q] = IF f = e /\ q = req[e] THEN "prepared" ELSE jdel[f][q]
          /\ jhi'[f] = IF f = e THEN req[e] ELSE jhi[f]
      BY <2>1, PreparedEffect DEF TypeOK
    <2>3. jhi[e] < req[e] /\ jhi[e] \in Int /\ req[e] \in Int /\ q \in Int
      BY <2>1
         DEF MemoryMatchesDisk, SlotMatchesJournal, TypeOK, JournalTypeOK,
             Req
    <2>4. DeliveryFact(f, q)
      BY DEF MemoryMatchesDisk
    <2>5. CASE f = e
      BY <2>1, <2>2, <2>3, <2>4, <2>5 DEF DeliveryFact
    <2>6. CASE f # e
      BY <2>1, <2>2, <2>4, <2>6 DEF DeliveryFact
    <2>7. QED
      BY <2>5, <2>6
  <1>4. ASSUME NEW e \in Exec, Assign(e) PROVE DeliveryFact(f, q)'
    BY <1>4, JournalAssumption, LoopAssumption
       DEF MemoryMatchesDisk, DeliveryFact, PcMatchesSlot, Serving,
           SlotMatchesJournal, JournalTypeOK, AppTypeOK, Delivery, Outcome,
           TypeOK, LoopTypeOK, Assign, journalVars, appVars, histVars
  <1>5. ASSUME NEW e \in Exec, Send(e) PROVE DeliveryFact(f, q)'
    BY <1>5, JournalAssumption, LoopAssumption
       DEF MemoryMatchesDisk, DeliveryFact, PcMatchesSlot, Serving,
           SlotMatchesJournal, JournalTypeOK, AppTypeOK, Delivery, Outcome,
           TypeOK, LoopTypeOK, Send, journalVars
  <1>6. ASSUME NEW e \in Exec, SendFails(e) PROVE DeliveryFact(f, q)'
    <2>1. /\ AppendClosing(e, req[e], "NotSent") /\ pc = "idle" /\ state[e] = "PREPARED"
          /\ UNCHANGED <<sends, ran>> /\ req[e] \in Req
      BY <1>6
         DEF SendFails, EndWithoutValue, DropAction, histVars, TypeOK,
             LoopTypeOK
    <2>2. jdel'[f][q] = (IF f = e /\ q = req[e] THEN "NotSent" ELSE jdel[f][q]) /\ UNCHANGED jhi
      BY <2>1, ClosingEffect DEF TypeOK, Outcome
    <2>3. CASE f = e /\ q = req[e]
      BY <2>1, <2>2, <2>3
         DEF MemoryMatchesDisk, DeliveryFact, SlotMatchesJournal, TypeOK,
             JournalTypeOK, Req
    <2>4. CASE ~(f = e /\ q = req[e])
      BY <2>1, <2>2, <2>4 DEF MemoryMatchesDisk, DeliveryFact
    <2>5. QED
      BY <2>3, <2>4
  <1>7. ASSUME NEW e \in Exec, Accept(e) PROVE DeliveryFact(f, q)'
    <2>1. PICK k \in {"Success", "AppError"} : AcceptStep(e, k)
      BY <1>7, AcceptIsStep
    <2>2. ActionFor(e) \in Action /\ req[e] \in Req
      BY LoopAssumption DEF TypeOK, LoopTypeOK, ActionFor
    <2>3. ran[e][req[e]]
      <3>1. answers[ActionFor(e)] \in Seq(Frame) /\ answers[ActionFor(e)] # <<>>
        BY <2>1, <2>2 DEF AcceptStep, TypeOK, AppTypeOK
      <3>2. 1 \in 1 .. Len(answers[ActionFor(e)])
        BY <3>1
      <3>3. QED
        BY <2>1, <2>2, <3>2 DEF AcceptStep, MemoryMatchesDisk, AnswersRan
    <2>4. /\ AppendClosing(e, req[e], k) /\ state[e] = "SENT" /\ UNCHANGED <<sends, ran>>
      BY <2>1 DEF AcceptStep, histVars
    <2>5. jdel'[f][q] = (IF f = e /\ q = req[e] THEN k ELSE jdel[f][q]) /\ UNCHANGED jhi
      BY <2>2, <2>4, ClosingEffect DEF TypeOK, Outcome
    <2>6. CASE f = e /\ q = req[e]
      BY <2>3, <2>4, <2>5, <2>6
         DEF MemoryMatchesDisk, DeliveryFact, SlotMatchesJournal, TypeOK,
             JournalTypeOK, Req
    <2>7. CASE ~(f = e /\ q = req[e])
      BY <2>4, <2>5, <2>7 DEF MemoryMatchesDisk, DeliveryFact
    <2>8. QED
      BY <2>6, <2>7
  <1>8. ASSUME NEW e \in Exec, Reject(e) PROVE DeliveryFact(f, q)'
    <2>1. /\ AppendClosing(e, req[e], "Unknown") /\ pc = "idle" /\ state[e] = "SENT"
          /\ UNCHANGED <<sends, ran>> /\ req[e] \in Req
      BY <1>8
         DEF Reject, EndWithoutValue, DropAction, histVars, TypeOK,
             LoopTypeOK
    <2>2. jdel'[f][q] = (IF f = e /\ q = req[e] THEN "Unknown" ELSE jdel[f][q]) /\ UNCHANGED jhi
      BY <2>1, ClosingEffect DEF TypeOK, Outcome
    <2>3. CASE f = e /\ q = req[e]
      BY <2>1, <2>2, <2>3
         DEF MemoryMatchesDisk, DeliveryFact, SlotMatchesJournal, TypeOK,
             JournalTypeOK, Req
    <2>4. CASE ~(f = e /\ q = req[e])
      BY <2>1, <2>2, <2>4 DEF MemoryMatchesDisk, DeliveryFact
    <2>5. QED
      BY <2>3, <2>4
  <1>9. ASSUME NEW e \in Exec, Return(e) PROVE DeliveryFact(f, q)'
    BY <1>9, JournalAssumption, LoopAssumption
       DEF MemoryMatchesDisk, DeliveryFact, PcMatchesSlot, Serving,
           SlotMatchesJournal, JournalTypeOK, AppTypeOK, Delivery, Outcome,
           TypeOK, LoopTypeOK, Return, journalVars, appVars
  <1>10. ASSUME NEW e \in Exec, CloseExecution(e) PROVE DeliveryFact(f, q)'
    BY <1>10, JournalAssumption, LoopAssumption
       DEF MemoryMatchesDisk, DeliveryFact, PcMatchesSlot, Serving,
           SlotMatchesJournal, JournalTypeOK, AppTypeOK, Delivery, Outcome,
           TypeOK, LoopTypeOK, CloseExecution, AppendFinished, appVars,
           histVars
  <1>11. ASSUME NEW e \in Exec, NEW r \in Req, CloseDelivery(e, r)
         PROVE  DeliveryFact(f, q)'
    <2>1. /\ AppendClosing(e, r, "Unknown") /\ jdel[e][r] \in {"prepared", "sent"}
          /\ UNCHANGED <<sends, ran>>
      BY <1>11 DEF CloseDelivery, IsOpen, appVars, histVars
    <2>2. jdel'[f][q] = (IF f = e /\ q = r THEN "Unknown" ELSE jdel[f][q]) /\ UNCHANGED jhi
      BY <2>1, ClosingEffect DEF TypeOK, Outcome
    <2>3. QED
      BY <2>1, <2>2 DEF MemoryMatchesDisk, DeliveryFact
  <1>12. ASSUME MarkSent PROVE DeliveryFact(f, q)'
    <2>1. /\ cur \in Exec /\ state[cur] = "PREPARED" /\ pc = "sent"
          /\ AppendSent(cur, req[cur]) /\ UNCHANGED <<sends, ran>>
          /\ JournalTypeOK /\ req[cur] \in Req
      BY <1>12 DEF MarkSent, MemoryMatchesDisk, PcMatchesSlot, appVars, histVars,
                   TypeOK, LoopTypeOK
    <2>2. jdel'[f][q] = (IF f = cur /\ q = req[cur] THEN "sent" ELSE jdel[f][q]) /\ UNCHANGED jhi
      BY <2>1, SentEffect
    <2>3. sends[cur][req[cur]] = 1 /\ jhi[cur] = req[cur]
      BY <2>1 DEF MemoryMatchesDisk, SlotMatchesJournal
    <2>4. DeliveryFact(f, q) /\ q \in Nat /\ req[cur] \in Nat
      BY <2>1 DEF MemoryMatchesDisk, Req
    <2>5. QED
      BY <2>1, <2>2, <2>3, <2>4 DEF DeliveryFact
  <1>13. ASSUME StoreResult PROVE DeliveryFact(f, q)'
    BY <1>13, JournalAssumption, LoopAssumption
       DEF MemoryMatchesDisk, DeliveryFact, PcMatchesSlot, Serving,
           SlotMatchesJournal, JournalTypeOK, AppTypeOK, Delivery, Outcome,
           TypeOK, LoopTypeOK, StoreResult, journalVars, appVars, histVars
  <1>14. ASSUME Finish PROVE DeliveryFact(f, q)'
    BY <1>14, JournalAssumption, LoopAssumption
       DEF MemoryMatchesDisk, DeliveryFact, PcMatchesSlot, Serving,
           SlotMatchesJournal, JournalTypeOK, AppTypeOK, Delivery, Outcome,
           TypeOK, LoopTypeOK, Finish, AppendFinished, appVars, histVars
  <1>15. ASSUME Crash PROVE DeliveryFact(f, q)'
    BY <1>15, JournalAssumption, LoopAssumption
       DEF MemoryMatchesDisk, DeliveryFact, PcMatchesSlot, Serving,
           SlotMatchesJournal, JournalTypeOK, AppTypeOK, Delivery, Outcome,
           TypeOK, LoopTypeOK, Crash
  <1>16. ASSUME Open PROVE DeliveryFact(f, q)'
    BY <1>16, JournalAssumption, LoopAssumption
       DEF MemoryMatchesDisk, DeliveryFact, PcMatchesSlot, Serving,
           SlotMatchesJournal, JournalTypeOK, AppTypeOK, Delivery, Outcome,
           TypeOK, LoopTypeOK, Open, appVars, histVars
  <1>17. ASSUME Serve PROVE DeliveryFact(f, q)'
    BY <1>17, JournalAssumption, LoopAssumption
       DEF MemoryMatchesDisk, DeliveryFact, PcMatchesSlot, Serving,
           SlotMatchesJournal, JournalTypeOK, AppTypeOK, Delivery, Outcome,
           TypeOK, LoopTypeOK, Serve, journalVars, appVars, histVars
  <1>18. ASSUME NEW a \in Action, Register(a) PROVE DeliveryFact(f, q)'
    BY <1>18, JournalAssumption, LoopAssumption
       DEF MemoryMatchesDisk, DeliveryFact, PcMatchesSlot, Serving,
           SlotMatchesJournal, JournalTypeOK, AppTypeOK, Delivery, Outcome,
           TypeOK, LoopTypeOK, Register, journalVars, loopVars, histVars
  <1>19. ASSUME NEW a \in Action, AppRun(a) PROVE DeliveryFact(f, q)'
    <2>1. PICK d \in inbox[a] : ran' = [ran EXCEPT ![d[1]][d[2]] = TRUE]
      BY <1>19 DEF AppRun
    <2>2. d[1] \in Exec /\ d[2] \in Req
      BY <2>1 DEF TypeOK, AppTypeOK
    <2>3. sends[d[1]][d[2]] = 1
      BY <2>1 DEF MemoryMatchesDisk, FramesPending
    <2>4. ran'[f][q] => ran[f][q] \/ sends[f][q] = 1
      BY <2>1, <2>2, <2>3 DEF TypeOK, AppTypeOK
    <2>5. ran[f][q] => ran'[f][q]
      BY <2>1, <2>2 DEF TypeOK, AppTypeOK
    <2>6. QED
      BY <1>19, <2>4, <2>5
         DEF MemoryMatchesDisk, DeliveryFact, AppRun, journalVars, histVars
  <1>20. ASSUME NEW a \in Action, AppRepeat(a) PROVE DeliveryFact(f, q)'
    BY <1>20, JournalAssumption, LoopAssumption
       DEF MemoryMatchesDisk, DeliveryFact, PcMatchesSlot, Serving,
           SlotMatchesJournal, JournalTypeOK, AppTypeOK, Delivery, Outcome,
           TypeOK, LoopTypeOK, AppRepeat, journalVars, loopVars, histVars
  <1>21. ASSUME NEW a \in Action, AppRunOrphan(a) PROVE DeliveryFact(f, q)'
    <2>1. PICK d \in orphans[a] : ran' = [ran EXCEPT ![d[1]][d[2]] = TRUE]
      BY <1>21 DEF AppRunOrphan
    <2>2. d[1] \in Exec /\ d[2] \in Req
      BY <2>1 DEF TypeOK, AppTypeOK
    <2>3. sends[d[1]][d[2]] = 1
      BY <2>1 DEF MemoryMatchesDisk, FramesPending
    <2>4. ran'[f][q] => ran[f][q] \/ sends[f][q] = 1
      BY <2>1, <2>2, <2>3 DEF TypeOK, AppTypeOK
    <2>5. ran[f][q] => ran'[f][q]
      BY <2>1, <2>2 DEF TypeOK, AppTypeOK
    <2>6. QED
      BY <1>21, <2>4, <2>5
         DEF MemoryMatchesDisk, DeliveryFact, AppRunOrphan, journalVars,
             histVars
  <1>22. ASSUME NEW a \in Action, AppDies(a) PROVE DeliveryFact(f, q)'
    <2>1. CASE UNCHANGED ran
      BY <1>22, <2>1
         DEF MemoryMatchesDisk, DeliveryFact, AppDies, journalVars, histVars
    <2>2. ASSUME NEW d \in inbox[a], ran' = [ran EXCEPT ![d[1]][d[2]] = TRUE]
          PROVE  DeliveryFact(f, q)'
      <3>1. d[1] \in Exec /\ d[2] \in Req
        BY <2>2 DEF TypeOK, AppTypeOK
      <3>2. sends[d[1]][d[2]] = 1
        BY <2>2 DEF MemoryMatchesDisk, FramesPending
      <3>3. ran'[f][q] => ran[f][q] \/ sends[f][q] = 1
        BY <2>2, <3>1, <3>2 DEF TypeOK, AppTypeOK
      <3>4. ran[f][q] => ran'[f][q]
        BY <2>2, <3>1 DEF TypeOK, AppTypeOK
      <3>5. QED
        BY <1>22, <3>3, <3>4
           DEF MemoryMatchesDisk, DeliveryFact, AppDies, journalVars,
               histVars
    <2>3. QED
      BY <1>22, <2>1, <2>2 DEF AppDies
  <1>23. CASE UNCHANGED vars
    BY <1>23
       DEF MemoryMatchesDisk, DeliveryFact, PcMatchesSlot, Serving,
           SlotMatchesJournal, JournalTypeOK, AppTypeOK, Delivery, Outcome,
           TypeOK, LoopTypeOK, vars, journalVars, loopVars, appVars,
           histVars
  <1>24. QED
    BY <1>1, <1>2, <1>3, <1>4, <1>5, <1>6, <1>7, <1>8, <1>9, <1>10,
       <1>11, <1>12, <1>13, <1>14, <1>15, <1>16, <1>17, <1>18,
       <1>19, <1>20, <1>21, <1>22, <1>23
       DEF Next

\* An invocation waits only between send_invocation and its run.
LEMMA NextFramesPending ==
  ASSUME TypeOK, MemoryMatchesDisk, [Next]_vars
  PROVE  FramesPending'
  <1>1. ASSUME NEW e \in Exec, Admit(e) PROVE FramesPending'
    BY <1>1
       DEF MemoryMatchesDisk, FramesPending, AppTypeOK, TypeOK, LoopTypeOK,
           Admit, AppendStarted, appVars, histVars
  <1>2. ASSUME NEW e \in Exec, AdmitFails(e) PROVE FramesPending'
    BY <1>2
       DEF MemoryMatchesDisk, FramesPending, AppTypeOK, TypeOK, LoopTypeOK,
           AdmitFails, AppendStarted, journalVars, loopVars, appVars
  <1>3. ASSUME NEW e \in Exec, Prepare(e) PROVE FramesPending'
    BY <1>3
       DEF MemoryMatchesDisk, FramesPending, AppTypeOK, TypeOK, LoopTypeOK,
           Prepare, AppendPrepared, appVars, histVars
  <1>4. ASSUME NEW e \in Exec, Assign(e) PROVE FramesPending'
    BY <1>4
       DEF MemoryMatchesDisk, FramesPending, AppTypeOK, TypeOK, LoopTypeOK,
           Assign, journalVars, appVars, histVars
  <1>5. ASSUME NEW e \in Exec, Send(e) PROVE FramesPending'
    <2>1. state[e] = "PREPARED" /\ pc = "idle" /\ req[e] \in Req
      BY <1>5 DEF Send, TypeOK, LoopTypeOK
    <2>2. sends[e][req[e]] = 0 /\ ~ran[e][req[e]]
      BY <2>1 DEF MemoryMatchesDisk, SlotMatchesJournal, DeliveryFact
    <2>3. \A g \in Exec, q \in Req : sends[g][q] = 1 => sends'[g][q] = 1
      BY <1>5, <2>1, <2>2 DEF Send, TypeOK
    <2>4. sends'[e][req[e]] = 1
      BY <1>5, <2>1, <2>2 DEF Send, TypeOK
    <2>5. ASSUME NEW b \in Action, NEW d \in inbox'[b] \cup orphans'[b]
          PROVE  sends'[d[1]][d[2]] = 1 /\ ~ran'[d[1]][d[2]]
      <3>1. d = <<e, req[e]>> \/ d \in inbox[b] \cup orphans[b]
        BY <1>5 DEF Send, TypeOK, AppTypeOK
      <3>2. CASE d = <<e, req[e]>>
        BY <1>5, <2>2, <2>4, <3>2 DEF Send
      <3>3. CASE d \in inbox[b] \cup orphans[b]
        <4>1. d[1] \in Exec /\ d[2] \in Req
          BY <3>3 DEF TypeOK, AppTypeOK
        <4>2. QED
          BY <1>5, <2>3, <3>3, <4>1 DEF MemoryMatchesDisk, FramesPending, Send
      <3>4. QED
        BY <3>1, <3>2, <3>3
    <2>6. QED
      BY <2>5 DEF FramesPending
  <1>6. ASSUME NEW e \in Exec, SendFails(e) PROVE FramesPending'
    <2>1. DropAction(ActionFor(e)) /\ UNCHANGED sends
      BY <1>6 DEF SendFails, EndWithoutValue, histVars
    <2>2. \A b \in Action : inbox'[b] \cup orphans'[b] = inbox[b] \cup orphans[b]
      BY <2>1 DEF DropAction, TypeOK, AppTypeOK
    <2>3. QED
      BY <2>1, <2>2 DEF MemoryMatchesDisk, FramesPending, DropAction
  <1>7. ASSUME NEW e \in Exec, Accept(e) PROVE FramesPending'
    <2>1. PICK k \in {"Success", "AppError"} : AcceptStep(e, k)
      BY <1>7, AcceptIsStep
    <2>2. QED
      BY <2>1
         DEF MemoryMatchesDisk, FramesPending, AppTypeOK, TypeOK,
             LoopTypeOK, AcceptStep, AppendClosing, histVars
  <1>8. ASSUME NEW e \in Exec, Reject(e) PROVE FramesPending'
    <2>1. DropAction(ActionFor(e)) /\ UNCHANGED sends
      BY <1>8 DEF Reject, EndWithoutValue, histVars
    <2>2. \A b \in Action : inbox'[b] \cup orphans'[b] = inbox[b] \cup orphans[b]
      BY <2>1 DEF DropAction, TypeOK, AppTypeOK
    <2>3. QED
      BY <2>1, <2>2 DEF MemoryMatchesDisk, FramesPending, DropAction
  <1>9. ASSUME NEW e \in Exec, Return(e) PROVE FramesPending'
    BY <1>9
       DEF MemoryMatchesDisk, FramesPending, AppTypeOK, TypeOK, LoopTypeOK,
           Return, journalVars, appVars
  <1>10. ASSUME NEW e \in Exec, CloseExecution(e) PROVE FramesPending'
    BY <1>10
       DEF MemoryMatchesDisk, FramesPending, AppTypeOK, TypeOK, LoopTypeOK,
           CloseExecution, AppendFinished, appVars, histVars
  <1>11. ASSUME NEW e \in Exec, NEW r \in Req, CloseDelivery(e, r)
         PROVE  FramesPending'
    BY <1>11
       DEF MemoryMatchesDisk, FramesPending, AppTypeOK, TypeOK, LoopTypeOK,
           CloseDelivery, AppendClosing, appVars, histVars
  <1>12. ASSUME MarkSent PROVE FramesPending'
    BY <1>12
       DEF MemoryMatchesDisk, FramesPending, AppTypeOK, TypeOK, LoopTypeOK,
           MarkSent, AppendSent, appVars, histVars
  <1>13. ASSUME StoreResult PROVE FramesPending'
    BY <1>13
       DEF MemoryMatchesDisk, FramesPending, AppTypeOK, TypeOK, LoopTypeOK,
           StoreResult, journalVars, appVars, histVars
  <1>14. ASSUME Finish PROVE FramesPending'
    BY <1>14
       DEF MemoryMatchesDisk, FramesPending, AppTypeOK, TypeOK, LoopTypeOK,
           Finish, AppendFinished, appVars, histVars
  <1>15. ASSUME Crash PROVE FramesPending'
    <2>1. \A b \in Action : inbox'[b] \cup orphans'[b] = inbox[b] \cup orphans[b]
      BY <1>15 DEF Crash, TypeOK, AppTypeOK
    <2>2. QED
      BY <1>15, <2>1 DEF MemoryMatchesDisk, FramesPending, Crash
  <1>16. ASSUME Open PROVE FramesPending'
    BY <1>16
       DEF MemoryMatchesDisk, FramesPending, AppTypeOK, TypeOK, LoopTypeOK,
           Open, appVars, histVars
  <1>17. ASSUME Serve PROVE FramesPending'
    BY <1>17
       DEF MemoryMatchesDisk, FramesPending, AppTypeOK, TypeOK, LoopTypeOK,
           Serve, journalVars, appVars, histVars
  <1>18. ASSUME NEW a \in Action, Register(a) PROVE FramesPending'
    BY <1>18
       DEF MemoryMatchesDisk, FramesPending, AppTypeOK, TypeOK, LoopTypeOK,
           Register, journalVars, loopVars, histVars
  <1>19. ASSUME NEW a \in Action, AppRun(a) PROVE FramesPending'
    <2>1. PICK d \in inbox[a] : /\ ran' = [ran EXCEPT ![d[1]][d[2]] = TRUE]
                               /\ inbox' = [inbox EXCEPT ![a] = @ \ {d}]
      BY <1>19 DEF AppRun
    <2>2. d \in Exec \X Req
      BY <2>1 DEF TypeOK, AppTypeOK
    <2>3. ASSUME NEW b \in Action, NEW c \in inbox'[b] \cup orphans'[b]
          PROVE  sends'[c[1]][c[2]] = 1 /\ ~ran'[c[1]][c[2]]
      <3>1. c \in inbox[b] \cup orphans[b] /\ c # d
        BY <1>19, <2>1
           DEF AppRun, MemoryMatchesDisk, FramesApart, TypeOK, AppTypeOK
      <3>2. c \in Exec \X Req
        BY <3>1 DEF TypeOK, AppTypeOK
      <3>3. c[1] # d[1] \/ c[2] # d[2]
        BY <2>2, <3>1, <3>2
      <3>4. ran'[c[1]][c[2]] = ran[c[1]][c[2]]
        BY <2>1, <2>2, <3>2, <3>3 DEF TypeOK, AppTypeOK
      <3>5. QED
        BY <1>19, <3>1, <3>4
           DEF AppRun, MemoryMatchesDisk, FramesPending, histVars
    <2>4. QED
      BY <2>3 DEF FramesPending
  <1>20. ASSUME NEW a \in Action, AppRepeat(a) PROVE FramesPending'
    BY <1>20
       DEF MemoryMatchesDisk, FramesPending, AppTypeOK, TypeOK, LoopTypeOK,
           AppRepeat, journalVars, loopVars, histVars
  <1>21. ASSUME NEW a \in Action, AppRunOrphan(a) PROVE FramesPending'
    <2>1. PICK d \in orphans[a] : /\ ran' = [ran EXCEPT ![d[1]][d[2]] = TRUE]
                               /\ orphans' = [orphans EXCEPT ![a] = @ \ {d}]
      BY <1>21 DEF AppRunOrphan
    <2>2. d \in Exec \X Req
      BY <2>1 DEF TypeOK, AppTypeOK
    <2>3. ASSUME NEW b \in Action, NEW c \in inbox'[b] \cup orphans'[b]
          PROVE  sends'[c[1]][c[2]] = 1 /\ ~ran'[c[1]][c[2]]
      <3>1. c \in inbox[b] \cup orphans[b] /\ c # d
        BY <1>21, <2>1
           DEF AppRunOrphan, MemoryMatchesDisk, FramesApart, TypeOK,
               AppTypeOK
      <3>2. c \in Exec \X Req
        BY <3>1 DEF TypeOK, AppTypeOK
      <3>3. c[1] # d[1] \/ c[2] # d[2]
        BY <2>2, <3>1, <3>2
      <3>4. ran'[c[1]][c[2]] = ran[c[1]][c[2]]
        BY <2>1, <2>2, <3>2, <3>3 DEF TypeOK, AppTypeOK
      <3>5. QED
        BY <1>21, <3>1, <3>4
           DEF AppRunOrphan, MemoryMatchesDisk, FramesPending, histVars
    <2>4. QED
      BY <2>3 DEF FramesPending
  <1>22. ASSUME NEW a \in Action, AppDies(a) PROVE FramesPending'
    <2>1. ASSUME NEW b \in Action, NEW c \in inbox'[b] \cup orphans'[b]
          PROVE  sends'[c[1]][c[2]] = 1 /\ ~ran'[c[1]][c[2]]
      <3>1. c \in inbox[b] \cup orphans[b] /\ c \notin inbox[a]
        BY <1>22 DEF AppDies, MemoryMatchesDisk, FramesApart, TypeOK, AppTypeOK
      <3>2. ran'[c[1]][c[2]] = ran[c[1]][c[2]]
        <4>1. CASE UNCHANGED ran
          BY <4>1
        <4>2. ASSUME NEW d \in inbox[a], ran' = [ran EXCEPT ![d[1]][d[2]] = TRUE]
              PROVE  ran'[c[1]][c[2]] = ran[c[1]][c[2]]
          <5>1. c \in Exec \X Req /\ d \in Exec \X Req /\ c # d
            BY <3>1, <4>2 DEF TypeOK, AppTypeOK
          <5>2. c[1] # d[1] \/ c[2] # d[2]
            BY <5>1
          <5>3. QED
            BY <4>2, <5>1, <5>2 DEF TypeOK, AppTypeOK
        <4>3. QED
          BY <1>22, <4>1, <4>2 DEF AppDies
      <3>3. QED
        BY <1>22, <3>1, <3>2
           DEF AppDies, MemoryMatchesDisk, FramesPending, histVars
    <2>2. QED
      BY <2>1 DEF FramesPending
  <1>23. CASE UNCHANGED vars
    BY <1>23
       DEF MemoryMatchesDisk, FramesPending, AppTypeOK, TypeOK, LoopTypeOK,
           vars, journalVars, loopVars, appVars, histVars
  <1>24. QED
    BY <1>1, <1>2, <1>3, <1>4, <1>5, <1>6, <1>7, <1>8, <1>9, <1>10,
       <1>11, <1>12, <1>13, <1>14, <1>15, <1>16, <1>17, <1>18,
       <1>19, <1>20, <1>21, <1>22, <1>23
       DEF Next

\* An invocation waits in one place: send_invocation queues it once and
\* drop_action moves it.
LEMMA NextFramesApart ==
  ASSUME TypeOK, MemoryMatchesDisk, [Next]_vars
  PROVE  FramesApart'
  <1>1. ASSUME NEW e \in Exec, Admit(e) PROVE FramesApart'
    BY <1>1
       DEF MemoryMatchesDisk, FramesApart, AppTypeOK, ActionFor, TypeOK,
           LoopTypeOK, Admit, AppendStarted, appVars, histVars
  <1>2. ASSUME NEW e \in Exec, AdmitFails(e) PROVE FramesApart'
    BY <1>2
       DEF MemoryMatchesDisk, FramesApart, AppTypeOK, ActionFor, TypeOK,
           LoopTypeOK, AdmitFails, AppendStarted, journalVars, loopVars,
           appVars
  <1>3. ASSUME NEW e \in Exec, Prepare(e) PROVE FramesApart'
    BY <1>3
       DEF MemoryMatchesDisk, FramesApart, AppTypeOK, ActionFor, TypeOK,
           LoopTypeOK, Prepare, AppendPrepared, appVars, histVars
  <1>4. ASSUME NEW e \in Exec, Assign(e) PROVE FramesApart'
    BY <1>4
       DEF MemoryMatchesDisk, FramesApart, AppTypeOK, ActionFor, TypeOK,
           LoopTypeOK, Assign, journalVars, appVars, histVars
  <1>5. ASSUME NEW e \in Exec, Send(e) PROVE FramesApart'
    <2>1. state[e] = "PREPARED" /\ pc = "idle"
      BY <1>5 DEF Send
    <2>2. sends[e][req[e]] = 0
      BY <2>1 DEF MemoryMatchesDisk, SlotMatchesJournal
    <2>3. \A b \in Action : <<e, req[e]>> \notin inbox[b] \cup orphans[b]
      BY <2>2 DEF MemoryMatchesDisk, FramesPending
    <2>4. orphans' = orphans
      BY <1>5 DEF Send
    <2>5. \A b \in Action : inbox'[b] \subseteq inbox[b] \cup {<<e, req[e]>>}
      BY <1>5 DEF Send, TypeOK, AppTypeOK
    <2>6. \A b \in Action : b # ActionFor(e) => inbox'[b] = inbox[b]
      BY <1>5 DEF Send, TypeOK, AppTypeOK
    <2>7. \A a, b \in Action : \A d \in inbox[a] : d \notin orphans[b]
      BY DEF MemoryMatchesDisk, FramesApart
    <2>8. \A a, b \in Action : a # b => /\ \A d \in inbox[a] : d \notin inbox[b]
                                       /\ \A d \in orphans[a] : d \notin orphans[b]
      BY DEF MemoryMatchesDisk, FramesApart
    <2>9. \A a, b \in Action : \A d \in inbox'[a] : d \notin orphans'[b]
      BY <2>3, <2>4, <2>5, <2>7
    <2>10. \A a, b \in Action : a # b => \A d \in inbox'[a] : d \notin inbox'[b]
      BY <2>3, <2>5, <2>6, <2>8
    <2>11. QED
      BY <2>4, <2>8, <2>9, <2>10 DEF FramesApart
  <1>6. ASSUME NEW e \in Exec, SendFails(e) PROVE FramesApart'
    BY <1>6, SMTT(40)
       DEF MemoryMatchesDisk, FramesApart, AppTypeOK, ActionFor, TypeOK,
           LoopTypeOK, SendFails, EndWithoutValue, AppendClosing,
           DropAction, histVars
  <1>7. ASSUME NEW e \in Exec, Accept(e) PROVE FramesApart'
    <2>1. PICK k \in {"Success", "AppError"} : AcceptStep(e, k)
      BY <1>7, AcceptIsStep
    <2>2. QED
      BY <2>1
         DEF MemoryMatchesDisk, FramesApart, AppTypeOK, ActionFor, TypeOK,
             LoopTypeOK, AcceptStep, AppendClosing, histVars
  <1>8. ASSUME NEW e \in Exec, Reject(e) PROVE FramesApart'
    BY <1>8, SMTT(40)
       DEF MemoryMatchesDisk, FramesApart, AppTypeOK, ActionFor, TypeOK,
           LoopTypeOK, Reject, EndWithoutValue, AppendClosing, DropAction,
           histVars
  <1>9. ASSUME NEW e \in Exec, Return(e) PROVE FramesApart'
    BY <1>9
       DEF MemoryMatchesDisk, FramesApart, AppTypeOK, ActionFor, TypeOK,
           LoopTypeOK, Return, journalVars, appVars
  <1>10. ASSUME NEW e \in Exec, CloseExecution(e) PROVE FramesApart'
    BY <1>10
       DEF MemoryMatchesDisk, FramesApart, AppTypeOK, ActionFor, TypeOK,
           LoopTypeOK, CloseExecution, AppendFinished, appVars, histVars
  <1>11. ASSUME NEW e \in Exec, NEW r \in Req, CloseDelivery(e, r)
         PROVE  FramesApart'
    BY <1>11
       DEF MemoryMatchesDisk, FramesApart, AppTypeOK, ActionFor, TypeOK,
           LoopTypeOK, CloseDelivery, AppendClosing, appVars, histVars
  <1>12. ASSUME MarkSent PROVE FramesApart'
    BY <1>12
       DEF MemoryMatchesDisk, FramesApart, AppTypeOK, ActionFor, TypeOK,
           LoopTypeOK, MarkSent, AppendSent, appVars, histVars
  <1>13. ASSUME StoreResult PROVE FramesApart'
    BY <1>13
       DEF MemoryMatchesDisk, FramesApart, AppTypeOK, ActionFor, TypeOK,
           LoopTypeOK, StoreResult, journalVars, appVars, histVars
  <1>14. ASSUME Finish PROVE FramesApart'
    BY <1>14
       DEF MemoryMatchesDisk, FramesApart, AppTypeOK, ActionFor, TypeOK,
           LoopTypeOK, Finish, AppendFinished, appVars, histVars
  <1>15. ASSUME Crash PROVE FramesApart'
    BY <1>15
       DEF MemoryMatchesDisk, FramesApart, AppTypeOK, ActionFor, TypeOK,
           LoopTypeOK, Crash
  <1>16. ASSUME Open PROVE FramesApart'
    BY <1>16
       DEF MemoryMatchesDisk, FramesApart, AppTypeOK, ActionFor, TypeOK,
           LoopTypeOK, Open, appVars, histVars
  <1>17. ASSUME Serve PROVE FramesApart'
    BY <1>17
       DEF MemoryMatchesDisk, FramesApart, AppTypeOK, ActionFor, TypeOK,
           LoopTypeOK, Serve, journalVars, appVars, histVars
  <1>18. ASSUME NEW a \in Action, Register(a) PROVE FramesApart'
    BY <1>18
       DEF MemoryMatchesDisk, FramesApart, AppTypeOK, ActionFor, TypeOK,
           LoopTypeOK, Register, journalVars, loopVars, histVars
  <1>19. ASSUME NEW a \in Action, AppRun(a) PROVE FramesApart'
    BY <1>19
       DEF MemoryMatchesDisk, FramesApart, AppTypeOK, ActionFor, TypeOK,
           LoopTypeOK, AppRun, journalVars, loopVars, histVars
  <1>20. ASSUME NEW a \in Action, AppRepeat(a) PROVE FramesApart'
    BY <1>20
       DEF MemoryMatchesDisk, FramesApart, AppTypeOK, ActionFor, TypeOK,
           LoopTypeOK, AppRepeat, journalVars, loopVars, histVars
  <1>21. ASSUME NEW a \in Action, AppRunOrphan(a) PROVE FramesApart'
    BY <1>21
       DEF MemoryMatchesDisk, FramesApart, AppTypeOK, ActionFor, TypeOK,
           LoopTypeOK, AppRunOrphan, journalVars, loopVars, histVars
  <1>22. ASSUME NEW a \in Action, AppDies(a) PROVE FramesApart'
    BY <1>22
       DEF MemoryMatchesDisk, FramesApart, AppTypeOK, ActionFor, TypeOK,
           LoopTypeOK, AppDies, journalVars, loopVars, histVars
  <1>23. CASE UNCHANGED vars
    BY <1>23
       DEF MemoryMatchesDisk, FramesApart, AppTypeOK, ActionFor, TypeOK,
           LoopTypeOK, vars, journalVars, loopVars, appVars, histVars
  <1>24. QED
    BY <1>1, <1>2, <1>3, <1>4, <1>5, <1>6, <1>7, <1>8, <1>9, <1>10,
       <1>11, <1>12, <1>13, <1>14, <1>15, <1>16, <1>17, <1>18,
       <1>19, <1>20, <1>21, <1>22, <1>23
       DEF Next

\* What the daemon reads from a connection names a delivery.
LEMMA AnswersAreFrames ==
  ASSUME TypeOK, NEW b \in Action, NEW i \in 1 .. Len(answers[b])
  PROVE  answers[b][i].e \in Exec /\ answers[b][i].r \in Req
  <1>1. answers[b] \in Seq(Frame)
    BY DEF TypeOK, AppTypeOK
  <1>2. answers[b][i] \in Frame
    BY <1>1
  <1>3. QED
    BY <1>2 DEF Frame

\* Whatever the daemon can read from a connection comes from a run.
LEMMA NextAnswersRan ==
  ASSUME TypeOK, MemoryMatchesDisk, [Next]_vars
  PROVE  AnswersRan'
  <1>1. ASSUME NEW e \in Exec, Admit(e) PROVE AnswersRan'
    BY <1>1
       DEF MemoryMatchesDisk, AnswersRan, AppTypeOK, ActionFor, TypeOK,
           LoopTypeOK, Admit, AppendStarted, appVars, histVars
  <1>2. ASSUME NEW e \in Exec, AdmitFails(e) PROVE AnswersRan'
    BY <1>2
       DEF MemoryMatchesDisk, AnswersRan, AppTypeOK, ActionFor, TypeOK,
           LoopTypeOK, AdmitFails, AppendStarted, journalVars, loopVars,
           appVars
  <1>3. ASSUME NEW e \in Exec, Prepare(e) PROVE AnswersRan'
    BY <1>3
       DEF MemoryMatchesDisk, AnswersRan, AppTypeOK, ActionFor, TypeOK,
           LoopTypeOK, Prepare, AppendPrepared, appVars, histVars
  <1>4. ASSUME NEW e \in Exec, Assign(e) PROVE AnswersRan'
    BY <1>4
       DEF MemoryMatchesDisk, AnswersRan, AppTypeOK, ActionFor, TypeOK,
           LoopTypeOK, Assign, journalVars, appVars, histVars
  <1>5. ASSUME NEW e \in Exec, Send(e) PROVE AnswersRan'
    BY <1>5
       DEF MemoryMatchesDisk, AnswersRan, AppTypeOK, ActionFor, TypeOK,
           LoopTypeOK, Send, journalVars
  <1>6. ASSUME NEW e \in Exec, SendFails(e) PROVE AnswersRan'
    <2>1. \A b \in Action : answers'[b] = answers[b] \/ answers'[b] = <<>>
      BY <1>6 DEF SendFails, EndWithoutValue, DropAction, TypeOK, AppTypeOK
    <2>2. UNCHANGED ran
      BY <1>6 DEF SendFails, EndWithoutValue, DropAction
    <2>3. QED
      BY <2>1, <2>2 DEF MemoryMatchesDisk, AnswersRan
  <1>7. ASSUME NEW e \in Exec, Accept(e) PROVE AnswersRan'
    <2>1. PICK k \in {"Success", "AppError"} : AcceptStep(e, k)
      BY <1>7, AcceptIsStep
    <2>2. ActionFor(e) \in Action
      BY LoopAssumption DEF TypeOK, LoopTypeOK, ActionFor
    <2>3. UNCHANGED ran
      BY <2>1 DEF AcceptStep
    <2>4. ASSUME NEW b \in Action, NEW i \in 1 .. Len(answers'[b])
          PROVE  ran'[answers'[b][i].e][answers'[b][i].r]
      <3>1. CASE b # ActionFor(e)
        BY <2>1, <2>3, <2>4, <3>1
           DEF AcceptStep, MemoryMatchesDisk, AnswersRan, TypeOK, AppTypeOK
      <3>2. CASE b = ActionFor(e)
        <4>1. /\ answers[b] \in Seq(Frame) /\ answers[b] # <<>>
              /\ answers'[b] = Tail(answers[b])
          BY <2>1, <2>2, <3>2 DEF AcceptStep, TypeOK, AppTypeOK
        <4>2. answers'[b][i] = answers[b][i + 1] /\ i + 1 \in 1 .. Len(answers[b])
          BY <2>4, <4>1
        <4>3. QED
          BY <2>3, <4>2 DEF MemoryMatchesDisk, AnswersRan
      <3>3. QED
        BY <3>1, <3>2
    <2>5. QED
      BY <2>4 DEF AnswersRan
  <1>8. ASSUME NEW e \in Exec, Reject(e) PROVE AnswersRan'
    <2>1. \A b \in Action : answers'[b] = answers[b] \/ answers'[b] = <<>>
      BY <1>8 DEF Reject, EndWithoutValue, DropAction, TypeOK, AppTypeOK
    <2>2. UNCHANGED ran
      BY <1>8 DEF Reject, EndWithoutValue, DropAction
    <2>3. QED
      BY <2>1, <2>2 DEF MemoryMatchesDisk, AnswersRan
  <1>9. ASSUME NEW e \in Exec, Return(e) PROVE AnswersRan'
    BY <1>9
       DEF MemoryMatchesDisk, AnswersRan, AppTypeOK, ActionFor, TypeOK,
           LoopTypeOK, Return, journalVars, appVars
  <1>10. ASSUME NEW e \in Exec, CloseExecution(e) PROVE AnswersRan'
    BY <1>10
       DEF MemoryMatchesDisk, AnswersRan, AppTypeOK, ActionFor, TypeOK,
           LoopTypeOK, CloseExecution, AppendFinished, appVars, histVars
  <1>11. ASSUME NEW e \in Exec, NEW r \in Req, CloseDelivery(e, r)
         PROVE  AnswersRan'
    BY <1>11
       DEF MemoryMatchesDisk, AnswersRan, AppTypeOK, ActionFor, TypeOK,
           LoopTypeOK, CloseDelivery, AppendClosing, appVars, histVars
  <1>12. ASSUME MarkSent PROVE AnswersRan'
    BY <1>12
       DEF MemoryMatchesDisk, AnswersRan, AppTypeOK, ActionFor, TypeOK,
           LoopTypeOK, MarkSent, AppendSent, appVars, histVars
  <1>13. ASSUME StoreResult PROVE AnswersRan'
    BY <1>13
       DEF MemoryMatchesDisk, AnswersRan, AppTypeOK, ActionFor, TypeOK,
           LoopTypeOK, StoreResult, journalVars, appVars, histVars
  <1>14. ASSUME Finish PROVE AnswersRan'
    BY <1>14
       DEF MemoryMatchesDisk, AnswersRan, AppTypeOK, ActionFor, TypeOK,
           LoopTypeOK, Finish, AppendFinished, appVars, histVars
  <1>15. ASSUME Crash PROVE AnswersRan'
    <2>1. \A b \in Action : answers'[b] = answers[b] \/ answers'[b] = <<>>
      BY <1>15 DEF Crash, EndWithoutValue, DropAction, TypeOK, AppTypeOK
    <2>2. UNCHANGED ran
      BY <1>15 DEF Crash, EndWithoutValue, DropAction
    <2>3. QED
      BY <2>1, <2>2 DEF MemoryMatchesDisk, AnswersRan
  <1>16. ASSUME Open PROVE AnswersRan'
    BY <1>16
       DEF MemoryMatchesDisk, AnswersRan, AppTypeOK, ActionFor, TypeOK,
           LoopTypeOK, Open, appVars, histVars
  <1>17. ASSUME Serve PROVE AnswersRan'
    BY <1>17
       DEF MemoryMatchesDisk, AnswersRan, AppTypeOK, ActionFor, TypeOK,
           LoopTypeOK, Serve, journalVars, appVars, histVars
  <1>18. ASSUME NEW a \in Action, Register(a) PROVE AnswersRan'
    BY <1>18
       DEF MemoryMatchesDisk, AnswersRan, AppTypeOK, ActionFor, TypeOK,
           LoopTypeOK, Register, journalVars, loopVars, histVars
  <1>19. ASSUME NEW a \in Action, AppRun(a) PROVE AnswersRan'
    <2>1. PICK d \in inbox[a], k \in Answer :
            /\ ran' = [ran EXCEPT ![d[1]][d[2]] = TRUE]
            /\ answers' = [answers EXCEPT ![a] =
                             Append(@, [e |-> d[1], r |-> d[2], kind |-> k])]
      BY <1>19 DEF AppRun
    <2>2. d[1] \in Exec /\ d[2] \in Req
      BY <2>1 DEF TypeOK, AppTypeOK
    <2>3. ran'[d[1]][d[2]] /\ \A g \in Exec, q \in Req : ran[g][q] => ran'[g][q]
      BY <2>1, <2>2 DEF TypeOK, AppTypeOK
    <2>4. ASSUME NEW b \in Action, NEW i \in 1 .. Len(answers'[b])
          PROVE  ran'[answers'[b][i].e][answers'[b][i].r]
      <3>1. answers[b] \in Seq(Frame)
        BY DEF TypeOK, AppTypeOK
      <3>2. CASE i \in 1 .. Len(answers[b]) /\ answers'[b][i] = answers[b][i]
        <4>1. answers[b][i].e \in Exec /\ answers[b][i].r \in Req
          BY <3>2, AnswersAreFrames
        <4>2. QED
          BY <2>3, <3>2, <4>1 DEF MemoryMatchesDisk, AnswersRan
      <3>3. CASE answers'[b][i].e = d[1] /\ answers'[b][i].r = d[2]
        BY <2>3, <3>3
      <3>4. CASE b # a
        BY <2>1, <2>4, <3>2, <3>4 DEF TypeOK, AppTypeOK
      <3>5. CASE b = a
        <4>1. answers'[b] = Append(answers[b], [e |-> d[1], r |-> d[2], kind |-> k])
          BY <2>1, <3>5 DEF TypeOK, AppTypeOK
        <4>2. CASE i = Len(answers[b]) + 1
          BY <3>1, <3>3, <4>1, <4>2
        <4>3. CASE i # Len(answers[b]) + 1
          <5>1. Len(answers'[b]) = Len(answers[b]) + 1 /\ Len(answers[b]) \in Nat
            BY <3>1, <4>1
          <5>2. i \in 1 .. Len(answers[b])
            BY <2>4, <4>3, <5>1
          <5>3. answers'[b][i] = answers[b][i]
            BY <3>1, <4>1, <5>2
          <5>4. QED
            BY <3>2, <5>2, <5>3
        <4>4. QED
          BY <4>2, <4>3
      <3>6. QED
        BY <3>4, <3>5
    <2>5. QED
      BY <2>4 DEF AnswersRan
  <1>20. ASSUME NEW a \in Action, AppRepeat(a) PROVE AnswersRan'
    <2>1. ASSUME NEW b \in Action, NEW i \in 1 .. Len(answers'[b])
          PROVE  \E h \in 1 .. Len(answers[b]) : answers'[b][i] = answers[b][h]
      <3>1. answers[b] \in Seq(Frame) /\ Len(answers[a]) > 0
        BY <1>20 DEF TypeOK, AppTypeOK, AppRepeat
      <3>2. CASE b # a
        BY <1>20, <2>1, <3>2 DEF AppRepeat, TypeOK, AppTypeOK
      <3>3. CASE b = a
        <4>1. answers'[b] = Append(answers[b], answers[b][Len(answers[b])])
          BY <1>20, <3>3 DEF AppRepeat, TypeOK, AppTypeOK
        <4>2. CASE i = Len(answers[b]) + 1
          BY <3>1, <3>3, <4>1, <4>2
        <4>3. CASE i # Len(answers[b]) + 1
          BY <2>1, <3>1, <4>1, <4>3
        <4>4. QED
          BY <4>2, <4>3
      <3>4. QED
        BY <3>2, <3>3
    <2>2. UNCHANGED ran
      BY <1>20 DEF AppRepeat
    <2>3. QED
      BY <2>1, <2>2 DEF MemoryMatchesDisk, AnswersRan
  <1>21. ASSUME NEW a \in Action, AppRunOrphan(a) PROVE AnswersRan'
    <2>1. \A g \in Exec, q \in Req : ran[g][q] => ran'[g][q]
      <3>1. PICK d \in orphans[a] : ran' = [ran EXCEPT ![d[1]][d[2]] = TRUE]
        BY <1>21 DEF AppRunOrphan
      <3>2. d[1] \in Exec /\ d[2] \in Req
        BY <3>1 DEF TypeOK, AppTypeOK
      <3>3. QED
        BY <3>1, <3>2 DEF TypeOK, AppTypeOK
    <2>2. UNCHANGED answers
      BY <1>21 DEF AppRunOrphan
    <2>3. \A b \in Action : \A i \in 1 .. Len(answers[b]) :
            answers[b][i].e \in Exec /\ answers[b][i].r \in Req
      BY AnswersAreFrames
    <2>4. QED
      BY <2>1, <2>2, <2>3 DEF MemoryMatchesDisk, AnswersRan
  <1>22. ASSUME NEW a \in Action, AppDies(a) PROVE AnswersRan'
    <2>1. \A g \in Exec, q \in Req : ran[g][q] => ran'[g][q]
      <3>1. CASE UNCHANGED ran
        BY <3>1
      <3>2. ASSUME NEW d \in inbox[a], ran' = [ran EXCEPT ![d[1]][d[2]] = TRUE]
            PROVE  \A g \in Exec, q \in Req : ran[g][q] => ran'[g][q]
        <4>1. d[1] \in Exec /\ d[2] \in Req
          BY <3>2 DEF TypeOK, AppTypeOK
        <4>2. QED
          BY <3>2, <4>1 DEF TypeOK, AppTypeOK
      <3>3. QED
        BY <1>22, <3>1, <3>2 DEF AppDies
    <2>2. UNCHANGED answers
      BY <1>22 DEF AppDies
    <2>3. \A b \in Action : \A i \in 1 .. Len(answers[b]) :
            answers[b][i].e \in Exec /\ answers[b][i].r \in Req
      BY AnswersAreFrames
    <2>4. QED
      BY <2>1, <2>2, <2>3 DEF MemoryMatchesDisk, AnswersRan
  <1>23. CASE UNCHANGED vars
    BY <1>23
       DEF MemoryMatchesDisk, AnswersRan, AppTypeOK, ActionFor, TypeOK,
           LoopTypeOK, vars, journalVars, loopVars, appVars, histVars
  <1>24. QED
    BY <1>1, <1>2, <1>3, <1>4, <1>5, <1>6, <1>7, <1>8, <1>9, <1>10,
       <1>11, <1>12, <1>13, <1>14, <1>15, <1>16, <1>17, <1>18,
       <1>19, <1>20, <1>21, <1>22, <1>23
       DEF Next

\* assign_available_actions, drop_action and the end of a delivery keep the
\* owner of an Action unique and connected.
LEMMA NextOwnerFacts ==
  ASSUME TypeOK, MemoryMatchesDisk, [Next]_vars
  PROVE  OwnerFacts'
  <1>1. ASSUME NEW e \in Exec, Admit(e) PROVE OwnerFacts'
    <2>1. ~owns'[e] /\ pc' # "sent"
      BY <1>1
         DEF MemoryMatchesDisk, OwnerFacts, TypeOK, LoopTypeOK, Admit,
             appVars
    <2>2. \A g \in Exec \ {e} : /\ ActionFor(g)' = ActionFor(g) /\ owns'[g] = owns[g]
                               /\ state'[g] = state[g]
      BY <1>1 DEF TypeOK, LoopTypeOK, ActionFor, Admit, appVars
    <2>3. state'[e] # "SENT" /\ UNCHANGED fd
      BY <1>1 DEF TypeOK, LoopTypeOK, Admit, appVars
    <2>4. QED
      BY <2>1, <2>2, <2>3 DEF MemoryMatchesDisk, OwnerFacts
  <1>2. ASSUME NEW e \in Exec, AdmitFails(e) PROVE OwnerFacts'
    BY <1>2, LoopAssumption
       DEF MemoryMatchesDisk, OwnerFacts, PcMatchesSlot, ActionFor, Serving,
           AppTypeOK, TypeOK, LoopTypeOK, AdmitFails, AppendStarted,
           journalVars, loopVars, appVars
  <1>3. ASSUME NEW e \in Exec, Prepare(e) PROVE OwnerFacts'
    BY <1>3, LoopAssumption
       DEF MemoryMatchesDisk, OwnerFacts, PcMatchesSlot, ActionFor, Serving,
           AppTypeOK, TypeOK, LoopTypeOK, Prepare, AppendPrepared, appVars,
           histVars
  <1>4. ASSUME NEW e \in Exec, Assign(e) PROVE OwnerFacts'
    <2>1. /\ \A g \in Exec : ActionFor(g)' = ActionFor(g)
          /\ \A g \in Exec \ {e} : owns'[g] = owns[g]
          /\ state[e] = "PREPARED" /\ fd[ActionFor(e)] # "none" /\ pc = "idle"
          /\ UNCHANGED <<state, fd, pc>>
      BY <1>4 DEF TypeOK, LoopTypeOK, ActionFor, Assign, appVars
    <2>2. \A g \in Exec \ {e} : owns[g] => ActionFor(g) # ActionFor(e)
      BY <1>4 DEF Assign, OwnedByOther
    <2>3. owns'[e]
      BY <1>4 DEF TypeOK, LoopTypeOK, Assign
    <2>4. QED
      BY <2>1, <2>2, <2>3 DEF MemoryMatchesDisk, OwnerFacts
  <1>5. ASSUME NEW e \in Exec, Send(e) PROVE OwnerFacts'
    BY <1>5, LoopAssumption
       DEF MemoryMatchesDisk, OwnerFacts, PcMatchesSlot, ActionFor, Serving,
           AppTypeOK, TypeOK, LoopTypeOK, Send, journalVars
  <1>6. ASSUME NEW e \in Exec, SendFails(e) PROVE OwnerFacts'
    BY <1>6, LoopAssumption, SMTT(40)
       DEF MemoryMatchesDisk, OwnerFacts, PcMatchesSlot, ActionFor, Serving,
           AppTypeOK, TypeOK, LoopTypeOK, SendFails, EndWithoutValue,
           AppendClosing, DropAction, histVars
  <1>7. ASSUME NEW e \in Exec, Accept(e) PROVE OwnerFacts'
    <2> PICK k \in {"Success", "AppError"} : AcceptStep(e, k)
      BY <1>7, AcceptIsStep
    <2>1. ~owns'[e] /\ pc' # "sent"
      BY AcceptStep(e, k)
         DEF MemoryMatchesDisk, OwnerFacts, TypeOK, LoopTypeOK, AcceptStep
    <2>2. \A g \in Exec \ {e} : /\ ActionFor(g)' = ActionFor(g) /\ owns'[g] = owns[g]
                               /\ state'[g] = state[g]
      BY AcceptStep(e, k) DEF TypeOK, LoopTypeOK, ActionFor, AcceptStep
    <2>3. state'[e] # "SENT" /\ UNCHANGED fd
      BY AcceptStep(e, k) DEF TypeOK, LoopTypeOK, AcceptStep
    <2>4. QED
      BY <2>1, <2>2, <2>3 DEF MemoryMatchesDisk, OwnerFacts
  <1>8. ASSUME NEW e \in Exec, Reject(e) PROVE OwnerFacts'
    BY <1>8, LoopAssumption, SMTT(40)
       DEF MemoryMatchesDisk, OwnerFacts, PcMatchesSlot, ActionFor, Serving,
           AppTypeOK, TypeOK, LoopTypeOK, Reject, EndWithoutValue,
           AppendClosing, DropAction, histVars
  <1>9. ASSUME NEW e \in Exec, Return(e) PROVE OwnerFacts'
    BY <1>9, LoopAssumption
       DEF MemoryMatchesDisk, OwnerFacts, PcMatchesSlot, ActionFor, Serving,
           AppTypeOK, TypeOK, LoopTypeOK, Return, journalVars, appVars
  <1>10. ASSUME NEW e \in Exec, CloseExecution(e) PROVE OwnerFacts'
    BY <1>10, LoopAssumption
       DEF MemoryMatchesDisk, OwnerFacts, PcMatchesSlot, ActionFor, Serving,
           AppTypeOK, TypeOK, LoopTypeOK, CloseExecution, AppendFinished,
           appVars, histVars
  <1>11. ASSUME NEW e \in Exec, NEW r \in Req, CloseDelivery(e, r)
         PROVE  OwnerFacts'
    BY <1>11, LoopAssumption
       DEF MemoryMatchesDisk, OwnerFacts, PcMatchesSlot, ActionFor, Serving,
           AppTypeOK, TypeOK, LoopTypeOK, CloseDelivery, AppendClosing,
           appVars, histVars
  <1>12. ASSUME MarkSent PROVE OwnerFacts'
    BY <1>12, LoopAssumption
       DEF MemoryMatchesDisk, OwnerFacts, PcMatchesSlot, ActionFor, Serving,
           AppTypeOK, TypeOK, LoopTypeOK, MarkSent, AppendSent, appVars,
           histVars
  <1>13. ASSUME StoreResult PROVE OwnerFacts'
    BY <1>13, LoopAssumption
       DEF MemoryMatchesDisk, OwnerFacts, PcMatchesSlot, ActionFor, Serving,
           AppTypeOK, TypeOK, LoopTypeOK, StoreResult, journalVars, appVars,
           histVars
  <1>14. ASSUME Finish PROVE OwnerFacts'
    BY <1>14, LoopAssumption
       DEF MemoryMatchesDisk, OwnerFacts, PcMatchesSlot, ActionFor, Serving,
           AppTypeOK, TypeOK, LoopTypeOK, Finish, AppendFinished, appVars,
           histVars
  <1>15. ASSUME Crash PROVE OwnerFacts'
    BY <1>15, LoopAssumption
       DEF MemoryMatchesDisk, OwnerFacts, PcMatchesSlot, ActionFor, Serving,
           AppTypeOK, TypeOK, LoopTypeOK, Crash
  <1>16. ASSUME Open PROVE OwnerFacts'
    BY <1>16, LoopAssumption
       DEF MemoryMatchesDisk, OwnerFacts, PcMatchesSlot, ActionFor, Serving,
           AppTypeOK, TypeOK, LoopTypeOK, Open, appVars, histVars
  <1>17. ASSUME Serve PROVE OwnerFacts'
    BY <1>17, LoopAssumption
       DEF MemoryMatchesDisk, OwnerFacts, PcMatchesSlot, ActionFor, Serving,
           AppTypeOK, TypeOK, LoopTypeOK, Serve, journalVars, appVars,
           histVars
  <1>18. ASSUME NEW a \in Action, Register(a) PROVE OwnerFacts'
    BY <1>18, LoopAssumption
       DEF MemoryMatchesDisk, OwnerFacts, PcMatchesSlot, ActionFor, Serving,
           AppTypeOK, TypeOK, LoopTypeOK, Register, journalVars, loopVars,
           histVars
  <1>19. ASSUME NEW a \in Action, AppRun(a) PROVE OwnerFacts'
    BY <1>19, LoopAssumption
       DEF MemoryMatchesDisk, OwnerFacts, PcMatchesSlot, ActionFor, Serving,
           AppTypeOK, TypeOK, LoopTypeOK, AppRun, journalVars, loopVars,
           histVars
  <1>20. ASSUME NEW a \in Action, AppRepeat(a) PROVE OwnerFacts'
    BY <1>20, LoopAssumption
       DEF MemoryMatchesDisk, OwnerFacts, PcMatchesSlot, ActionFor, Serving,
           AppTypeOK, TypeOK, LoopTypeOK, AppRepeat, journalVars, loopVars,
           histVars
  <1>21. ASSUME NEW a \in Action, AppRunOrphan(a) PROVE OwnerFacts'
    BY <1>21, LoopAssumption
       DEF MemoryMatchesDisk, OwnerFacts, PcMatchesSlot, ActionFor, Serving,
           AppTypeOK, TypeOK, LoopTypeOK, AppRunOrphan, journalVars,
           loopVars, histVars
  <1>22. ASSUME NEW a \in Action, AppDies(a) PROVE OwnerFacts'
    BY <1>22, LoopAssumption
       DEF MemoryMatchesDisk, OwnerFacts, PcMatchesSlot, ActionFor, Serving,
           AppTypeOK, TypeOK, LoopTypeOK, AppDies, journalVars, loopVars,
           histVars
  <1>23. CASE UNCHANGED vars
    BY <1>23
       DEF MemoryMatchesDisk, OwnerFacts, PcMatchesSlot, ActionFor, Serving,
           AppTypeOK, TypeOK, LoopTypeOK, vars, journalVars, loopVars,
           appVars, histVars
  <1>24. QED
    BY <1>1, <1>2, <1>3, <1>4, <1>5, <1>6, <1>7, <1>8, <1>9, <1>10,
       <1>11, <1>12, <1>13, <1>14, <1>15, <1>16, <1>17, <1>18,
       <1>19, <1>20, <1>21, <1>22, <1>23
       DEF Next

\* Nothing revises an outcome that a client was told: ExecutionFinished is
\* appended once per id (append_finished_if_complete, close_interrupted).
LEMMA NextToldIsDurable ==
  ASSUME TypeOK, MemoryMatchesDisk, [Next]_vars
  PROVE  ToldIsDurable'
  <1>1. ASSUME NEW e \in Exec, Admit(e) PROVE ToldIsDurable'
    BY <1>1
       DEF MemoryMatchesDisk, ToldIsDurable, PcMatchesSlot, Serving,
           SlotMatchesJournal, IdIsSpent, Ending, JournalTypeOK, Outcome,
           TypeOK, LoopTypeOK, Admit, AppendStarted, appVars, histVars
  <1>2. ASSUME NEW e \in Exec, AdmitFails(e) PROVE ToldIsDurable'
    <2>1. CASE UNCHANGED journalVars
      BY <1>2, <2>1
         DEF MemoryMatchesDisk, ToldIsDurable, PcMatchesSlot, Serving,
             SlotMatchesJournal, IdIsSpent, Ending, JournalTypeOK, Outcome,
             TypeOK, LoopTypeOK, AdmitFails, journalVars, loopVars, appVars
    <2>2. CASE jtail' = "torn" /\ UNCHANGED <<jok, jlast, jphase, jdel, jhi, jagg>>
      BY <1>2, <2>2
         DEF MemoryMatchesDisk, ToldIsDurable, PcMatchesSlot, Serving,
             SlotMatchesJournal, IdIsSpent, Ending, JournalTypeOK, Outcome,
             TypeOK, LoopTypeOK, AdmitFails, loopVars, appVars
    <2>3. CASE AppendStarted(e, "unsynced")
      BY <1>2, <2>3
         DEF MemoryMatchesDisk, ToldIsDurable, PcMatchesSlot, Serving,
             SlotMatchesJournal, IdIsSpent, Ending, JournalTypeOK, Outcome,
             TypeOK, LoopTypeOK, AdmitFails, AppendStarted, loopVars,
             appVars
    <2>4. QED
      BY <1>2, <2>1, <2>2, <2>3 DEF AdmitFails
  <1>3. ASSUME NEW e \in Exec, Prepare(e) PROVE ToldIsDurable'
    BY <1>3
       DEF MemoryMatchesDisk, ToldIsDurable, PcMatchesSlot, Serving,
           SlotMatchesJournal, IdIsSpent, Ending, JournalTypeOK, Outcome,
           TypeOK, LoopTypeOK, Prepare, AppendPrepared, appVars, histVars
  <1>4. ASSUME NEW e \in Exec, Assign(e) PROVE ToldIsDurable'
    BY <1>4
       DEF MemoryMatchesDisk, ToldIsDurable, PcMatchesSlot, Serving,
           SlotMatchesJournal, IdIsSpent, Ending, JournalTypeOK, Outcome,
           TypeOK, LoopTypeOK, Assign, journalVars, appVars, histVars
  <1>5. ASSUME NEW e \in Exec, Send(e) PROVE ToldIsDurable'
    BY <1>5
       DEF MemoryMatchesDisk, ToldIsDurable, PcMatchesSlot, Serving,
           SlotMatchesJournal, IdIsSpent, Ending, JournalTypeOK, Outcome,
           TypeOK, LoopTypeOK, Send, journalVars
  <1>6. ASSUME NEW e \in Exec, SendFails(e) PROVE ToldIsDurable'
    BY <1>6
       DEF MemoryMatchesDisk, ToldIsDurable, PcMatchesSlot, Serving,
           SlotMatchesJournal, IdIsSpent, Ending, JournalTypeOK, Outcome,
           TypeOK, LoopTypeOK, SendFails, EndWithoutValue, AppendClosing,
           DropAction, histVars
  <1>7. ASSUME NEW e \in Exec, Accept(e) PROVE ToldIsDurable'
    <2>1. PICK k \in {"Success", "AppError"} : AcceptStep(e, k)
      BY <1>7, AcceptIsStep
    <2>2. QED
      BY <2>1
         DEF MemoryMatchesDisk, ToldIsDurable, PcMatchesSlot, Serving,
             SlotMatchesJournal, IdIsSpent, Ending, JournalTypeOK, Outcome,
             TypeOK, LoopTypeOK, AcceptStep, AppendClosing, histVars
  <1>8. ASSUME NEW e \in Exec, Reject(e) PROVE ToldIsDurable'
    BY <1>8
       DEF MemoryMatchesDisk, ToldIsDurable, PcMatchesSlot, Serving,
           SlotMatchesJournal, IdIsSpent, Ending, JournalTypeOK, Outcome,
           TypeOK, LoopTypeOK, Reject, EndWithoutValue, AppendClosing,
           DropAction, histVars
  <1>9. ASSUME NEW e \in Exec, Return(e) PROVE ToldIsDurable'
    BY <1>9
       DEF MemoryMatchesDisk, ToldIsDurable, PcMatchesSlot, Serving,
           SlotMatchesJournal, IdIsSpent, Ending, JournalTypeOK, Outcome,
           TypeOK, LoopTypeOK, Return, journalVars, appVars
  <1>10. ASSUME NEW e \in Exec, CloseExecution(e) PROVE ToldIsDurable'
    BY <1>10
       DEF MemoryMatchesDisk, ToldIsDurable, PcMatchesSlot, Serving,
           SlotMatchesJournal, IdIsSpent, Ending, JournalTypeOK, Outcome,
           TypeOK, LoopTypeOK, CloseExecution, AppendFinished, appVars,
           histVars
  <1>11. ASSUME NEW e \in Exec, NEW r \in Req, CloseDelivery(e, r)
         PROVE  ToldIsDurable'
    BY <1>11
       DEF MemoryMatchesDisk, ToldIsDurable, PcMatchesSlot, Serving,
           SlotMatchesJournal, IdIsSpent, Ending, JournalTypeOK, Outcome,
           TypeOK, LoopTypeOK, CloseDelivery, AppendClosing, appVars,
           histVars
  <1>12. ASSUME MarkSent PROVE ToldIsDurable'
    BY <1>12
       DEF MemoryMatchesDisk, ToldIsDurable, PcMatchesSlot, Serving,
           SlotMatchesJournal, IdIsSpent, Ending, JournalTypeOK, Outcome,
           TypeOK, LoopTypeOK, MarkSent, AppendSent, appVars, histVars
  <1>13. ASSUME StoreResult PROVE ToldIsDurable'
    BY <1>13
       DEF MemoryMatchesDisk, ToldIsDurable, PcMatchesSlot, Serving,
           SlotMatchesJournal, IdIsSpent, Ending, JournalTypeOK, Outcome,
           TypeOK, LoopTypeOK, StoreResult, journalVars, appVars, histVars
  <1>14. ASSUME Finish PROVE ToldIsDurable'
    <2>1. cur \in Exec /\ jphase[cur] = "open"
      BY <1>14
         DEF Finish, MemoryMatchesDisk, PcMatchesSlot, SlotMatchesJournal,
             Ending
    <2>2. told[cur] = "none"
      BY <2>1 DEF MemoryMatchesDisk, ToldIsDurable, TypeOK, Outcome
    <2>3. QED
      BY <1>14, <2>1, <2>2
         DEF MemoryMatchesDisk, ToldIsDurable, TypeOK, JournalTypeOK,
                            Finish, AppendFinished, histVars
  <1>15. ASSUME Crash PROVE ToldIsDurable'
    BY <1>15
       DEF MemoryMatchesDisk, ToldIsDurable, PcMatchesSlot, Serving,
           SlotMatchesJournal, IdIsSpent, Ending, JournalTypeOK, Outcome,
           TypeOK, LoopTypeOK, Crash
  <1>16. ASSUME Open PROVE ToldIsDurable'
    BY <1>16
       DEF MemoryMatchesDisk, ToldIsDurable, PcMatchesSlot, Serving,
           SlotMatchesJournal, IdIsSpent, Ending, JournalTypeOK, Outcome,
           TypeOK, LoopTypeOK, Open, appVars, histVars
  <1>17. ASSUME Serve PROVE ToldIsDurable'
    BY <1>17
       DEF MemoryMatchesDisk, ToldIsDurable, PcMatchesSlot, Serving,
           SlotMatchesJournal, IdIsSpent, Ending, JournalTypeOK, Outcome,
           TypeOK, LoopTypeOK, Serve, journalVars, appVars, histVars
  <1>18. ASSUME NEW a \in Action, Register(a) PROVE ToldIsDurable'
    BY <1>18
       DEF MemoryMatchesDisk, ToldIsDurable, PcMatchesSlot, Serving,
           SlotMatchesJournal, IdIsSpent, Ending, JournalTypeOK, Outcome,
           TypeOK, LoopTypeOK, Register, journalVars, loopVars, histVars
  <1>19. ASSUME NEW a \in Action, AppRun(a) PROVE ToldIsDurable'
    BY <1>19
       DEF MemoryMatchesDisk, ToldIsDurable, PcMatchesSlot, Serving,
           SlotMatchesJournal, IdIsSpent, Ending, JournalTypeOK, Outcome,
           TypeOK, LoopTypeOK, AppRun, journalVars, loopVars, histVars
  <1>20. ASSUME NEW a \in Action, AppRepeat(a) PROVE ToldIsDurable'
    BY <1>20
       DEF MemoryMatchesDisk, ToldIsDurable, PcMatchesSlot, Serving,
           SlotMatchesJournal, IdIsSpent, Ending, JournalTypeOK, Outcome,
           TypeOK, LoopTypeOK, AppRepeat, journalVars, loopVars, histVars
  <1>21. ASSUME NEW a \in Action, AppRunOrphan(a) PROVE ToldIsDurable'
    BY <1>21
       DEF MemoryMatchesDisk, ToldIsDurable, PcMatchesSlot, Serving,
           SlotMatchesJournal, IdIsSpent, Ending, JournalTypeOK, Outcome,
           TypeOK, LoopTypeOK, AppRunOrphan, journalVars, loopVars, histVars
  <1>22. ASSUME NEW a \in Action, AppDies(a) PROVE ToldIsDurable'
    BY <1>22
       DEF MemoryMatchesDisk, ToldIsDurable, PcMatchesSlot, Serving,
           SlotMatchesJournal, IdIsSpent, Ending, JournalTypeOK, Outcome,
           TypeOK, LoopTypeOK, AppDies, journalVars, loopVars, histVars
  <1>23. CASE UNCHANGED vars
    BY <1>23
       DEF MemoryMatchesDisk, ToldIsDurable, PcMatchesSlot, Serving,
           SlotMatchesJournal, IdIsSpent, Ending, JournalTypeOK, Outcome,
           TypeOK, LoopTypeOK, vars, journalVars, loopVars, appVars,
           histVars
  <1>24. QED
    BY <1>1, <1>2, <1>3, <1>4, <1>5, <1>6, <1>7, <1>8, <1>9, <1>10,
       <1>11, <1>12, <1>13, <1>14, <1>15, <1>16, <1>17, <1>18,
       <1>19, <1>20, <1>21, <1>22, <1>23
       DEF Next

\* The value is stored before a known terminal fact is appended
\* (append_result_if_complete, append_finished_if_complete).
LEMMA NextKnownTerminal ==
  ASSUME TypeOK, MemoryMatchesDisk, [Next]_vars
  PROVE  KnownTerminalHasValue'
  <1>1. ASSUME NEW e \in Exec, Admit(e) PROVE KnownTerminalHasValue'
    BY <1>1
       DEF MemoryMatchesDisk, KnownTerminalHasValue, PcMatchesSlot, Serving,
           SlotMatchesJournal, Ending, JournalTypeOK, TypeOK, LoopTypeOK,
           Admit, AppendStarted, appVars, histVars
  <1>2. ASSUME NEW e \in Exec, AdmitFails(e) PROVE KnownTerminalHasValue'
    <2>1. CASE UNCHANGED journalVars
      BY <1>2, <2>1
         DEF MemoryMatchesDisk, KnownTerminalHasValue, PcMatchesSlot,
             Serving, SlotMatchesJournal, Ending, JournalTypeOK, TypeOK,
             LoopTypeOK, AdmitFails, journalVars, loopVars, appVars
    <2>2. CASE jtail' = "torn" /\ UNCHANGED <<jok, jlast, jphase, jdel, jhi, jagg>>
      BY <1>2, <2>2
         DEF MemoryMatchesDisk, KnownTerminalHasValue, PcMatchesSlot,
             Serving, SlotMatchesJournal, Ending, JournalTypeOK, TypeOK,
             LoopTypeOK, AdmitFails, loopVars, appVars
    <2>3. CASE AppendStarted(e, "unsynced")
      BY <1>2, <2>3
         DEF MemoryMatchesDisk, KnownTerminalHasValue, PcMatchesSlot,
             Serving, SlotMatchesJournal, Ending, JournalTypeOK, TypeOK,
             LoopTypeOK, AdmitFails, AppendStarted, loopVars, appVars
    <2>4. QED
      BY <1>2, <2>1, <2>2, <2>3 DEF AdmitFails
  <1>3. ASSUME NEW e \in Exec, Prepare(e) PROVE KnownTerminalHasValue'
    BY <1>3
       DEF MemoryMatchesDisk, KnownTerminalHasValue, PcMatchesSlot, Serving,
           SlotMatchesJournal, Ending, JournalTypeOK, TypeOK, LoopTypeOK,
           Prepare, AppendPrepared, appVars, histVars
  <1>4. ASSUME NEW e \in Exec, Assign(e) PROVE KnownTerminalHasValue'
    BY <1>4
       DEF MemoryMatchesDisk, KnownTerminalHasValue, PcMatchesSlot, Serving,
           SlotMatchesJournal, Ending, JournalTypeOK, TypeOK, LoopTypeOK,
           Assign, journalVars, appVars, histVars
  <1>5. ASSUME NEW e \in Exec, Send(e) PROVE KnownTerminalHasValue'
    BY <1>5
       DEF MemoryMatchesDisk, KnownTerminalHasValue, PcMatchesSlot, Serving,
           SlotMatchesJournal, Ending, JournalTypeOK, TypeOK, LoopTypeOK,
           Send, journalVars
  <1>6. ASSUME NEW e \in Exec, SendFails(e) PROVE KnownTerminalHasValue'
    BY <1>6
       DEF MemoryMatchesDisk, KnownTerminalHasValue, PcMatchesSlot, Serving,
           SlotMatchesJournal, Ending, JournalTypeOK, TypeOK, LoopTypeOK,
           SendFails, EndWithoutValue, AppendClosing, DropAction, histVars
  <1>7. ASSUME NEW e \in Exec, Accept(e) PROVE KnownTerminalHasValue'
    <2>1. PICK k \in {"Success", "AppError"} : AcceptStep(e, k)
      BY <1>7, AcceptIsStep
    <2>2. QED
      BY <2>1
         DEF MemoryMatchesDisk, KnownTerminalHasValue, PcMatchesSlot,
             Serving, SlotMatchesJournal, Ending, JournalTypeOK, TypeOK,
             LoopTypeOK, AcceptStep, AppendClosing, histVars
  <1>8. ASSUME NEW e \in Exec, Reject(e) PROVE KnownTerminalHasValue'
    BY <1>8
       DEF MemoryMatchesDisk, KnownTerminalHasValue, PcMatchesSlot, Serving,
           SlotMatchesJournal, Ending, JournalTypeOK, TypeOK, LoopTypeOK,
           Reject, EndWithoutValue, AppendClosing, DropAction, histVars
  <1>9. ASSUME NEW e \in Exec, Return(e) PROVE KnownTerminalHasValue'
    BY <1>9
       DEF MemoryMatchesDisk, KnownTerminalHasValue, PcMatchesSlot, Serving,
           SlotMatchesJournal, Ending, JournalTypeOK, TypeOK, LoopTypeOK,
           Return, journalVars, appVars
  <1>10. ASSUME NEW e \in Exec, CloseExecution(e) PROVE KnownTerminalHasValue'
    BY <1>10
       DEF MemoryMatchesDisk, KnownTerminalHasValue, PcMatchesSlot, Serving,
           SlotMatchesJournal, Ending, JournalTypeOK, TypeOK, LoopTypeOK,
           CloseExecution, AppendFinished, appVars, histVars
  <1>11. ASSUME NEW e \in Exec, NEW r \in Req, CloseDelivery(e, r)
         PROVE  KnownTerminalHasValue'
    BY <1>11
       DEF MemoryMatchesDisk, KnownTerminalHasValue, PcMatchesSlot, Serving,
           SlotMatchesJournal, Ending, JournalTypeOK, TypeOK, LoopTypeOK,
           CloseDelivery, AppendClosing, appVars, histVars
  <1>12. ASSUME MarkSent PROVE KnownTerminalHasValue'
    BY <1>12
       DEF MemoryMatchesDisk, KnownTerminalHasValue, PcMatchesSlot, Serving,
           SlotMatchesJournal, Ending, JournalTypeOK, TypeOK, LoopTypeOK,
           MarkSent, AppendSent, appVars, histVars
  <1>13. ASSUME StoreResult PROVE KnownTerminalHasValue'
    BY <1>13
       DEF MemoryMatchesDisk, KnownTerminalHasValue, PcMatchesSlot, Serving,
           SlotMatchesJournal, Ending, JournalTypeOK, TypeOK, LoopTypeOK,
           StoreResult, journalVars, appVars, histVars
  <1>14. ASSUME Finish PROVE KnownTerminalHasValue'
    BY <1>14
       DEF MemoryMatchesDisk, KnownTerminalHasValue, PcMatchesSlot, Serving,
           SlotMatchesJournal, Ending, JournalTypeOK, TypeOK, LoopTypeOK,
           Finish, AppendFinished, appVars, histVars
  <1>15. ASSUME Crash PROVE KnownTerminalHasValue'
    BY <1>15
       DEF MemoryMatchesDisk, KnownTerminalHasValue, PcMatchesSlot, Serving,
           SlotMatchesJournal, Ending, JournalTypeOK, TypeOK, LoopTypeOK,
           Crash
  <1>16. ASSUME Open PROVE KnownTerminalHasValue'
    BY <1>16
       DEF MemoryMatchesDisk, KnownTerminalHasValue, PcMatchesSlot, Serving,
           SlotMatchesJournal, Ending, JournalTypeOK, TypeOK, LoopTypeOK,
           Open, appVars, histVars
  <1>17. ASSUME Serve PROVE KnownTerminalHasValue'
    BY <1>17
       DEF MemoryMatchesDisk, KnownTerminalHasValue, PcMatchesSlot, Serving,
           SlotMatchesJournal, Ending, JournalTypeOK, TypeOK, LoopTypeOK,
           Serve, journalVars, appVars, histVars
  <1>18. ASSUME NEW a \in Action, Register(a) PROVE KnownTerminalHasValue'
    BY <1>18
       DEF MemoryMatchesDisk, KnownTerminalHasValue, PcMatchesSlot, Serving,
           SlotMatchesJournal, Ending, JournalTypeOK, TypeOK, LoopTypeOK,
           Register, journalVars, loopVars, histVars
  <1>19. ASSUME NEW a \in Action, AppRun(a) PROVE KnownTerminalHasValue'
    BY <1>19
       DEF MemoryMatchesDisk, KnownTerminalHasValue, PcMatchesSlot, Serving,
           SlotMatchesJournal, Ending, JournalTypeOK, TypeOK, LoopTypeOK,
           AppRun, journalVars, loopVars, histVars
  <1>20. ASSUME NEW a \in Action, AppRepeat(a) PROVE KnownTerminalHasValue'
    BY <1>20
       DEF MemoryMatchesDisk, KnownTerminalHasValue, PcMatchesSlot, Serving,
           SlotMatchesJournal, Ending, JournalTypeOK, TypeOK, LoopTypeOK,
           AppRepeat, journalVars, loopVars, histVars
  <1>21. ASSUME NEW a \in Action, AppRunOrphan(a) PROVE KnownTerminalHasValue'
    BY <1>21
       DEF MemoryMatchesDisk, KnownTerminalHasValue, PcMatchesSlot, Serving,
           SlotMatchesJournal, Ending, JournalTypeOK, TypeOK, LoopTypeOK,
           AppRunOrphan, journalVars, loopVars, histVars
  <1>22. ASSUME NEW a \in Action, AppDies(a) PROVE KnownTerminalHasValue'
    BY <1>22
       DEF MemoryMatchesDisk, KnownTerminalHasValue, PcMatchesSlot, Serving,
           SlotMatchesJournal, Ending, JournalTypeOK, TypeOK, LoopTypeOK,
           AppDies, journalVars, loopVars, histVars
  <1>23. CASE UNCHANGED vars
    BY <1>23
       DEF MemoryMatchesDisk, KnownTerminalHasValue, PcMatchesSlot, Serving,
           SlotMatchesJournal, Ending, JournalTypeOK, TypeOK, LoopTypeOK,
           vars, journalVars, loopVars, appVars, histVars
  <1>24. QED
    BY <1>1, <1>2, <1>3, <1>4, <1>5, <1>6, <1>7, <1>8, <1>9, <1>10,
       <1>11, <1>12, <1>13, <1>14, <1>15, <1>16, <1>17, <1>18,
       <1>19, <1>20, <1>21, <1>22, <1>23
       DEF Next

-----------------------------------------------------------------------------
(* The theorems.                                                           *)

\* The daemon that was never started has nothing to agree on.
LEMMA InitMatches ==
  ASSUME Init
  PROVE  MemoryMatchesDisk
  <1>1. PcMatchesSlot /\ OwnerFacts /\ ToldIsDurable /\ KnownTerminalHasValue
    BY DEF Init, JournalInit, PcMatchesSlot, OwnerFacts, ToldIsDurable,
           KnownTerminalHasValue, Serving
  <1>2. \A e \in Exec : SlotMatchesJournal(e) /\ IdIsSpent(e)
    BY DEF Init, JournalInit, SlotMatchesJournal, IdIsSpent, Serving
  <1>3. \A e \in Exec, r \in Req : DeliveryFact(e, r)
    BY DEF Init, JournalInit, DeliveryFact
  <1>4. FramesPending /\ FramesApart /\ AnswersRan
    BY DEF Init, FramesPending, FramesApart, AnswersRan
  <1>5. TailIsCounted
    BY DEF Init, JournalInit, TailIsCounted, Serving
  <1>6. QED
    BY <1>1, <1>2, <1>3, <1>4, <1>5 DEF MemoryMatchesDisk

\* Types and agreement of memory, journal, results and apps are inductive.
LEMMA InvIsInductive ==
  ASSUME Inv, [Next]_vars
  PROVE  Inv'
  <1>1. TypeOK /\ MemoryMatchesDisk
    BY DEF Inv
  <1>2. TypeOK'
    BY <1>1, NextType DEF MemoryMatchesDisk
  <1>3. PcMatchesSlot' /\ OwnerFacts' /\ ToldIsDurable' /\ KnownTerminalHasValue'
    BY <1>1, NextPcMatchesSlot, NextOwnerFacts, NextToldIsDurable,
       NextKnownTerminal
  <1>4. \A e \in Exec : SlotMatchesJournal(e)'
    BY <1>1, NextSlotMatchesJournal
  <1>5. \A e \in Exec : IdIsSpent(e)'
    BY <1>1, NextIdsAreSpent
  <1>6. \A e \in Exec, r \in Req : DeliveryFact(e, r)'
    BY <1>1, NextDeliveryFacts
  <1>7. FramesPending' /\ FramesApart' /\ AnswersRan'
    BY <1>1, NextFramesPending, NextFramesApart, NextAnswersRan
  <1>8. TailIsCounted'
    BY <1>1, NextTailIsCounted DEF MemoryMatchesDisk
  <1>9. QED
    BY <1>2, <1>3, <1>4, <1>5, <1>6, <1>7, <1>8 DEF Inv, MemoryMatchesDisk

\* Every reachable state has the right types and memory, journal, result store
\* and apps agree in it: a crash at any point loses nothing the journal claims.
THEOREM Invariance == Spec => [](TypeOK /\ MemoryMatchesDisk)
  <1>1. Init => Inv
    BY InitType, InitMatches DEF Inv
  <1>2. Inv /\ [Next]_vars => Inv'
    BY InvIsInductive
  <1>3. QED
    BY <1>1, <1>2, PTL DEF Spec, Inv

\* The daemon, its journal and the apps stay within their types.
THEOREM TypeCorrect == Spec => []TypeOK
  BY Invariance, PTL

\* A client is told only what is durable, whatever crashes follow (result,
\* release, append_finished_if_complete, close_interrupted).
THEOREM ToldOutcomesAreDurable == Spec => []ToldIsDurable
  <1>1. MemoryMatchesDisk => ToldIsDurable
    BY DEF MemoryMatchesDisk
  <1>2. QED
    BY <1>1, Invariance, PTL

\* A known terminal fact always has its stored value (append_result_if_complete
\* runs before append_finished_if_complete).
THEOREM KnownTerminalsHaveValues == Spec => []KnownTerminalHasValue
  <1>1. MemoryMatchesDisk => KnownTerminalHasValue
    BY DEF MemoryMatchesDisk
  <1>2. QED
    BY <1>1, Invariance, PTL

\* An owned Action always has a descriptor (assign_available_actions,
\* drop_action), so a sequential slot never waits for a registration that its
\* own ownership prevents.
THEOREM OwnersHaveDescriptors == Spec => []OwnerHasDescriptor
  <1>1. MemoryMatchesDisk => OwnerHasDescriptor
    BY DEF MemoryMatchesDisk, OwnerFacts, OwnerHasDescriptor
  <1>2. QED
    BY <1>1, Invariance, PTL

\* No connection ever carries two awaited answers (action_owned_by_other).
THEOREM AnswersAreAwaitedOnce == Spec => []OneAwaitedAnswer
  <1>1. MemoryMatchesDisk => OneAwaitedAnswer
    BY DEF MemoryMatchesDisk, OwnerFacts, OneAwaitedAnswer
  <1>2. QED
    BY <1>1, Invariance, PTL

-----------------------------------------------------------------------------
(* The delivery contract, and the journal that the next startup reads *)

\* The refinement mapping: the closing fact of a delivery is its verdict.
Verdicts == [e \in Exec |-> [r \in Req |->
              IF jdel[e][r] \in Outcome THEN jdel[e][r] ELSE "none"]]

\* Records that close nothing leave every verdict as it is.
LEMMA SameVerdicts ==
  ASSUME \A e \in Exec, r \in Req :
           jdel'[e][r] = jdel[e][r] \/ {jdel[e][r], jdel'[e][r]} \cap Outcome = {}
  PROVE  Verdicts' = Verdicts
  <1>1. \A e \in Exec, r \in Req :
          (IF jdel'[e][r] \in Outcome THEN jdel'[e][r] ELSE "none") =
          (IF jdel[e][r] \in Outcome THEN jdel[e][r] ELSE "none")
    OBVIOUS
  <1>2. QED
    BY <1>1, Zenon DEF Verdicts

\* A closing Action fact of an open delivery gives it its first verdict.
LEMMA ClosingSettles ==
  ASSUME JournalTypeOK, NEW e \in Exec, NEW r \in Req, NEW o \in Outcome,
         AppendClosing(e, r, o), IsOpen(e, r)
  PROVE  Verdicts[e][r] = "none" /\ Verdicts' = [Verdicts EXCEPT ![e][r] = o]
  <1>1. Verdicts[e][r] = "none"
    BY DEF Verdicts, IsOpen, Outcome
  <1>2. \A f \in Exec, q \in Req :
          jdel'[f][q] = IF f = e /\ q = r THEN o ELSE jdel[f][q]
    BY ClosingEffect
  <1>3. \A f \in Exec, q \in Req :
          Verdicts'[f][q] = IF f = e /\ q = r THEN o ELSE Verdicts[f][q]
    BY <1>2 DEF Verdicts
  <1>4. /\ Verdicts' = [f \in Exec |-> [q \in Req |-> Verdicts'[f][q]]]
        /\ [Verdicts EXCEPT ![e][r] = o] =
             [f \in Exec |-> [q \in Req |-> IF f = e /\ q = r THEN o ELSE Verdicts[f][q]]]
    BY DEF Verdicts
  <1>5. QED
    BY <1>1, <1>3, <1>4

\* A first and honest verdict is a step of the contract.
LEMMA SettleIsStep ==
  ASSUME NEW e \in Exec, NEW r \in Req, NEW o \in Outcome,
         Verdicts[e][r] = "none", Verdicts' = [Verdicts EXCEPT ![e][r] = o],
         o \in {"Success", "AppError"} => ran[e][r],
         o = "NotSent" => sends[e][r] = 0,
         UNCHANGED <<sends, ran>>
  PROVE  Contract!Next
  <1>1. Contract!Settle(e, r, o)
    BY DEF Contract!Settle, Verdicts
  <1>2. QED
    BY <1>1 DEF Contract!Next, Contract!Verdict, Outcome

\* An app that runs an invocation it was sent, from a live or from a closed
\* connection, takes a step of the contract: it runs it for the first time.
LEMMA RunIsStep ==
  ASSUME TypeOK, MemoryMatchesDisk, NEW a \in Action,
         NEW d \in inbox[a] \cup orphans[a],
         ran' = [ran EXCEPT ![d[1]][d[2]] = TRUE],
         UNCHANGED <<sends, jdel>>
  PROVE  Contract!Next
  <1>1. d[1] \in Exec /\ d[2] \in Req
    BY DEF TypeOK, AppTypeOK
  <1>2. sends[d[1]][d[2]] = 1 /\ ~ran[d[1]][d[2]]
    BY DEF MemoryMatchesDisk, FramesPending
  <1>3. Verdicts[d[1]][d[2]] \in {"none", "Unknown"}
    <2>1. DeliveryFact(d[1], d[2])
      BY <1>1 DEF MemoryMatchesDisk
    <2>2. jdel[d[1]][d[2]] \notin {"Success", "AppError", "NotSent"}
      BY <1>2, <2>1 DEF DeliveryFact
    <2>3. QED
      BY <1>1, <2>2 DEF Verdicts, Outcome
  <1>4. Verdicts' = Verdicts
    BY SameVerdicts
  <1>5. Contract!Run(d[1], d[2])
    BY <1>2, <1>3, <1>4 DEF Contract!Run, Verdicts
  <1>6. QED
    BY <1>1, <1>5 DEF Contract!Next

\* Every step of the daemon, of an app, and every crash is a step of the
\* contract or leaves it alone.
LEMMA StepImplementsContract ==
  ASSUME TypeOK, MemoryMatchesDisk, [Next]_vars
  PROVE  [Contract!Next]_(Contract!contractVars)
  <1> DEFINE Stutters == UNCHANGED <<sends, ran>> /\ Verdicts' = Verdicts
  <1>0. Stutters => UNCHANGED Contract!contractVars
    BY DEF Contract!contractVars, Verdicts
  <1>01. UNCHANGED <<sends, ran, jdel>> => Stutters
    BY SameVerdicts
  <1>02. JournalTypeOK /\ \A e \in Exec : req[e] \in Req
    BY DEF TypeOK, LoopTypeOK
  <1>1. ASSUME NEW e \in Exec, Admit(e) PROVE Stutters
    BY <1>1, <1>01 DEF Admit, AppendStarted, appVars, histVars
  <1>2. ASSUME NEW e \in Exec, AdmitFails(e) PROVE Stutters
    BY <1>2, <1>01 DEF AdmitFails, AppendStarted, journalVars, appVars
  <1>3. ASSUME NEW e \in Exec, Prepare(e) PROVE Stutters
    <2>1. AppendPrepared(e, req[e]) /\ UNCHANGED <<sends, ran>>
      BY <1>3 DEF Prepare, appVars, histVars
    <2>2. jdel[e][req[e]] = "none"
      <3>1. SlotMatchesJournal(e) /\ DeliveryFact(e, req[e])
        BY <1>02 DEF MemoryMatchesDisk
      <3>2. QED
        BY <1>3, <3>1 DEF Prepare, SlotMatchesJournal, DeliveryFact
    <2>3. QED
      BY <1>02, <2>1, <2>2, PreparedEffect, SameVerdicts DEF Outcome
  <1>4. ASSUME NEW e \in Exec, Assign(e) PROVE Stutters
    BY <1>4, <1>01 DEF Assign, journalVars, appVars, histVars
  <1>5. ASSUME NEW e \in Exec, Send(e) PROVE Contract!Next
    <2>1. SlotMatchesJournal(e) /\ state[e] = "PREPARED" /\ pc = "idle"
      BY <1>5 DEF MemoryMatchesDisk, Send
    <2>2. sends[e][req[e]] = 0 /\ jdel[e][req[e]] = "prepared"
      BY <2>1 DEF SlotMatchesJournal
    <2>3. Verdicts[e][req[e]] = "none" /\ Verdicts' = Verdicts
      BY <1>5, <1>02, <2>2, SameVerdicts DEF Verdicts, Outcome, Send, journalVars
    <2>4. sends' = [sends EXCEPT ![e][req[e]] = 1] /\ UNCHANGED ran
      BY <1>5, <1>02, <2>2 DEF Send, TypeOK
    <2>5. Contract!Offer(e, req[e])
      BY <2>2, <2>3, <2>4 DEF Contract!Offer, Verdicts
    <2>6. QED
      BY <1>02, <2>5 DEF Contract!Next
  <1>6. ASSUME NEW e \in Exec, SendFails(e) PROVE Contract!Next
    <2>1. SlotMatchesJournal(e) /\ state[e] = "PREPARED" /\ pc = "idle"
      BY <1>6 DEF MemoryMatchesDisk, SendFails
    <2>2. sends[e][req[e]] = 0 /\ IsOpen(e, req[e])
      BY <2>1 DEF SlotMatchesJournal, IsOpen
    <2>3. AppendClosing(e, req[e], "NotSent") /\ UNCHANGED <<sends, ran>>
      BY <1>6 DEF SendFails, EndWithoutValue, DropAction, histVars
    <2>4. "NotSent" \in Outcome
      BY DEF Outcome
    <2>5. QED
      BY <1>02, <2>2, <2>3, <2>4, ClosingSettles, SettleIsStep
  <1>7. ASSUME NEW e \in Exec, Accept(e) PROVE Contract!Next
    <2>1. PICK k \in {"Success", "AppError"} : AcceptStep(e, k)
      BY <1>7, AcceptIsStep
    <2>2. k \in Outcome /\ AppendClosing(e, req[e], k) /\ UNCHANGED <<sends, ran>>
      BY <2>1 DEF AcceptStep, Outcome, histVars
    <2>3. IsOpen(e, req[e])
      BY <2>1 DEF MemoryMatchesDisk, SlotMatchesJournal, AcceptStep, IsOpen
    <2>4. ran[e][req[e]]
      <3>1. ActionFor(e) \in Action
        BY LoopAssumption DEF TypeOK, LoopTypeOK, ActionFor
      <3>2. 1 \in 1 .. Len(answers[ActionFor(e)])
        BY <2>1, <3>1 DEF AcceptStep, TypeOK, AppTypeOK
      <3>3. QED
        BY <2>1, <3>1, <3>2 DEF AcceptStep, MemoryMatchesDisk, AnswersRan
    <2>5. QED
      BY <1>02, <2>1, <2>2, <2>3, <2>4, ClosingSettles, SettleIsStep
  <1>8. ASSUME NEW e \in Exec, Reject(e) PROVE Contract!Next
    <2>1. IsOpen(e, req[e])
      BY <1>8 DEF MemoryMatchesDisk, SlotMatchesJournal, Reject, IsOpen
    <2>2. AppendClosing(e, req[e], "Unknown") /\ UNCHANGED <<sends, ran>>
      BY <1>8 DEF Reject, EndWithoutValue, DropAction, histVars
    <2>3. "Unknown" \in Outcome
      BY DEF Outcome
    <2>4. QED
      BY <1>02, <2>1, <2>2, <2>3, ClosingSettles, SettleIsStep
  <1>9. ASSUME NEW e \in Exec, Return(e) PROVE Stutters
    BY <1>9, <1>01 DEF Return, journalVars, appVars
  <1>10. ASSUME NEW e \in Exec, CloseExecution(e) PROVE Stutters
    BY <1>10, <1>01 DEF CloseExecution, AppendFinished, appVars, histVars
  <1>11. ASSUME NEW e \in Exec, NEW r \in Req, CloseDelivery(e, r) PROVE Contract!Next
    <2>1. /\ AppendClosing(e, r, "Unknown") /\ UNCHANGED <<sends, ran>>
          /\ IsOpen(e, r)
      BY <1>11 DEF CloseDelivery, appVars, histVars
    <2>2. "Unknown" \in Outcome
      BY DEF Outcome
    <2>3. QED
      BY <1>02, <2>1, <2>2, ClosingSettles, SettleIsStep
  <1>12. ASSUME MarkSent PROVE Stutters
    <2>1. cur \in Exec /\ jdel[cur][req[cur]] = "prepared"
      BY <1>12 DEF MarkSent, MemoryMatchesDisk, PcMatchesSlot, SlotMatchesJournal
    <2>2. AppendSent(cur, req[cur]) /\ UNCHANGED <<sends, ran>>
      BY <1>12 DEF MarkSent, appVars, histVars
    <2>3. QED
      BY <1>02, <2>1, <2>2, SentEffect, SameVerdicts DEF Outcome
  <1>13. ASSUME StoreResult PROVE Stutters
    BY <1>13, <1>01 DEF StoreResult, journalVars, appVars, histVars
  <1>14. ASSUME Finish PROVE Stutters
    BY <1>14, <1>01 DEF Finish, AppendFinished, appVars, histVars
  <1>15. ASSUME Crash \/ Open \/ Serve PROVE Stutters
    BY <1>15, <1>01 DEF Crash, Open, Serve, journalVars, appVars, histVars
  <1>16. ASSUME NEW a \in Action, Register(a) \/ AppRepeat(a) PROVE Stutters
    BY <1>16, <1>01 DEF Register, AppRepeat, journalVars, histVars
  <1>17. ASSUME NEW a \in Action, AppRun(a) PROVE Contract!Next
    <2>1. PICK d \in inbox[a] : ran' = [ran EXCEPT ![d[1]][d[2]] = TRUE]
      BY <1>17 DEF AppRun
    <2>2. UNCHANGED <<sends, jdel>>
      BY <1>17 DEF AppRun, journalVars, histVars
    <2>3. QED
      BY <2>1, <2>2, RunIsStep
  <1>18. ASSUME NEW a \in Action, AppRunOrphan(a) PROVE Contract!Next
    <2>1. PICK d \in orphans[a] : ran' = [ran EXCEPT ![d[1]][d[2]] = TRUE]
      BY <1>18 DEF AppRunOrphan
    <2>2. UNCHANGED <<sends, jdel>>
      BY <1>18 DEF AppRunOrphan, journalVars, histVars
    <2>3. QED
      BY <2>1, <2>2, RunIsStep
  <1>19. ASSUME NEW a \in Action, AppDies(a) PROVE Stutters \/ Contract!Next
    <2>1. UNCHANGED <<sends, jdel>>
      BY <1>19 DEF AppDies, journalVars, histVars
    <2>2. UNCHANGED ran \/ \E d \in inbox[a] : ran' = [ran EXCEPT ![d[1]][d[2]] = TRUE]
      BY <1>19 DEF AppDies
    <2>3. QED
      BY <1>01, <2>1, <2>2, RunIsStep
  <1>20. CASE UNCHANGED vars
    <2>1. Stutters
      BY <1>20, <1>01 DEF vars, journalVars, appVars, histVars
    <2>2. QED
      BY <1>0, <2>1
  <1> HIDE DEF Stutters
  <1>21. CASE Next
    BY <1>0, <1>1, <1>2, <1>3, <1>4, <1>5, <1>6, <1>7, <1>8, <1>9, <1>10, <1>11,
       <1>12, <1>13, <1>14, <1>15, <1>16, <1>17, <1>18, <1>19, <1>21 DEF Next
  <1>22. QED
    BY <1>20, <1>21

\* The daemon with its crashes and restarts implements the delivery contract
\* (send_invocation, receive_result, close_interrupted): nothing is delivered
\* or run twice and every recorded verdict is true of the app.
THEOREM LoopImplementsContract == Spec => ImplementsContract
  <1>1. Init => Contract!Init
    BY DEF Init, JournalInit, Contract!Init, Outcome
  <1>2. TypeOK /\ MemoryMatchesDisk /\ [Next]_vars
          => [Contract!Next]_(Contract!contractVars)
    BY StepImplementsContract
  <1>3. QED
    BY <1>1, <1>2, Invariance, PTL DEF Spec, ImplementsContract, Contract!Spec

-----------------------------------------------------------------------------
\* ExecutionStarted meets what the scan requires of it: the id is new and the
\* scan has room for one more unfinished execution.
LEMMA StartedReadable ==
  ASSUME TypeOK, MemoryMatchesDisk, Sound, pc = "idle", NEW e \in Exec, e >= floor,
         state[e] = "EMPTY", Cardinality(Active) < MaxSlots,
         NEW t, AppendStarted(e, t)
  PROVE  jok'
  <1>1. floor > jlast /\ \A f \in Exec : jphase[f] = "open" => state[f] # "EMPTY"
    BY DEF MemoryMatchesDisk, IdIsSpent, Serving, Sound
  <1>2. Unfinished \subseteq Active /\ Active \subseteq Exec
    BY <1>1 DEF Unfinished, Active
  <1>3. IsFiniteSet(Active)
    <2>1. IsFiniteSet(Exec)
      BY FS_Interval, JournalAssumption DEF Exec
    <2>2. QED
      BY <1>2, <2>1, FS_Subset
  <1>4. /\ Cardinality(Unfinished) <= Cardinality(Active)
        /\ Cardinality(Unfinished) \in Nat /\ Cardinality(Active) \in Nat
    BY <1>2, <1>3, FS_Subset, FS_CardinalityType
  <1>5. Cardinality(Unfinished) < MaxInterrupted
    BY <1>4, LoopAssumption, JournalAssumption
  <1>6. e > jlast
    BY <1>1 DEF TypeOK, LoopTypeOK, JournalTypeOK, Exec
  <1>7. QED
    BY <1>1, <1>5, <1>6 DEF AppendStarted

\* What LiveRefusalHasCause says of one step.
LiveStep ==
  Serving /\ jok /\ ~jok' =>
    \/ jtail # "whole" /\ errors > 0
    \/ /\ pc = "finish" /\ Recovered(cur)
       /\ outcome[cur] \in {"Success", "NotSent"}

\* While the daemon serves and no append has failed, every record is one that the
\* scan accepts, but for an ExecutionFinished whose outcome the facts outrank.
LEMMA LiveStepReadable ==
  ASSUME TypeOK, MemoryMatchesDisk, Sound, Serving, [Next]_vars,
         ~(pc = "finish" /\ Outranked(cur))
  PROVE  jok'
  <1>0. /\ jok /\ \A e \in Exec : SlotMatchesJournal(e) /\ req[e] \in Req
        /\ PcMatchesSlot
    BY DEF Sound, MemoryMatchesDisk, TypeOK, LoopTypeOK
  <1>1. ASSUME NEW e \in Exec, Admit(e) PROVE jok'
    BY <1>1, StartedReadable DEF Admit
  <1>2. ASSUME NEW e \in Exec, AdmitFails(e) PROVE jok'
    BY <1>0, <1>2, StartedReadable DEF AdmitFails, journalVars
  <1>3. ASSUME NEW e \in Exec, Prepare(e) PROVE jok'
    <2>1. jphase[e] = "open" /\ OpenOf(e) = {} /\ jhi[e] < req[e]
      BY <1>0, <1>3 DEF Prepare, SlotMatchesJournal
    <2>2. Cardinality(OpenOf(e)) < MaxOpen
      BY <2>1, FS_EmptySet, JournalAssumption
    <2>3. req[e] > jhi[e]
      BY <1>0, <2>1 DEF TypeOK, JournalTypeOK, Req
    <2>4. QED
      BY <1>3, <2>1, <2>2, <2>3 DEF Prepare, AppendPrepared
  <1>4. ASSUME NEW e \in Exec, SendFails(e) PROVE jok'
    <2>1. jphase[e] = "open" /\ Closable(e, req[e], "NotSent")
      BY <1>0, <1>4 DEF SendFails, SlotMatchesJournal, Closable
    <2>2. QED
      BY <1>4, <2>1 DEF SendFails, EndWithoutValue, AppendClosing
  <1>5. ASSUME NEW e \in Exec, Reject(e) PROVE jok'
    <2>1. jphase[e] = "open" /\ Closable(e, req[e], "Unknown")
      BY <1>0, <1>5 DEF Reject, SlotMatchesJournal, Closable, IsOpen
    <2>2. QED
      BY <1>5, <2>1 DEF Reject, EndWithoutValue, AppendClosing
  <1>6. ASSUME NEW e \in Exec, Accept(e) PROVE jok'
    <2>1. PICK k \in {"Success", "AppError"} : AcceptStep(e, k)
      BY <1>6, AcceptIsStep
    <2>2. jphase[e] = "open" /\ Closable(e, req[e], k)
      BY <1>0, <2>1 DEF AcceptStep, SlotMatchesJournal, Closable
    <2>3. QED
      BY <2>1, <2>2 DEF AcceptStep, AppendClosing
  <1>7. ASSUME MarkSent PROVE jok'
    BY <1>0, <1>7 DEF MarkSent, PcMatchesSlot, SlotMatchesJournal, AppendSent
  <1>8. ASSUME Finish PROVE jok'
    <2>1. cur \in Exec /\ state[cur] = "COMPLETE" /\ pc = "finish"
      BY <1>0, <1>8 DEF Finish, PcMatchesSlot
    <2>2. /\ OpenOf(cur) = {} /\ jphase[cur] = "open"
          /\ outcome[cur] \in Outcome /\ jagg[cur] = outcome[cur]
      BY <1>0, <2>1 DEF SlotMatchesJournal, Ending
    <2>3. QED
      BY <1>8, <2>2 DEF Finish, AppendFinished, Outcome
  <1>9. ASSUME NEW e \in Exec, NEW r \in Req, CloseDelivery(e, r)
        PROVE  jok'
    BY <1>9 DEF CloseDelivery, Serving
  <1>10. ASSUME NEW e \in Exec, CloseExecution(e)
         PROVE  jok'
    BY <1>10 DEF CloseExecution, Serving
  <1>11. ASSUME NEW e \in Exec, Assign(e) \/ Send(e) \/ Return(e)
         PROVE  jok'
    BY <1>0, <1>11 DEF Assign, Send, Return, journalVars
  <1>12. ASSUME StoreResult \/ Crash \/ Open \/ Serve
         PROVE  jok'
    BY <1>0, <1>12 DEF StoreResult, Crash, Open, Serve, journalVars
  <1>13. ASSUME NEW a \in Action, \/ Register(a) \/ AppRun(a) \/ AppRepeat(a)
                                  \/ AppRunOrphan(a) \/ AppDies(a)
         PROVE  jok'
    BY <1>0, <1>13
       DEF Register, AppRun, AppRepeat, AppRunOrphan, AppDies, journalVars
  <1>14. CASE UNCHANGED vars
    BY <1>0, <1>14 DEF vars, journalVars
  <1>15. QED
    BY <1>1, <1>2, <1>3, <1>4, <1>5, <1>6, <1>7, <1>8, <1>9, <1>10, <1>11, <1>12,
       <1>13, <1>14 DEF Next

\* For every graph, recovery edges included: what a serving daemon writes is refused
\* by its own next startup only after a failed append of ExecutionStarted or at the
\* end of an execution that recovered from an app error (scan_transition).
THEOREM LiveRefusalsHaveCauses == Spec => LiveRefusalHasCause
  <1>1. TypeOK /\ MemoryMatchesDisk /\ [Next]_vars => [LiveStep]_vars
    <2> SUFFICES ASSUME TypeOK, MemoryMatchesDisk, Next, Serving, jok
                 PROVE  LiveStep
      BY DEF LiveStep
    <2>1. CASE jtail # "whole"
      BY <2>1 DEF MemoryMatchesDisk, TailIsCounted, LiveStep
    <2>2. CASE pc = "finish" /\ Outranked(cur)
      BY <2>2 DEF Outranked, LiveStep
    <2>3. CASE jtail = "whole" /\ ~(pc = "finish" /\ Outranked(cur))
      BY <2>3, LiveStepReadable DEF Sound, LiveStep
    <2>4. QED
      BY <2>1, <2>2, <2>3
  <1>2. QED
    BY <1>1, Invariance, PTL DEF Spec, LiveRefusalHasCause, LiveStep

\* What RecoveryRefusedOnlyIfKnown says of one step.
RefusedStep ==
  pc = "close" /\ jok /\ ~jok' =>
    \E e \in Exec : /\ jphase[e] = "open" /\ jphase'[e] = "Unknown"
                    /\ OpenOf(e) = {}
                    /\ jagg[e] \in {"Success", "AppError", "NotSent"}

\* hermas_journal_file_close_interrupted: ActionUnknown finds its delivery open;
\* the Unknown terminal is refused when the facts say otherwise.
LEMMA RecoveryStepRefused ==
  ASSUME TypeOK, Sound, pc = "close", Next PROVE RefusedStep
  <1>1. JournalTypeOK /\ jok = TRUE
    BY DEF TypeOK, Sound, JournalTypeOK
  <1>2. ASSUME NEW e \in Exec, CloseExecution(e) PROVE RefusedStep
    <2>1. /\ jphase[e] = "open" /\ OpenOf(e) = {} /\ jphase' = [jphase EXCEPT ![e] = "Unknown"]
          /\ jok' = IF jagg[e] = "none" THEN TRUE ELSE jagg[e] = "Unknown"
      BY <1>2 DEF CloseExecution, AppendFinished
    <2>2. jagg[e] \in Outcome \cup {"none"} /\ jphase'[e] = "Unknown"
      BY <1>1, <2>1 DEF JournalTypeOK
    <2>3. QED
      BY <2>1, <2>2 DEF RefusedStep, Outcome
  <1>3. ASSUME NEW e \in Exec, NEW r \in Req, CloseDelivery(e, r) PROVE RefusedStep
    <2>1. Closable(e, r, "Unknown")
      BY <1>3 DEF CloseDelivery, Closable
    <2>2. jok'
      BY <1>3, <2>1 DEF CloseDelivery, AppendClosing
    <2>3. QED
      BY <2>2 DEF RefusedStep
  <1>4. ASSUME UNCHANGED journalVars PROVE RefusedStep
    BY <1>1, <1>4 DEF journalVars, RefusedStep
  <1>5. ASSUME NEW a \in Action, \/ Register(a) \/ AppRun(a) \/ AppRepeat(a)
                                 \/ AppRunOrphan(a) \/ AppDies(a)
        PROVE  RefusedStep
    BY <1>4, <1>5 DEF Register, AppRun, AppRepeat, AppRunOrphan, AppDies
  <1>6. CASE Crash \/ Serve
    <2>1. jok' = jok
      BY <1>6 DEF Crash, Serve, journalVars
    <2>2. QED
      BY <1>1, <2>1 DEF RefusedStep
  <1>7. ASSUME NEW e \in Exec, \/ Admit(e) \/ AdmitFails(e) \/ Prepare(e) \/ Assign(e) \/ Send(e)
                               \/ SendFails(e) \/ Accept(e) \/ Reject(e) \/ Return(e)
        PROVE  FALSE
    BY <1>7 DEF Admit, AdmitFails, Prepare, Assign, Send, SendFails, Accept, Reject, Return
  <1>8. ASSUME MarkSent \/ StoreResult \/ Finish \/ Open PROVE FALSE
    BY <1>8 DEF MarkSent, StoreResult, Finish, Open
  <1>9. QED
    BY <1>2, <1>3, <1>5, <1>6, <1>7, <1>8 DEF Next

\* For every graph: startup makes the journal unreadable in one way only, when it
\* closes an execution as unknown whose facts aggregate to a known outcome
\* (hermas_journal_file_close_interrupted).
THEOREM OnlyRecoveryRefuses == Spec => RecoveryRefusedOnlyIfKnown
  <1>1. TypeOK /\ MemoryMatchesDisk /\ [Next]_vars => [RefusedStep]_vars
    <2> SUFFICES ASSUME TypeOK, MemoryMatchesDisk, Next, pc = "close", jok
                 PROVE  RefusedStep
      BY DEF RefusedStep
    <2>1. Sound
      BY DEF Sound, MemoryMatchesDisk, TailIsCounted
    <2>2. QED
      BY <2>1, RecoveryStepRefused
  <1>2. QED
    BY <1>1, Invariance, PTL DEF Spec, RecoveryRefusedOnlyIfKnown, RefusedStep
=============================================================================
