--------------------------- MODULE SagaLoopProofs ---------------------------
(***************************************************************************)
(* Theorems about SagaLoop, for any number of executions, steps and kills, *)
(* and for tables of any size: there may be more executions than slots.    *)
(*                                                                         *)
(* The invariant is about one execution at a time.  What the stores and the*)
(* apps know of it holds whether the daemon runs or not (Forward, Reverse, *)
(* Told); what its slot knows of it holds while the daemon is up (Live).   *)
(* A startup has only the first to rebuild the second from.  Only the      *)
(* tables couple the executions (Roomy): a slot is held until the journal  *)
(* and the saga log need no entry for the execution any more.              *)
(***************************************************************************)
EXTENDS SagaLoop, TLAPS, FiniteSetTheorems

Fwd(e, i) == <<"fwd", e, i>>
Rev(e, i) == <<"rev", e, i>>

\* The journal holds a prefix of successes and at most one delivery after it.
\* A success was run and has its token.
Forward(e) ==
  /\ jhi[e] \in 0 .. Steps
  /\ \A i \in Req : jdel[e][i] = "none" <=> i > jhi[e]
  /\ \A i \in Req : i < jhi[e] => jdel[e][i] = "Success"
  /\ \A i \in Ordinal :
       /\ jdel[e][i] = "Success" => tokens[<<e, i>>] = 1 /\ runs[Fwd(e, i)] = 1
       /\ i > jhi[e] => tokens[<<e, i>>] = 0 /\ sends[Fwd(e, i)] = 0
  /\ jphase[e] = "absent" => jhi[e] = 0 /\ sphase[e] = "none" /\ told[e] = "none"

\* Between two reverse steps.
Pausing(e) == sdel[e] = "none" /\ sterm[e] = "none"

\* A saga that was started compensates a known failure of step sinit + 1; the
\* steps above snext are compensated, those below it are untouched, and each step
\* has taken one request id.
Reverse(e) ==
  /\ sphase[e] = "none" => shigh[e] = 0 /\ \A i \in Ordinal : sends[Rev(e, i)] = 0
  /\ sphase[e] # "none" =>
       /\ jphase[e] \in Failure /\ sorig[e] = jphase[e]
       /\ sinit[e] >= 1 /\ jhi[e] = sinit[e] + 1 /\ jdel[e][jhi[e]] = jphase[e]
       /\ sorig[e] = "AppError" => results[e] = "AppError"
       /\ snext[e] <= sinit[e] /\ (~Pausing(e) => snext[e] >= 1)
       /\ sdel[e] = "none" \/ sterm[e] = "none"
       /\ \A i \in Ordinal :
            /\ snext[e] < i /\ i <= sinit[e] => runs[Rev(e, i)] = 1
            /\ i < snext[e] \/ i > sinit[e] \/ (i = snext[e] /\ Pausing(e)) => sends[Rev(e, i)] = 0
       /\ shigh[e] + snext[e] <= 2 * sinit[e] + IF Pausing(e) THEN 1 ELSE 2

\* Every confirmed step is compensated.
Rolled(e) == \A i \in Ordinal : jdel[e][i] = "Success" => runs[Rev(e, i)] = 1

Told(e) == told[e] = "AppError" => jphase[e] \in Outcome /\ Rolled(e)

\* Where the daemon is, as far as an execution is concerned.
Off == {"down", "refused", "unsafe", "close"}
Where(e) == IF pc \in Off THEN "down" ELSE IF cur = e THEN pc ELSE "idle"

\* An invocation was sent and its answer is awaited.
Waiting(e) ==
  \/ Where(e) \in {"sent", "revsent"}
  \/ Where(e) = "idle" /\ (state[e] = "SENT" \/ comp[e] = "SENT")

\* What is at the apps on a live connection, and what they have answered, is the
\* invocation that the slot is about.
Connected(e) ==
  /\ \A i \in Ordinal, w \in Direction :
       <<w, e, i>> \in queued => Waiting(e) /\ <<w, e, i>> = At(e)
  /\ answer[e] # "none" => Waiting(e) /\ At(e) \in Invocation /\ runs[At(e)] = 1

\* The slot of a step whose delivery is not closed.
AtStep(e) ==
  /\ jphase[e] = "open" /\ comp[e] = "off" /\ Where(e) \in {"idle", "sent", "succeed"}
  /\ jhi[e] = IF state[e] = "READY" THEN step[e] - 1 ELSE step[e]
  /\ state[e] = "READY" /\ step[e] > 1 => jdel[e][step[e] - 1] = "Success"
  /\ state[e] = "PREPARED" => jdel[e][step[e]] = "prepared"
  /\ state[e] = "SENT" => jdel[e][step[e]] = "sent"
  /\ tokens[<<e, step[e]>>] = IF Where(e) = "succeed" THEN 1 ELSE 0
  /\ Where(e) = "idle" /\ state[e] # "SENT" => sends[Fwd(e, step[e])] = 0
  /\ Where(e) = "sent" => state[e] = "PREPARED"
  /\ Where(e) = "succeed" => state[e] = "SENT" /\ runs[Fwd(e, step[e])] = 1

\* A slot whose forward execution has ended, until its Finished is appended and
\* the compensation begins.
Ended(e) ==
  /\ comp[e] = "off" /\ jhi[e] = step[e] /\ jdel[e][step[e]] = outcome[e]
  /\ outcome[e] \in Outcome /\ (outcome[e] = "Success" => step[e] = Steps)
  /\ Where(e) \in {"store", "finish", "begin"}
  /\ Where(e) = "store" => outcome[e] \in {"Success", "AppError"}
  /\ Where(e) # "store" /\ outcome[e] = "AppError" => results[e] = "AppError"
  /\ IF Where(e) # "begin" THEN jphase[e] = "open"
     ELSE jphase[e] = outcome[e] /\ outcome[e] \in Failure /\ step[e] > 1 /\ sphase[e] = "none"

\* A compensating slot that has a step to go agrees with the saga log ...
Driving(e) ==
  /\ left[e] >= 1 /\ sterm[e] = "none"
  /\ nreq[e] > jhi[e] /\ nreq[e] > shigh[e]
  /\ comp[e] = "READY" =>
       Where(e) = "idle" /\ sdel[e] = "none" /\ nreq[e] + left[e] <= 2 * sinit[e] + 2
  /\ comp[e] # "READY" => nreq[e] = sreq[e] + 1 /\ nreq[e] + left[e] <= 2 * sinit[e] + 3
  /\ comp[e] = "PREPARED" => sdel[e] = "prepared"
  /\ comp[e] = "SENT" => sdel[e] = "sent" /\ Where(e) = "idle"
  /\ comp[e] = "PREPARED" /\ Where(e) = "idle" => sends[Rev(e, left[e])] = 0

\* ... and so does one that is done, or blocked, and has still to say so.
Closing(e) ==
  /\ sdel[e] = "none"
  /\ IF left[e] = 0 THEN rout[e] = "Success" /\ sterm[e] = "none"
     ELSE sterm[e] # "none" /\ rout[e] = sterm[e] /\ outcome[e] # "AppError"

Compensating(e) ==
  /\ sphase[e] = "active" /\ left[e] = snext[e]
  /\ \/ Where(e) \in {"idle", "revsent"} /\ Driving(e)
     \/ Where(e) = "revfinish" /\ Closing(e)

Live(e) ==
  \/ Where(e) = "down"
  \/ Where(e) = "idle" /\ state[e] = "EMPTY" /\ comp[e] = "off"
  \/ state[e] \in {"READY", "PREPARED", "SENT"} /\ AtStep(e)
  \/ state[e] = "COMPLETE" /\ Ended(e)
  \/ state[e] = "COMPLETE" /\ comp[e] # "off" /\ Compensating(e)
  \/ /\ state[e] = "COMPLETE" /\ Where(e) = "idle" /\ comp[e] = "off"
     /\ jphase[e] \in Outcome /\ (outcome[e] = "AppError" => Rolled(e))

\* An invocation is sent once, and then it is in one place.
Flow(d) ==
  /\ sends[d] \in {0, 1} /\ runs[d] \in {0, 1}
  /\ d \in queued \cup late => sends[d] = 1 /\ runs[d] = 0
  /\ d \notin queued \/ d \notin late
  /\ sends[d] = 0 => runs[d] = 0

Control ==
  /\ pc \notin Off \cup {"idle"} => cur \in Exec
  /\ pc \notin Off => floor > jlast
  /\ \A e \in Exec : e > jlast => jphase[e] = "absent"

Good(e) == Forward(e) /\ Reverse(e) /\ Told(e) /\ Live(e) /\ Connected(e)

\* The inductive invariant.
IInv ==
  /\ TypeOK /\ sok = TRUE /\ Control
  /\ \A e \in Exec : Good(e)
  /\ \A d \in Invocation : Flow(d)

\* An execution needs an entry of the scan's tables or has a slot.
Holds(e) == jphase[e] = "open" \/ sphase[e] = "active" \/ state[e] # "EMPTY"

Held == {e \in Exec : Holds(e)}

\* While the daemon is up, what needs an entry has a slot.
SlotHeld(e) ==
  /\ jphase[e] = "open" => state[e] # "EMPTY"
  /\ sphase[e] = "active" => comp[e] # "off"

\* The slots bound the tables, across kills and restarts.
Roomy ==
  /\ Cardinality(Held) <= MaxSlots
  /\ pc \notin Off => \A e \in Exec : SlotHeld(e)

-----------------------------------------------------------------------------
(* One execution at a time *)

\* A step of the daemon that is about another execution.
SameJournal(e) == jphase'[e] = jphase[e] /\ jdel'[e] = jdel[e] /\ jhi'[e] = jhi[e]

SameLog(e) ==
  /\ sphase'[e] = sphase[e] /\ sorig'[e] = sorig[e] /\ sinit'[e] = sinit[e]
  /\ snext'[e] = snext[e] /\ sdel'[e] = sdel[e] /\ sreq'[e] = sreq[e]
  /\ sterm'[e] = sterm[e] /\ shigh'[e] = shigh[e]

SameSlot(e) ==
  /\ state'[e] = state[e] /\ step'[e] = step[e] /\ outcome'[e] = outcome[e]
  /\ comp'[e] = comp[e] /\ left'[e] = left[e] /\ nreq'[e] = nreq[e] /\ rout'[e] = rout[e]

SameStores(e) ==
  /\ \A i \in Ordinal : tokens'[<<e, i>>] = tokens[<<e, i>>]
  /\ results'[e] = results[e] /\ told'[e] = told[e]

SameApps(e) ==
  /\ answer'[e] = answer[e]
  /\ \A w \in Direction, i \in Ordinal :
       /\ sends'[<<w, e, i>>] = sends[<<w, e, i>>] /\ runs'[<<w, e, i>>] = runs[<<w, e, i>>]
       /\ <<w, e, i>> \in queued' <=> <<w, e, i>> \in queued

\* What is not touched stays good.
LEMMA SameKeeps ==
  ASSUME TypeOK, NEW e \in Exec, Good(e), SameJournal(e), SameLog(e), SameSlot(e), SameStores(e),
         SameApps(e), Where(e)' = Where(e)
  PROVE  Good(e)'
  <1>1. step[e] \in Ordinal /\ left[e] \in 0 .. Steps
    BY DEF TypeOK
  <1>2. \A i \in Ordinal : /\ sends'[Fwd(e, i)] = sends[Fwd(e, i)] /\ runs'[Fwd(e, i)] = runs[Fwd(e, i)]
                           /\ sends'[Rev(e, i)] = sends[Rev(e, i)] /\ runs'[Rev(e, i)] = runs[Rev(e, i)]
    BY DEF SameApps, Fwd, Rev, Direction
  <1>3. Forward(e)'
    BY <1>2 DEF Good, Forward, SameJournal, SameLog, SameStores, Fwd
  <1>4. Reverse(e)'
    BY <1>2 DEF Good, Reverse, Pausing, SameJournal, SameLog, SameStores, Rev
  <1>5. Rolled(e)' <=> Rolled(e)
    BY <1>2 DEF Rolled, SameJournal, Rev
  <1>6. Told(e)'
    BY <1>5 DEF Good, Told, SameJournal, SameStores
  <1>7. Live(e)'
    <2>1. AtStep(e) => AtStep(e)'
      BY <1>1, <1>2 DEF AtStep, SameJournal, SameSlot, SameStores, Fwd
    <2>2. Ended(e) => Ended(e)'
      BY DEF Ended, SameJournal, SameSlot, SameStores, SameLog
    <2>3. Driving(e) => Driving(e)'
      <3>1. left[e] >= 1 => left[e] \in Ordinal
        BY <1>1, SagaLogAssumption DEF Ordinal
      <3>2. QED
        BY <1>2, <3>1 DEF Driving, SameJournal, SameSlot, SameLog, Rev
    <2>4. Closing(e) => Closing(e)'
      BY DEF Closing, SameSlot, SameLog
    <2>5. Compensating(e) => Compensating(e)'
      BY <2>3, <2>4 DEF Compensating, SameSlot, SameLog
    <2>6. QED
      BY <1>5, <2>1, <2>2, <2>5 DEF Good, Live, SameSlot, SameJournal
  <1>8. Connected(e)'
    <2>1. At(e)' = At(e) /\ (Waiting(e)' <=> Waiting(e))
      BY DEF At, Waiting, SameSlot
    <2>2. At(e) \in Invocation => runs'[At(e)] = runs[At(e)]
      BY <1>1 DEF At, SameApps, Invocation
    <2>3. QED
      BY <2>1, <2>2 DEF Good, Connected, SameApps
  <1>9. QED
    BY <1>3, <1>4, <1>6, <1>7, <1>8 DEF Good

\* The parts of TypeOK.
SlotType ==
  /\ state \in [Exec -> {"EMPTY", "READY", "PREPARED", "SENT", "COMPLETE"}]
  /\ step \in [Exec -> Ordinal]
  /\ outcome \in [Exec -> {"none"} \cup Outcome]
  /\ comp \in [Exec -> {"off", "READY", "PREPARED", "SENT"}]
  /\ left \in [Exec -> 0 .. Steps]
  /\ nreq \in [Exec -> Nat]
  /\ rout \in [Exec -> {"none"} \cup Outcome]
  /\ reaped \in [Exec -> BOOLEAN]

StoreType ==
  /\ tokens \in [Exec \X Ordinal -> Nat]
  /\ results \in [Exec -> {"none", "Success", "AppError"}]
  /\ torn \in BOOLEAN
  /\ told \in [Exec -> {"none"} \cup Outcome]

AppType ==
  /\ queued \subseteq Invocation /\ late \subseteq Invocation
  /\ answer \in [Exec -> {"none"} \cup Answer]
  /\ sends \in [Invocation -> Nat] /\ runs \in [Invocation -> Nat]

PcType ==
  /\ floor \in 0 .. MaxExecId
  /\ pc \in {"down", "refused", "unsafe", "close", "idle", "sent", "succeed",
             "store", "finish", "begin", "revsent", "revfinish"}
  /\ cur \in Exec \cup {0}
  /\ crashes \in 0 .. MaxEvents

\* TypeOK is the conjunction of its parts.
LEMMA TypeParts ==
  TypeOK <=> JournalTypeOK /\ SagaLogTypeOK /\ SlotType /\ StoreType /\ AppType /\ PcType
  BY DEF TypeOK, SlotType, StoreType, AppType, PcType

Same(e) ==
  SameJournal(e) /\ SameLog(e) /\ SameSlot(e) /\ SameStores(e) /\ SameApps(e) /\ Where(e)' = Where(e)

\* A step is about one execution.
LEMMA OneExecution ==
  ASSUME IInv, NEW e \in Exec, \A f \in Exec : f # e => Same(f),
         JournalTypeOK', SagaLogTypeOK', SlotType', StoreType', AppType', PcType',
         sok' = TRUE, Control', Good(e)', \A d \in Invocation : Flow(d)'
  PROVE  IInv'
  <1>1. TypeOK'
    BY DEF TypeOK, SlotType, StoreType, AppType, PcType
  <1>2. \A f \in Exec : Good(f)'
    BY SameKeeps DEF IInv, Same
  <1>3. QED
    BY <1>1, <1>2 DEF IInv

\* The ordinals of the steps are request ids, and below the reserved one.
LEMMA OrdinalFacts ==
  /\ Steps \in Nat /\ MaxReqId \in Nat /\ Steps >= 1 /\ 2 * Steps < MaxReqId
  /\ Ordinal \subseteq Req /\ Req \subseteq Nat
  /\ \A i \in Ordinal : i \in Nat /\ 1 <= i /\ i <= Steps
  BY SagaLogAssumption, SagaAssumption, JournalAssumption DEF Ordinal, Req

\* In a handler the daemon is where pc says for the execution it handles, and idle
\* for the others.
LEMMA WhereIs ==
  ASSUME NEW e \in Exec, pc \notin Off, pc' \notin Off, pc = "idle" \/ cur = e, pc' = "idle" \/ cur' = e
  PROVE  Where(e) = pc /\ Where(e)' = pc' /\ \A f \in Exec : f # e => Where(f)' = Where(f)
  BY DEF Where

\* A step that appends nothing to the journal ...
LEMMA JournalStays ==
  ASSUME UNCHANGED journalVars
  PROVE  /\ \A f \in Exec : SameJournal(f)
         /\ jlast' = jlast /\ jphase' = jphase /\ (JournalTypeOK => JournalTypeOK')
  BY DEF journalVars, SameJournal, JournalTypeOK

\* ... or to the saga log ...
LEMMA LogStays ==
  ASSUME UNCHANGED sagaLogVars
  PROVE  (\A f \in Exec : SameLog(f)) /\ sok' = sok /\ (SagaLogTypeOK => SagaLogTypeOK')
  BY DEF sagaLogVars, SameLog, SagaLogTypeOK

\* ... or leaves the slots ...
LEMMA SlotsStay ==
  ASSUME UNCHANGED slotVars
  PROVE  (\A f \in Exec : SameSlot(f)) /\ (SlotType => SlotType')
  BY DEF slotVars, SameSlot, SlotType

\* ... or the other stores ...
LEMMA StoresStay ==
  ASSUME UNCHANGED <<tokens, results, torn, told>>
  PROVE  (\A f \in Exec : SameStores(f)) /\ (StoreType => StoreType')
  BY DEF SameStores, StoreType

\* ... or the apps alone.
LEMMA AppsStay ==
  ASSUME UNCHANGED <<appVars, sends>>
  PROVE  /\ \A f \in Exec : SameApps(f)
         /\ (AppType => AppType')
         /\ \A d \in Invocation : Flow(d) => Flow(d)'
  BY DEF appVars, SameApps, AppType, Flow

\* A record of one delivery.
LEMMA DeliveryRecord ==
  ASSUME JournalTypeOK, NEW e \in Exec, NEW r \in Req, NEW v \in Delivery,
         jdel' = [jdel EXCEPT ![e][r] = v]
  PROVE  /\ jdel' \in [Exec -> [Req -> Delivery]]
         /\ \A f \in Exec : f # e => jdel'[f] = jdel[f]
         /\ \A i \in Req : jdel'[e][i] = IF i = r THEN v ELSE jdel[e][i]
  BY DEF JournalTypeOK

\* DeliveryPrepared, as the scan accumulates it.
LEMMA PreparedRecord ==
  ASSUME JournalTypeOK, NEW e \in Exec, NEW r \in Req, AppendPrepared(e, r)
  PROVE  /\ JournalTypeOK' /\ jlast' = jlast /\ jphase' = jphase
         /\ \A f \in Exec : f # e => SameJournal(f)
         /\ jhi'[e] = r
         /\ \A i \in Req : jdel'[e][i] = IF i = r THEN "prepared" ELSE jdel[e][i]
  <1>1. /\ jdel' = [jdel EXCEPT ![e][r] = "prepared"] /\ jhi' = [jhi EXCEPT ![e] = r]
        /\ UNCHANGED <<jtail, jlast, jphase, jagg>> /\ jok' \in BOOLEAN
    BY DEF AppendPrepared
  <1>2. "prepared" \in Delivery
    BY DEF Delivery
  <1>3. r \in 0 .. MaxReqId
    BY OrdinalFacts DEF Req
  <1>4. QED
    BY <1>1, <1>2, <1>3, DeliveryRecord DEF JournalTypeOK, SameJournal

\* DeliverySent.
LEMMA SentRecord ==
  ASSUME JournalTypeOK, NEW e \in Exec, NEW r \in Req, AppendSent(e, r)
  PROVE  /\ JournalTypeOK' /\ jlast' = jlast /\ jphase' = jphase /\ jhi' = jhi
         /\ \A f \in Exec : f # e => SameJournal(f)
         /\ \A i \in Req : jdel'[e][i] = IF i = r THEN "sent" ELSE jdel[e][i]
  <1>1. /\ jdel' = [jdel EXCEPT ![e][r] = "sent"] /\ jok' \in BOOLEAN
        /\ UNCHANGED <<jtail, jlast, jphase, jhi, jagg>>
    BY DEF AppendSent
  <1>2. "sent" \in Delivery
    BY DEF Delivery
  <1>3. QED
    BY <1>1, <1>2, DeliveryRecord DEF JournalTypeOK, SameJournal

\* ActionSucceeded, ActionFailed and ActionUnknown.
LEMMA ClosingRecord ==
  ASSUME JournalTypeOK, NEW e \in Exec, NEW r \in Req, NEW o \in Outcome, AppendClosing(e, r, o)
  PROVE  /\ JournalTypeOK' /\ jlast' = jlast /\ jphase' = jphase /\ jhi' = jhi
         /\ \A f \in Exec : f # e => SameJournal(f)
         /\ \A i \in Req : jdel'[e][i] = IF i = r THEN o ELSE jdel[e][i]
  <1>1. /\ jdel' = [jdel EXCEPT ![e][r] = o] /\ jok' \in BOOLEAN
        /\ jagg' = [jagg EXCEPT ![e] = Stronger(o, jagg[e])]
        /\ UNCHANGED <<jtail, jlast, jphase, jhi>>
    BY DEF AppendClosing
  <1>2. o \in Delivery
    BY DEF Delivery
  <1>3. jagg' \in [Exec -> Outcome \cup {"none"}]
    <2>1. jagg[e] \in Outcome \cup {"none"} /\ Stronger(o, jagg[e]) \in {o, jagg[e]}
      BY DEF JournalTypeOK, Stronger
    <2>2. QED
      BY <1>1, <2>1 DEF JournalTypeOK
  <1>4. QED
    BY <1>1, <1>2, <1>3, DeliveryRecord DEF JournalTypeOK, SameJournal

\* ExecutionFinished.
LEMMA FinishedRecord ==
  ASSUME JournalTypeOK, NEW e \in Exec, NEW o \in Outcome, AppendFinished(e, o)
  PROVE  /\ JournalTypeOK' /\ jlast' = jlast /\ jdel' = jdel /\ jhi' = jhi /\ jphase'[e] = o
         /\ \A f \in Exec : f # e => SameJournal(f)
  <1>1. /\ jphase' = [jphase EXCEPT ![e] = o] /\ jok' \in BOOLEAN
        /\ UNCHANGED <<jtail, jlast, jdel, jhi, jagg>>
    BY DEF AppendFinished
  <1>2. QED
    BY <1>1 DEF JournalTypeOK, SameJournal, Phase

-----------------------------------------------------------------------------
(* The connection of a slot *)

\* Nothing at the apps is about the execution.
Quiet(e) == answer[e] = "none" /\ \A i \in Ordinal, w \in Direction : <<w, e, i>> \notin queued

\* A quiet slot waits for nothing that is not its own.
LEMMA QuietConnected == ASSUME NEW e \in Exec, Quiet(e) PROVE Connected(e)
  BY DEF Quiet, Connected

\* A slot that does not wait is quiet.
LEMMA NotWaitingQuiet == ASSUME NEW e \in Exec, Connected(e), ~Waiting(e) PROVE Quiet(e)
  BY DEF Quiet, Connected

\* A quiet slot stays quiet when nothing happens at the apps.
LEMMA QuietStays == ASSUME NEW e \in Exec, Quiet(e), SameApps(e) PROVE Connected(e)' /\ Quiet(e)'
  BY DEF Quiet, Connected, SameApps

\* A slot goes on waiting for the same invocation.
LEMMA WaitingStays ==
  ASSUME NEW e \in Exec, Connected(e), SameApps(e), At(e)' = At(e), Waiting(e)'
  PROVE  Connected(e)'
  <1>1. At(e) \in Invocation /\ answer[e] # "none" => runs'[At(e)] = runs[At(e)]
    BY DEF SameApps, At, Invocation
  <1>2. QED
    BY <1>1 DEF Connected, SameApps

\* The invocation of a slot is no other slot's.
LEMMA AtIsOwn ==
  ASSUME SlotType, NEW e \in Exec
  PROVE  /\ \A f \in Exec, w \in Direction, i \in Ordinal : f # e => <<w, f, i>> # At(e)
         /\ comp[e] = "off" => At(e) = Fwd(e, step[e]) /\ At(e) \in Invocation
         /\ comp[e] # "off" => At(e) = Rev(e, left[e]) /\ (left[e] >= 1 => At(e) \in Invocation)
  <1>1. step[e] \in Ordinal /\ left[e] \in 0 .. Steps
    BY DEF SlotType
  <1>2. left[e] >= 1 => left[e] \in Ordinal
    BY <1>1, OrdinalFacts DEF Ordinal
  <1>3. QED
    BY <1>1, <1>2 DEF At, Fwd, Rev, Invocation, Direction

\* The daemon stops listening: what was at the app is late.
LEMMA DropQuiet ==
  ASSUME AppType, SlotType, NEW e \in Exec, Connected(e), \A d \in Invocation : Flow(d),
         DropConnection(e), UNCHANGED sends
  PROVE  /\ AppType' /\ Quiet(e)' /\ sends' = sends /\ runs' = runs
         /\ \A f \in Exec : f # e => SameApps(f)
         /\ \A d \in Invocation : Flow(d)'
  <1>1. /\ queued' = queued \ {At(e)} /\ late' = late \cup (queued \cap {At(e)})
        /\ answer' = [answer EXCEPT ![e] = "none"] /\ runs' = runs /\ sends' = sends
    BY DEF DropConnection
  <1>2. AppType'
    BY <1>1 DEF AppType
  <1>3. Quiet(e)'
    BY <1>1 DEF Quiet, Connected, AppType
  <1>4. \A f \in Exec : f # e => SameApps(f)
    BY <1>1, AtIsOwn DEF SameApps, AppType
  <1>5. \A d \in Invocation : Flow(d)'
    BY <1>1 DEF Flow
  <1>6. QED
    BY <1>1, <1>2, <1>3, <1>4, <1>5

\* The answer that the daemon takes is to the invocation of the slot, which has
\* run and is not at the app any more.
LEMMA TakeQuiet ==
  ASSUME AppType, SlotType, NEW e \in Exec, Connected(e), \A d \in Invocation : Flow(d),
         answer[e] # "none", TakeAnswer(e), UNCHANGED sends
  PROVE  /\ AppType' /\ Quiet(e)' /\ sends' = sends /\ runs' = runs /\ runs[At(e)] = 1
         /\ \A f \in Exec : f # e => SameApps(f)
         /\ \A d \in Invocation : Flow(d)'
  <1>1. /\ queued' = queued /\ late' = late
        /\ answer' = [answer EXCEPT ![e] = "none"] /\ runs' = runs /\ sends' = sends
    BY DEF TakeAnswer
  <1>2. AppType'
    BY <1>1 DEF AppType
  <1>3. At(e) \in Invocation /\ runs[At(e)] = 1
    BY DEF Connected
  <1>4. At(e) \notin queued
    BY <1>3 DEF Flow
  <1>5. Quiet(e)'
    BY <1>1, <1>4 DEF Quiet, Connected, AppType
  <1>6. \A f \in Exec : f # e => SameApps(f)
    BY <1>1 DEF SameApps, AppType
  <1>7. \A d \in Invocation : Flow(d)'
    BY <1>1 DEF Flow
  <1>8. QED
    BY <1>1, <1>2, <1>3, <1>5, <1>6, <1>7

\* What the invariant says of one execution.
LEMMA Parts ==
  ASSUME IInv, NEW e \in Exec
  PROVE  /\ JournalTypeOK /\ SagaLogTypeOK /\ SlotType /\ StoreType /\ AppType /\ PcType
         /\ sok = TRUE /\ Control
         /\ Forward(e) /\ Reverse(e) /\ Told(e) /\ Live(e) /\ Connected(e)
         /\ \A d \in Invocation : Flow(d)
  BY TypeParts DEF IInv, Good

-----------------------------------------------------------------------------
(* Forward *)

\* An execution that is admitted is new to every store and to every app.
LEMMA AdmitKeeps == ASSUME IInv, NEW e \in Exec, Admit(e) PROVE IInv'
  <1>1. /\ JournalTypeOK /\ SagaLogTypeOK /\ SlotType /\ StoreType /\ AppType /\ PcType
        /\ sok = TRUE /\ Control
        /\ Forward(e) /\ Reverse(e) /\ Told(e) /\ Live(e) /\ Connected(e)
        /\ \A d \in Invocation : Flow(d)
    BY Parts
  <1>2. /\ pc = "idle" /\ pc' = pc /\ e >= floor /\ floor' = e + 1 /\ state[e] = "EMPTY"
        /\ state' = [state EXCEPT ![e] = "READY"] /\ step' = [step EXCEPT ![e] = 1]
        /\ UNCHANGED <<outcome, comp, left, nreq, rout, reaped, cur, crashes>>
        /\ UNCHANGED sagaLogVars /\ UNCHANGED <<tokens, results, torn, told>>
        /\ UNCHANGED <<appVars, sends>>
    BY DEF Admit
  <1>3. /\ jphase' = [jphase EXCEPT ![e] = "open"] /\ jlast' = IF e > jlast THEN e ELSE jlast
        /\ jok' \in BOOLEAN /\ UNCHANGED <<jtail, jdel, jhi, jagg>>
    BY DEF Admit, AppendStarted
  <1>4. e \in Nat /\ e >= 1 /\ e < MaxExecId /\ MaxExecId \in Nat /\ jlast \in Nat /\ floor \in Nat
    BY <1>1, JournalAssumption DEF Exec, JournalTypeOK, PcType
  <1>5. e > jlast /\ jlast' = e /\ jphase[e] = "absent"
    BY <1>1, <1>2, <1>3, <1>4 DEF Control, Off
  <1>6. \A f \in Exec : jphase'[f] = IF f = e THEN "open" ELSE jphase[f]
    BY <1>1, <1>3 DEF JournalTypeOK
  <1>7. jhi[e] = 0 /\ sphase[e] = "none" /\ told[e] = "none"
    BY <1>1, <1>5 DEF Forward
  <1>8. comp[e] = "off" /\ ~Waiting(e)
    BY <1>1, <1>2 DEF Live, Waiting, Where, Off, AtStep, Ended, Compensating
  <1>9. Where(e) = "idle" /\ Where(e)' = "idle" /\ \A f \in Exec : f # e => Where(f)' = Where(f)
    BY <1>2, WhereIs DEF Off
  <1>10. state'[e] = "READY" /\ step'[e] = 1 /\ comp'[e] = "off"
    BY <1>1, <1>2, <1>8 DEF SlotType
  <1>11. 1 \in Ordinal
    BY OrdinalFacts DEF Ordinal
  <1>12. SlotType' /\ \A f \in Exec : f # e => SameSlot(f)
    BY <1>1, <1>2, <1>11 DEF SlotType, SameSlot
  <1>13. JournalTypeOK' /\ \A f \in Exec : f # e => SameJournal(f)
    <2>1. jlast' \in 0 .. (MaxExecId - 1)
      BY <1>4, <1>5
    <2>2. QED
      BY <1>1, <1>3, <1>6, <2>1 DEF JournalTypeOK, SameJournal, Phase
  <1>14. Control'
    <2>1. ASSUME NEW f \in Exec, f > jlast' PROVE jphase'[f] = "absent"
      <3>1. f \in Nat /\ f > jlast /\ f # e
        BY <1>4, <1>5, <2>1 DEF Exec
      <3>2. QED
        BY <1>1, <1>6, <3>1 DEF Control
    <2>2. QED
      BY <1>2, <1>4, <1>5, <2>1 DEF Control, Off
  <1>15. PcType'
    BY <1>1, <1>2, <1>4 DEF PcType
  <1>16. Forward(e)'
    BY <1>1, <1>2, <1>3, <1>6, <1>7 DEF Forward, appVars, sagaLogVars, Fwd
  <1>17. Reverse(e)'
    BY <1>1, <1>2, <1>7 DEF Reverse, sagaLogVars, Rev
  <1>18. Told(e)'
    BY <1>2, <1>7 DEF Told
  <1>19. Live(e)'
    <2>1. tokens[<<e, 1>>] = 0 /\ sends[Fwd(e, 1)] = 0
      BY <1>1, <1>7, <1>11 DEF Forward
    <2>2. AtStep(e)'
      BY <1>2, <1>3, <1>6, <1>7, <1>9, <1>10, <2>1 DEF AtStep, Fwd
    <2>3. QED
      BY <1>10, <2>2 DEF Live
  <1>20. Connected(e)'
    BY <1>1, <1>2, <1>8, NotWaitingQuiet, QuietStays, AppsStay
  <1>21. \A f \in Exec : f # e => Same(f)
    BY <1>2, <1>9, <1>12, <1>13, LogStays, StoresStay, AppsStay DEF Same
  <1>22. Good(e)'
    BY <1>16, <1>17, <1>18, <1>19, <1>20 DEF Good
  <1>23. QED
    BY <1>1, <1>2, <1>12, <1>13, <1>14, <1>15, <1>21, <1>22, LogStays, StoresStay, AppsStay,
       OneExecution

\* DeliveryPrepared follows the successes of the earlier steps.
LEMMA PrepareKeeps == ASSUME IInv, NEW e \in Exec, Prepare(e) PROVE IInv'
  <1>1. /\ JournalTypeOK /\ SagaLogTypeOK /\ SlotType /\ StoreType /\ AppType /\ PcType
        /\ sok = TRUE /\ Control
        /\ Forward(e) /\ Reverse(e) /\ Told(e) /\ Live(e) /\ Connected(e)
        /\ \A d \in Invocation : Flow(d)
    BY Parts
  <1>2. /\ pc = "idle" /\ pc' = pc /\ state[e] = "READY" /\ AppendPrepared(e, step[e])
        /\ state' = [state EXCEPT ![e] = "PREPARED"]
        /\ UNCHANGED <<step, outcome, comp, left, nreq, rout, reaped, floor, cur, crashes>>
        /\ UNCHANGED sagaLogVars /\ UNCHANGED <<tokens, results, torn, told>>
        /\ UNCHANGED <<appVars, sends>>
    BY DEF Prepare
  <1> DEFINE s == step[e]
  <1>3. s \in Ordinal /\ s \in Req /\ s \in Nat /\ s >= 1 /\ s <= Steps
    BY <1>1, OrdinalFacts DEF SlotType
  <1>4. Where(e) = "idle" /\ Where(e)' = "idle" /\ \A f \in Exec : f # e => Where(f)' = Where(f)
    BY <1>2, WhereIs DEF Off
  <1>5. AtStep(e) /\ ~Waiting(e)
    BY <1>1, <1>2, <1>4 DEF Live, Waiting, AtStep
  <1>6. /\ jphase[e] = "open" /\ comp[e] = "off" /\ jhi[e] = s - 1
        /\ tokens[<<e, s>>] = 0 /\ sends[Fwd(e, s)] = 0 /\ (s > 1 => jdel[e][s - 1] = "Success")
    BY <1>2, <1>4, <1>5 DEF AtStep
  <1>7. /\ JournalTypeOK' /\ jlast' = jlast /\ jphase' = jphase
        /\ \A f \in Exec : f # e => SameJournal(f)
        /\ jhi'[e] = s
        /\ \A i \in Req : jdel'[e][i] = IF i = s THEN "prepared" ELSE jdel[e][i]
    BY <1>1, <1>2, <1>3, PreparedRecord
  <1>8. state'[e] = "PREPARED" /\ step'[e] = s /\ comp'[e] = "off"
    BY <1>1, <1>2, <1>6 DEF SlotType
  <1>9. SlotType' /\ \A f \in Exec : f # e => SameSlot(f)
    BY <1>1, <1>2 DEF SlotType, SameSlot
  <1>10. Forward(e)'
    <2>1. jhi'[e] \in 0 .. Steps
      BY <1>3, <1>7
    <2>2. ASSUME NEW i \in Req PROVE jdel'[e][i] = "none" <=> i > s
      <3>1. i \in Nat /\ (jdel[e][i] = "none" <=> i > s - 1)
        BY <1>1, <1>6, OrdinalFacts DEF Forward
      <3>2. QED
        BY <1>3, <1>7, <3>1
    <2>3. ASSUME NEW i \in Req, i < s PROVE jdel'[e][i] = "Success"
      <3>1. i \in Nat /\ (i = s - 1 \/ i < s - 1)
        BY <1>3, <2>3, OrdinalFacts
      <3>2. CASE i = s - 1
        BY <1>3, <1>6, <1>7, <3>1, <3>2, OrdinalFacts DEF Req
      <3>3. CASE i < s - 1
        BY <1>1, <1>3, <1>6, <1>7, <3>1, <3>3 DEF Forward
      <3>4. QED
        BY <3>1, <3>2, <3>3
    <2>4. ASSUME NEW i \in Ordinal
          PROVE  /\ jdel'[e][i] = "Success" => tokens[<<e, i>>] = 1 /\ runs[Fwd(e, i)] = 1
                 /\ i > s => tokens[<<e, i>>] = 0 /\ sends[Fwd(e, i)] = 0
      BY <1>1, <1>3, <1>6, <1>7, OrdinalFacts DEF Forward
    <2>5. QED
      BY <1>2, <1>6, <1>7, <2>1, <2>2, <2>3, <2>4 DEF Forward, appVars, Fwd
  <1>11. Reverse(e)'
    BY <1>1, <1>2, <1>6 DEF Reverse, sagaLogVars, Rev, Failure
  <1>12. Told(e)'
    BY <1>1, <1>2, <1>6 DEF Told, Outcome
  <1>13. Live(e)'
    <2>1. AtStep(e)'
      BY <1>2, <1>3, <1>4, <1>6, <1>7, <1>8 DEF AtStep, Fwd
    <2>2. QED
      BY <1>8, <2>1 DEF Live
  <1>14. Connected(e)'
    BY <1>1, <1>2, <1>5, NotWaitingQuiet, QuietStays, AppsStay
  <1>15. \A f \in Exec : f # e => Same(f)
    BY <1>2, <1>4, <1>7, <1>9, LogStays, StoresStay, AppsStay DEF Same
  <1>16. Good(e)'
    BY <1>10, <1>11, <1>12, <1>13, <1>14 DEF Good
  <1>17. Control' /\ PcType'
    BY <1>1, <1>2, <1>7 DEF Control, PcType
  <1>18. QED
    BY <1>1, <1>2, <1>7, <1>9, <1>15, <1>16, <1>17, LogStays, StoresStay, AppsStay, OneExecution

\* An invocation is sent when its delivery is prepared and was not sent before.
LEMMA SendKeeps == ASSUME IInv, NEW e \in Exec, Send(e) PROVE IInv'
  <1>1. /\ JournalTypeOK /\ SagaLogTypeOK /\ SlotType /\ StoreType /\ AppType /\ PcType
        /\ sok = TRUE /\ Control
        /\ Forward(e) /\ Reverse(e) /\ Told(e) /\ Live(e) /\ Connected(e)
        /\ \A d \in Invocation : Flow(d)
    BY Parts
  <1> DEFINE a == At(e)
  <1>2. /\ pc = "idle" /\ (state[e] = "PREPARED" \/ comp[e] = "PREPARED")
        /\ queued' = queued \cup {a} /\ sends' = [sends EXCEPT ![a] = @ + 1]
        /\ pc' = (IF comp[e] = "off" THEN "sent" ELSE "revsent") /\ cur' = e
        /\ UNCHANGED journalVars /\ UNCHANGED sagaLogVars /\ UNCHANGED slotVars
        /\ UNCHANGED <<tokens, results, torn, told>> /\ UNCHANGED <<floor, late, answer, runs, crashes>>
    BY DEF Send, Goto, storeVars
  <1>3. /\ Where(e) = "idle" /\ Where(e)' = (IF comp[e] = "off" THEN "sent" ELSE "revsent")
        /\ \A f \in Exec : f # e => Where(f)' = Where(f)
    BY <1>2, WhereIs DEF Off
  <1>4. UNCHANGED <<state, step, outcome, comp, left, nreq, rout>> /\ a' = a
    BY <1>2 DEF slotVars, At
  <1>5. UNCHANGED <<sphase, sorig, sinit, snext, sdel, sreq, sterm, shigh>>
    BY <1>2 DEF sagaLogVars
  <1>6. UNCHANGED <<jphase, jdel, jhi, jlast>>
    BY <1>2 DEF journalVars
  <1>7. ASSUME comp[e] = "off"
        PROVE  a \in Invocation /\ sends[a] = 0 /\ ~Waiting(e) /\ Forward(e)' /\ Reverse(e)' /\ Live(e)'
    <2>1. state[e] = "PREPARED" /\ AtStep(e) /\ step[e] \in Ordinal /\ a = Fwd(e, step[e])
      BY <1>1, <1>2, <1>3, <1>7, AtIsOwn DEF Live, SlotType
    <2>2. a \in Invocation /\ sends[a] = 0 /\ ~Waiting(e) /\ jhi[e] = step[e]
      BY <1>1, <1>3, <1>7, <2>1, AtIsOwn DEF AtStep, Waiting
    <2>3. \A i \in Ordinal : /\ i # step[e] => Fwd(e, i) # a
                             /\ Rev(e, i) # a
      BY <2>1 DEF Fwd, Rev
    <2>4. \A i \in Ordinal : Fwd(e, i) \in Invocation /\ Rev(e, i) \in Invocation
      BY DEF Fwd, Rev, Invocation, Direction
    <2>5. \A i \in Ordinal : /\ i > jhi[e] => sends'[Fwd(e, i)] = sends[Fwd(e, i)]
                             /\ sends'[Rev(e, i)] = sends[Rev(e, i)]
      BY <1>1, <1>2, <2>1, <2>2, <2>3, <2>4, OrdinalFacts DEF AppType
    <2>6. Forward(e)'
      BY <1>1, <1>2, <1>5, <1>6, <2>5 DEF Forward, Fwd
    <2>7. Reverse(e)'
      BY <1>1, <1>2, <1>5, <1>6, <2>5 DEF Reverse, Pausing, Rev
    <2>8. AtStep(e)'
      BY <1>2, <1>3, <1>4, <1>6, <1>7, <2>1 DEF AtStep, Fwd
    <2>9. QED
      BY <1>4, <2>1, <2>2, <2>6, <2>7, <2>8 DEF Live
  <1>8. ASSUME comp[e] # "off"
        PROVE  a \in Invocation /\ sends[a] = 0 /\ ~Waiting(e) /\ Forward(e)' /\ Reverse(e)' /\ Live(e)'
    <2>1. /\ comp[e] = "PREPARED" /\ state[e] = "COMPLETE" /\ Compensating(e) /\ Driving(e)
          /\ left[e] \in 0 .. Steps /\ a = Rev(e, left[e])
      BY <1>1, <1>2, <1>3, <1>8, AtIsOwn DEF Live, AtStep, Ended, Compensating, SlotType
    <2>2. /\ a \in Invocation /\ sends[a] = 0 /\ ~Waiting(e) /\ left[e] = snext[e] /\ sdel[e] = "prepared"
          /\ sphase[e] = "active"
      BY <1>1, <1>3, <1>8, <2>1, AtIsOwn DEF Compensating, Driving, Waiting
    <2>3. \A i \in Ordinal : /\ i # left[e] => Rev(e, i) # a
                             /\ Fwd(e, i) # a
      BY <2>1 DEF Fwd, Rev
    <2>4. \A i \in Ordinal : Fwd(e, i) \in Invocation /\ Rev(e, i) \in Invocation
      BY DEF Fwd, Rev, Invocation, Direction
    <2>5. \A i \in Ordinal : /\ i # left[e] => sends'[Rev(e, i)] = sends[Rev(e, i)]
                             /\ sends'[Fwd(e, i)] = sends[Fwd(e, i)]
      BY <1>1, <1>2, <2>1, <2>2, <2>3, <2>4 DEF AppType
    <2>6. Forward(e)'
      BY <1>1, <1>2, <1>5, <1>6, <2>5 DEF Forward, Fwd
    <2>7. Reverse(e)'
      <3>1. sinit[e] \in Nat /\ snext[e] \in Nat /\ snext[e] <= sinit[e] /\ ~Pausing(e)
        BY <1>1, <2>2 DEF SagaLogTypeOK, Reverse, Pausing
      <3>2. \A i \in Ordinal : i < snext[e] \/ i > sinit[e] => i # left[e]
        BY <2>2, <3>1, OrdinalFacts
      <3>3. QED
        BY <1>1, <1>2, <1>5, <1>6, <2>2, <2>5, <3>1, <3>2 DEF Reverse, Pausing, Rev
    <2>8. Compensating(e)'
      BY <1>2, <1>3, <1>4, <1>5, <1>6, <1>8, <2>1, <2>2 DEF Compensating, Driving, Rev
    <2>9. QED
      BY <1>4, <1>8, <2>1, <2>2, <2>6, <2>7, <2>8 DEF Live
  <1>9. a \in Invocation /\ sends[a] = 0 /\ Quiet(e)
    BY <1>1, <1>7, <1>8, NotWaitingQuiet
  <1>10. Connected(e)'
    <2>1. Waiting(e)' /\ At(e)' = a
      BY <1>3, <1>4 DEF Waiting
    <2>2. \A i \in Ordinal, w \in Direction : <<w, e, i>> \in queued' => <<w, e, i>> = a
      BY <1>2, <1>9 DEF Quiet
    <2>3. answer'[e] = "none"
      BY <1>2, <1>9 DEF Quiet
    <2>4. QED
      BY <2>1, <2>2, <2>3 DEF Connected
  <1>11. Told(e)'
    BY <1>1, <1>2, <1>6 DEF Told, Rolled, Rev
  <1>12. AppType'
    BY <1>1, <1>2, <1>9 DEF AppType
  <1>13. \A f \in Exec : f # e => SameApps(f)
    BY <1>1, <1>2, <1>9, AtIsOwn DEF SameApps, AppType, Invocation
  <1>14. \A d \in Invocation : Flow(d)'
    <2> TAKE d \in Invocation
    <2>1. CASE d = a
      <3>1. d \notin queued /\ d \notin late /\ runs[d] = 0 /\ sends'[d] = 1
        BY <1>1, <1>2, <1>9, <2>1 DEF Flow, AppType
      <3>2. QED
        BY <1>2, <3>1 DEF Flow
    <2>2. CASE d # a
      <3>1. sends'[d] = sends[d] /\ (d \in queued' <=> d \in queued)
        BY <1>1, <1>2, <2>2 DEF AppType
      <3>2. QED
        BY <1>1, <1>2, <3>1 DEF Flow
    <2>3. QED
      BY <2>1, <2>2
  <1>15. \A f \in Exec : f # e => Same(f)
    BY <1>2, <1>3, <1>13, JournalStays, LogStays, SlotsStay, StoresStay DEF Same
  <1>16. Good(e)'
    BY <1>7, <1>8, <1>10, <1>11 DEF Good
  <1>17. Control' /\ PcType'
    BY <1>1, <1>2, <1>6 DEF Control, PcType, Off
  <1>18. QED
    BY <1>1, <1>2, <1>12, <1>14, <1>15, <1>16, <1>17, JournalStays, LogStays, SlotsStay, StoresStay,
       OneExecution

\* DeliverySent: the slot goes on waiting for the same invocation.
LEMMA MarkSentKeeps == ASSUME IInv, NEW e \in Exec, cur = e, MarkSent PROVE IInv'
  <1> DEFINE s == step[e]
  <1>1. pc = "sent" /\ cur = e
    BY DEF MarkSent
  <1>2. /\ JournalTypeOK /\ SagaLogTypeOK /\ SlotType /\ StoreType /\ AppType /\ PcType
        /\ sok = TRUE /\ Control
        /\ Forward(e) /\ Reverse(e) /\ Told(e) /\ Live(e) /\ Connected(e)
        /\ \A d \in Invocation : Flow(d)
    BY <1>1, Parts
  <1>3. /\ AppendSent(e, s) /\ state' = [state EXCEPT ![e] = "SENT"] /\ pc' = "idle" /\ cur' = 0
        /\ UNCHANGED <<step, outcome, comp, left, nreq, rout, reaped, floor, crashes>>
        /\ UNCHANGED sagaLogVars /\ UNCHANGED <<tokens, results, torn, told>>
        /\ UNCHANGED <<appVars, sends>>
    BY DEF MarkSent, Goto
  <1>4. Where(e) = "sent" /\ Where(e)' = "idle" /\ \A f \in Exec : f # e => Where(f)' = Where(f)
    BY <1>1, <1>3, WhereIs DEF Off
  <1>5. s \in Ordinal /\ s \in Req
    BY <1>1, <1>2, OrdinalFacts DEF SlotType
  <1>6. AtStep(e)
    BY <1>2, <1>4 DEF Live, Ended, Compensating
  <1>7. /\ jphase[e] = "open" /\ comp[e] = "off" /\ jhi[e] = s /\ state[e] = "PREPARED"
        /\ jdel[e][s] = "prepared" /\ tokens[<<e, s>>] = 0
    BY <1>4, <1>6 DEF AtStep
  <1>8. /\ JournalTypeOK' /\ jlast' = jlast /\ jphase' = jphase /\ jhi' = jhi
        /\ \A f \in Exec : f # e => SameJournal(f)
        /\ \A i \in Req : jdel'[e][i] = IF i = s THEN "sent" ELSE jdel[e][i]
    BY <1>1, <1>2, <1>3, <1>5, SentRecord
  <1>9. state'[e] = "SENT" /\ step'[e] = s /\ comp'[e] = "off"
    BY <1>1, <1>2, <1>3, <1>7 DEF SlotType
  <1>10. SlotType' /\ \A f \in Exec : f # e => SameSlot(f)
    BY <1>2, <1>3 DEF SlotType, SameSlot
  <1> HIDE DEF s
  <1>11. Forward(e)'
    BY <1>2, <1>3, <1>5, <1>7, <1>8, OrdinalFacts DEF Forward, appVars, sagaLogVars, Fwd
  <1>12. Reverse(e)'
    BY <1>2, <1>3, <1>7 DEF Reverse, sagaLogVars, Rev, Failure
  <1>13. Told(e)'
    BY <1>2, <1>3, <1>7 DEF Told, Outcome
  <1>14. Live(e)'
    <2>1. AtStep(e)'
      BY <1>3, <1>4, <1>5, <1>7, <1>8, <1>9 DEF AtStep, Fwd
    <2>2. QED
      BY <1>9, <2>1 DEF Live
  <1>15. Connected(e)'
    <2>1. At(e)' = At(e) /\ Waiting(e)'
      BY <1>3, <1>4, <1>9 DEF At, Waiting
    <2>2. SameApps(e)
      BY <1>1, <1>3, AppsStay
    <2>3. QED
      BY <1>1, <1>2, <2>1, <2>2, WaitingStays
  <1>16. \A f \in Exec : f # e => Same(f)
    BY <1>3, <1>4, <1>8, <1>10, LogStays, StoresStay, AppsStay DEF Same
  <1>17. Good(e)'
    BY <1>11, <1>12, <1>13, <1>14, <1>15 DEF Good
  <1>18. Control' /\ PcType'
    BY <1>1, <1>2, <1>3, <1>8 DEF Control, PcType, Off
  <1>19. QED
    BY <1>2, <1>3, <1>8, <1>10, <1>16, <1>17, <1>18, LogStays, StoresStay, AppsStay, OneExecution

\* A success is enrolled before it is journalled.
LEMMA EnrolKeeps == ASSUME IInv, NEW e \in Exec, Enrol(e) PROVE IInv'
  <1>1. /\ JournalTypeOK /\ SagaLogTypeOK /\ SlotType /\ StoreType /\ AppType /\ PcType
        /\ sok = TRUE /\ Control
        /\ Forward(e) /\ Reverse(e) /\ Told(e) /\ Live(e) /\ Connected(e)
        /\ \A d \in Invocation : Flow(d)
    BY Parts
  <1> DEFINE s == step[e]
  <1>2. /\ pc = "idle" /\ state[e] = "SENT" /\ answer[e] = "Success"
        /\ tokens' = [tokens EXCEPT ![<<e, s>>] = @ + 1] /\ TakeAnswer(e)
        /\ pc' = "succeed" /\ cur' = e
        /\ UNCHANGED journalVars /\ UNCHANGED sagaLogVars /\ UNCHANGED slotVars
        /\ UNCHANGED <<results, torn, told>> /\ UNCHANGED <<floor, sends, crashes>>
    BY DEF Enrol, Goto
  <1>3. Where(e) = "idle" /\ Where(e)' = "succeed" /\ \A f \in Exec : f # e => Where(f)' = Where(f)
    BY <1>2, WhereIs DEF Off
  <1>4. s \in Ordinal
    BY <1>1 DEF SlotType
  <1>5. AtStep(e)
    BY <1>1, <1>2, <1>3 DEF Live
  <1>6. /\ jphase[e] = "open" /\ comp[e] = "off" /\ jhi[e] = s
        /\ jdel[e][s] = "sent" /\ tokens[<<e, s>>] = 0
    BY <1>2, <1>3, <1>5 DEF AtStep
  <1>7. /\ AppType' /\ Quiet(e)' /\ sends' = sends /\ runs' = runs /\ runs[At(e)] = 1
        /\ \A f \in Exec : f # e => SameApps(f)
        /\ \A d \in Invocation : Flow(d)'
    BY <1>1, <1>2, TakeQuiet
  <1>8. runs[Fwd(e, s)] = 1
    BY <1>1, <1>6, <1>7, AtIsOwn
  <1>9. StoreType' /\ tokens'[<<e, s>>] = 1
    BY <1>1, <1>2, <1>4, <1>6 DEF StoreType
  <1>10. \A f \in Exec, i \in Ordinal : <<f, i>> # <<e, s>> => tokens'[<<f, i>>] = tokens[<<f, i>>]
    BY <1>1, <1>2 DEF StoreType
  <1>11. \A f \in Exec : f # e => SameStores(f)
    BY <1>2, <1>10 DEF SameStores
  <1>12. UNCHANGED <<state, step, outcome, comp, left, nreq, rout>>
    BY <1>2 DEF slotVars
  <1>13. UNCHANGED <<sphase, sorig, sinit, snext, sdel, sreq, sterm, shigh>>
    BY <1>2 DEF sagaLogVars
  <1>14. UNCHANGED <<jphase, jdel, jhi, jlast>>
    BY <1>2 DEF journalVars
  <1>15. Forward(e)'
    <2>1. \A i \in Ordinal : i # s => tokens'[<<e, i>>] = tokens[<<e, i>>]
      BY <1>10
    <2>2. QED
      BY <1>1, <1>2, <1>4, <1>6, <1>7, <1>13, <1>14, <2>1, OrdinalFacts DEF Forward, Fwd
  <1>16. Reverse(e)'
    BY <1>1, <1>6, <1>7, <1>13, <1>14 DEF Reverse, Rev, Failure
  <1>17. Told(e)'
    BY <1>1, <1>2, <1>6 DEF Told, Outcome
  <1>18. Live(e)'
    <2>1. AtStep(e)'
      BY <1>2, <1>3, <1>6, <1>7, <1>8, <1>9, <1>12, <1>14 DEF AtStep, Fwd
    <2>2. QED
      BY <1>2, <1>12, <2>1 DEF Live
  <1>19. Connected(e)'
    BY <1>7 DEF Quiet, Connected
  <1>20. \A f \in Exec : f # e => Same(f)
    BY <1>2, <1>3, <1>7, <1>11, JournalStays, LogStays, SlotsStay DEF Same
  <1>21. Good(e)'
    BY <1>15, <1>16, <1>17, <1>18, <1>19 DEF Good
  <1>22. Control' /\ PcType'
    BY <1>1, <1>2, <1>14 DEF Control, PcType, Off
  <1>23. QED
    BY <1>1, <1>2, <1>7, <1>9, <1>20, <1>21, <1>22, JournalStays, LogStays, SlotsStay, OneExecution

\* ActionSucceeded: the next step, or the end of the saga.
LEMMA SucceedKeeps == ASSUME IInv, NEW e \in Exec, cur = e, Succeed PROVE IInv'
  <1> DEFINE s == step[e]
  <1>1. pc = "succeed" /\ cur = e
    BY DEF Succeed
  <1>2. /\ JournalTypeOK /\ SagaLogTypeOK /\ SlotType /\ StoreType /\ AppType /\ PcType
        /\ sok = TRUE /\ Control
        /\ Forward(e) /\ Reverse(e) /\ Told(e) /\ Live(e) /\ Connected(e)
        /\ \A d \in Invocation : Flow(d)
    BY Parts
  <1>3. /\ AppendClosing(e, s, "Success")
        /\ UNCHANGED <<comp, left, nreq, rout, reaped, floor, crashes>>
        /\ UNCHANGED sagaLogVars /\ UNCHANGED <<tokens, results, torn, told>>
        /\ UNCHANGED <<appVars, sends>>
    BY <1>1 DEF Succeed
  <1>4. \/ /\ s < Steps /\ pc' = "idle" /\ cur' = 0
           /\ state' = [state EXCEPT ![e] = "READY"] /\ step' = [step EXCEPT ![e] = s + 1]
           /\ outcome' = outcome
        \/ /\ s = Steps /\ pc' = "store" /\ cur' = e
           /\ state' = [state EXCEPT ![e] = "COMPLETE"] /\ outcome' = [outcome EXCEPT ![e] = "Success"]
           /\ step' = step
    BY <1>1 DEF Succeed, Goto
  <1>5. Where(e) = "succeed" /\ Where(e)' = pc' /\ \A f \in Exec : f # e => Where(f)' = Where(f)
    BY <1>1, <1>4, WhereIs DEF Off
  <1>6. s \in Ordinal /\ s \in Req /\ s \in Nat /\ s >= 1 /\ s <= Steps
    BY <1>2, OrdinalFacts DEF SlotType
  <1>7. AtStep(e) /\ ~Waiting(e)
    BY <1>2, <1>5 DEF Live, Ended, Compensating, Waiting
  <1>8. /\ jphase[e] = "open" /\ comp[e] = "off" /\ jhi[e] = s /\ state[e] = "SENT"
        /\ jdel[e][s] = "sent" /\ tokens[<<e, s>>] = 1 /\ runs[Fwd(e, s)] = 1
    BY <1>5, <1>7 DEF AtStep
  <1>9. /\ JournalTypeOK' /\ jlast' = jlast /\ jphase' = jphase /\ jhi' = jhi
        /\ \A f \in Exec : f # e => SameJournal(f)
        /\ \A i \in Req : jdel'[e][i] = IF i = s THEN "Success" ELSE jdel[e][i]
    BY <1>2, <1>3, <1>6, ClosingRecord DEF Outcome
  <1>10. SlotType' /\ \A f \in Exec : f # e => SameSlot(f)
    <2>1. s < Steps => s + 1 \in Ordinal
      BY <1>6, OrdinalFacts DEF Ordinal
    <2>2. QED
      BY <1>2, <1>3, <1>4, <2>1 DEF SlotType, SameSlot, Outcome
  <1>11. UNCHANGED <<sends, runs>>
    BY <1>3 DEF appVars
  <1>12. Forward(e)'
    <2>1. \A i \in Req : jdel'[e][i] = "none" <=> i > s
      BY <1>2, <1>6, <1>8, <1>9, OrdinalFacts DEF Forward
    <2>2. \A i \in Req : i < s => jdel'[e][i] = "Success"
      BY <1>2, <1>8, <1>9 DEF Forward
    <2>3. ASSUME NEW i \in Ordinal
          PROVE  /\ jdel'[e][i] = "Success" => tokens[<<e, i>>] = 1 /\ runs[Fwd(e, i)] = 1
                 /\ i > s => tokens[<<e, i>>] = 0 /\ sends[Fwd(e, i)] = 0
      BY <1>2, <1>8, <1>9, OrdinalFacts DEF Forward
    <2>4. QED
      BY <1>2, <1>3, <1>8, <1>9, <1>11, <2>1, <2>2, <2>3 DEF Forward, Fwd
  <1>13. Reverse(e)'
    BY <1>2, <1>3, <1>8, <1>11 DEF Reverse, sagaLogVars, Rev, Failure
  <1>14. Told(e)'
    BY <1>2, <1>3, <1>8 DEF Told, Outcome
  <1>15. Live(e)'
    <2>1. CASE s < Steps
      <3>1. state'[e] = "READY" /\ step'[e] = s + 1 /\ comp'[e] = "off" /\ pc' = "idle"
        BY <1>2, <1>3, <1>4, <1>6, <1>8, <2>1 DEF SlotType
      <3>2. s + 1 \in Ordinal /\ s + 1 > jhi[e] /\ s + 1 - 1 = s
        BY <1>6, <1>8, <2>1, OrdinalFacts DEF Ordinal
      <3>3. tokens[<<e, s + 1>>] = 0 /\ sends[Fwd(e, s + 1)] = 0
        BY <1>2, <3>2 DEF Forward
      <3>4. AtStep(e)'
        BY <1>3, <1>5, <1>6, <1>8, <1>9, <1>11, <3>1, <3>2, <3>3 DEF AtStep, Fwd
      <3>5. QED
        BY <3>1, <3>4 DEF Live
    <2>2. CASE s = Steps
      <3>1. /\ state'[e] = "COMPLETE" /\ step'[e] = s /\ comp'[e] = "off" /\ pc' = "store"
            /\ outcome'[e] = "Success"
        BY <1>2, <1>3, <1>4, <1>6, <1>8, <2>2 DEF SlotType
      <3>2. Ended(e)'
        BY <1>5, <1>6, <1>8, <1>9, <2>2, <3>1 DEF Ended, Outcome
      <3>3. QED
        BY <3>1, <3>2 DEF Live
    <2>3. QED
      BY <1>4, <2>1, <2>2
  <1>16. Connected(e)'
    BY <1>2, <1>3, <1>7, NotWaitingQuiet, QuietStays, AppsStay
  <1>17. \A f \in Exec : f # e => Same(f)
    BY <1>3, <1>5, <1>9, <1>10, LogStays, StoresStay, AppsStay DEF Same
  <1>18. Good(e)'
    BY <1>12, <1>13, <1>14, <1>15, <1>16 DEF Good
  <1>19. Control' /\ PcType'
    BY <1>1, <1>2, <1>3, <1>4, <1>9 DEF Control, PcType, Off
  <1>20. QED
    BY <1>2, <1>3, <1>9, <1>10, <1>17, <1>18, <1>19, LogStays, StoresStay, AppsStay, OneExecution

\* ActionFailed or ActionUnknown ends the forward execution; an app error alone
\* has a result to store.
LEMMA FailForwardKeeps ==
  ASSUME IInv, NEW e \in Exec, NEW o \in {"AppError", "NotSent", "Unknown"},
         NEW next \in {"store", "finish"}, next = "store" <=> o = "AppError",
         pc = "idle", state[e] \in {"PREPARED", "SENT"}, FailForward(e, o, next),
         AppType', Quiet(e)', sends' = sends, runs' = runs,
         \A f \in Exec : f # e => SameApps(f), \A d \in Invocation : Flow(d)'
  PROVE  IInv'
  <1> DEFINE s == step[e]
  <1>1. /\ JournalTypeOK /\ SagaLogTypeOK /\ SlotType /\ StoreType /\ AppType /\ PcType
        /\ sok = TRUE /\ Control
        /\ Forward(e) /\ Reverse(e) /\ Told(e) /\ Live(e)
    BY Parts
  <1>2. /\ AppendClosing(e, s, o) /\ pc' = next /\ cur' = e
        /\ state' = [state EXCEPT ![e] = "COMPLETE"] /\ outcome' = [outcome EXCEPT ![e] = o]
        /\ UNCHANGED <<step, comp, left, nreq, rout, reaped, floor, crashes>>
        /\ UNCHANGED sagaLogVars /\ UNCHANGED <<tokens, results, torn, told>>
    BY DEF FailForward, Goto
  <1>3. Where(e) = "idle" /\ Where(e)' = next /\ \A f \in Exec : f # e => Where(f)' = Where(f)
    BY <1>2, WhereIs DEF Off
  <1>4. s \in Ordinal /\ s \in Req /\ s \in Nat
    BY <1>1, OrdinalFacts DEF SlotType
  <1>5. AtStep(e)
    BY <1>1, <1>3 DEF Live
  <1>6. /\ jphase[e] = "open" /\ comp[e] = "off" /\ jhi[e] = s /\ jdel[e][s] # "none"
    BY <1>5 DEF AtStep
  <1>7. o \in Outcome /\ o # "Success" /\ o # "none"
    BY DEF Outcome
  <1>8. /\ JournalTypeOK' /\ jlast' = jlast /\ jphase' = jphase /\ jhi' = jhi
        /\ \A f \in Exec : f # e => SameJournal(f)
        /\ \A i \in Req : jdel'[e][i] = IF i = s THEN o ELSE jdel[e][i]
    BY <1>1, <1>2, <1>4, <1>7, ClosingRecord
  <1>9. SlotType' /\ \A f \in Exec : f # e => SameSlot(f)
    BY <1>1, <1>2, <1>7 DEF SlotType, SameSlot
  <1>10. Forward(e)'
    BY <1>1, <1>2, <1>4, <1>6, <1>7, <1>8, OrdinalFacts DEF Forward, sagaLogVars, Fwd
  <1>11. Reverse(e)'
    BY <1>1, <1>2, <1>6 DEF Reverse, sagaLogVars, Rev, Failure
  <1>12. Told(e)'
    BY <1>1, <1>2, <1>6 DEF Told, Outcome
  <1>13. Live(e)'
    <2>1. state'[e] = "COMPLETE" /\ step'[e] = s /\ comp'[e] = "off" /\ outcome'[e] = o
      BY <1>1, <1>2, <1>6 DEF SlotType
    <2>2. Ended(e)'
      BY <1>3, <1>4, <1>6, <1>7, <1>8, <2>1 DEF Ended
    <2>3. QED
      BY <2>1, <2>2 DEF Live
  <1>14. Connected(e)'
    BY DEF Quiet, Connected
  <1>15. \A f \in Exec : f # e => Same(f)
    BY <1>2, <1>3, <1>8, <1>9, LogStays, StoresStay DEF Same
  <1>16. Good(e)'
    BY <1>10, <1>11, <1>12, <1>13, <1>14 DEF Good
  <1>17. Control' /\ PcType'
    BY <1>1, <1>2, <1>8 DEF Control, PcType, Off
  <1>18. QED
    BY <1>1, <1>2, <1>8, <1>9, <1>15, <1>16, <1>17, LogStays, StoresStay, OneExecution

\* send() fails for good, the app answers with an error, or it answers badly or
\* not at all.
LEMMA ForwardFailureKeeps ==
  ASSUME IInv, NEW e \in Exec, SendFails(e) \/ AppFails(e) \/ Reject(e) PROVE IInv'
  <1>1. AppType /\ SlotType /\ Connected(e) /\ \A d \in Invocation : Flow(d)
    BY Parts
  <1>2. CASE SendFails(e)
    BY <1>1, <1>2, DropQuiet, FailForwardKeeps DEF SendFails, FailForward
  <1>3. CASE AppFails(e)
    BY <1>1, <1>3, TakeQuiet, FailForwardKeeps DEF AppFails, FailForward
  <1>4. CASE Reject(e)
    BY <1>1, <1>4, DropQuiet, FailForwardKeeps DEF Reject, FailForward
  <1>5. QED
    BY <1>2, <1>3, <1>4

\* The result is stored before the execution is finished.
LEMMA StoreResultKeeps == ASSUME IInv, NEW e \in Exec, cur = e, StoreResult PROVE IInv'
  <1>1. pc = "store" /\ cur = e
    BY DEF StoreResult
  <1>2. /\ JournalTypeOK /\ SagaLogTypeOK /\ SlotType /\ StoreType /\ AppType /\ PcType
        /\ sok = TRUE /\ Control
        /\ Forward(e) /\ Reverse(e) /\ Told(e) /\ Live(e) /\ Connected(e)
        /\ \A d \in Invocation : Flow(d)
    BY Parts
  <1>3. /\ results' = [results EXCEPT ![e] = outcome[e]] /\ pc' = "finish" /\ cur' = e
        /\ UNCHANGED <<tokens, torn, told, floor, crashes>>
        /\ UNCHANGED journalVars /\ UNCHANGED sagaLogVars /\ UNCHANGED slotVars
        /\ UNCHANGED <<appVars, sends>>
    BY <1>1 DEF StoreResult, Goto
  <1>4. Where(e) = "store" /\ Where(e)' = "finish" /\ \A f \in Exec : f # e => Where(f)' = Where(f)
    BY <1>1, <1>3, WhereIs DEF Off
  <1>5. state[e] = "COMPLETE" /\ Ended(e) /\ ~Waiting(e)
    BY <1>2, <1>4 DEF Live, AtStep, Compensating, Waiting
  <1>6. jphase[e] = "open" /\ outcome[e] \in {"Success", "AppError"}
    BY <1>4, <1>5 DEF Ended
  <1>7. StoreType' /\ results'[e] = outcome[e] /\ \A f \in Exec : f # e => SameStores(f)
    BY <1>2, <1>3, <1>6 DEF StoreType, SameStores
  <1>8. /\ UNCHANGED <<state, step, outcome, comp, left, nreq, rout>>
        /\ UNCHANGED <<sphase, sorig, sinit, snext, sdel, sreq, sterm, shigh>>
        /\ UNCHANGED <<jphase, jdel, jhi, jlast>> /\ UNCHANGED <<sends, runs>>
    BY <1>3 DEF slotVars, sagaLogVars, journalVars, appVars
  <1>9. Forward(e)' /\ Told(e)'
    BY <1>2, <1>3, <1>8 DEF Forward, Told, Rolled, Fwd, Rev
  <1>10. Reverse(e)'
    BY <1>2, <1>6, <1>8 DEF Reverse, Rev, Failure
  <1>11. Ended(e)'
    BY <1>4, <1>5, <1>6, <1>7, <1>8 DEF Ended
  <1>12. Live(e)'
    BY <1>5, <1>8, <1>11 DEF Live
  <1>13. Connected(e)'
    BY <1>2, <1>3, <1>5, NotWaitingQuiet, QuietStays, AppsStay
  <1>14. \A f \in Exec : f # e => Same(f)
    BY <1>3, <1>4, <1>7, JournalStays, LogStays, SlotsStay, AppsStay DEF Same
  <1>15. Good(e)'
    BY <1>9, <1>10, <1>12, <1>13 DEF Good
  <1>16. Control' /\ PcType'
    BY <1>1, <1>2, <1>3, <1>8 DEF Control, PcType, Off
  <1>17. QED
    BY <1>2, <1>3, <1>7, <1>14, <1>15, <1>16, JournalStays, LogStays, SlotsStay, AppsStay, OneExecution

\* ExecutionFinished.  An app error that is not compensated is one of the first
\* step, where there is nothing to compensate.
LEMMA FinishKeeps == ASSUME IInv, NEW e \in Exec, cur = e, Finish PROVE IInv'
  <1> DEFINE s == step[e]
             o == outcome[e]
  <1>1. pc = "finish" /\ cur = e
    BY DEF Finish
  <1>2. /\ JournalTypeOK /\ SagaLogTypeOK /\ SlotType /\ StoreType /\ AppType /\ PcType
        /\ sok = TRUE /\ Control
        /\ Forward(e) /\ Reverse(e) /\ Told(e) /\ Live(e) /\ Connected(e)
        /\ \A d \in Invocation : Flow(d)
    BY Parts
  <1>3. /\ AppendFinished(e, o)
        /\ IF o \in Failure /\ s > 1 THEN pc' = "begin" /\ cur' = e ELSE pc' = "idle" /\ cur' = 0
        /\ UNCHANGED <<tokens, results, torn, told>> /\ UNCHANGED <<floor, crashes>>
        /\ UNCHANGED sagaLogVars /\ UNCHANGED slotVars /\ UNCHANGED <<appVars, sends>>
    BY <1>1 DEF Finish, Goto
  <1>4. Where(e) = "finish" /\ Where(e)' = pc' /\ \A f \in Exec : f # e => Where(f)' = Where(f)
    BY <1>1, <1>3, WhereIs DEF Off
  <1>5. state[e] = "COMPLETE" /\ Ended(e) /\ ~Waiting(e)
    BY <1>2, <1>4 DEF Live, AtStep, Compensating, Waiting
  <1>6. /\ jphase[e] = "open" /\ o \in Outcome /\ comp[e] = "off" /\ jhi[e] = s
        /\ jdel[e][s] = o /\ (o = "Success" => s = Steps) /\ (o = "AppError" => results[e] = "AppError")
    BY <1>4, <1>5 DEF Ended
  <1>7. s \in Ordinal /\ s \in Nat /\ s >= 1
    BY <1>2, OrdinalFacts DEF SlotType
  <1>8. /\ JournalTypeOK' /\ jlast' = jlast /\ jdel' = jdel /\ jhi' = jhi /\ jphase'[e] = o
        /\ \A f \in Exec : f # e => SameJournal(f)
    BY <1>2, <1>3, <1>6, FinishedRecord
  <1>9. /\ UNCHANGED <<state, step, outcome, comp, left, nreq, rout>>
        /\ UNCHANGED <<sphase, sorig, sinit, snext, sdel, sreq, sterm, shigh>>
        /\ UNCHANGED <<sends, runs>>
    BY <1>3 DEF slotVars, sagaLogVars, appVars
  <1>10. sphase[e] = "none" /\ told[e] # "AppError"
    BY <1>2, <1>6 DEF Reverse, Told, Failure, Outcome
  <1>11. Forward(e)' /\ Told(e)'
    BY <1>2, <1>3, <1>6, <1>8, <1>9, <1>10 DEF Forward, Told, Fwd, Outcome
  <1>12. Reverse(e)'
    BY <1>2, <1>9, <1>10 DEF Reverse, Rev
  <1>13. Live(e)'
    <2>1. CASE o \in Failure /\ s > 1
      <3>1. Ended(e)'
        BY <1>3, <1>4, <1>6, <1>8, <1>9, <1>10, <2>1 DEF Ended
      <3>2. QED
        BY <1>5, <1>9, <3>1 DEF Live
    <2>2. CASE ~(o \in Failure /\ s > 1)
      <3>1. Where(e)' = "idle"
        BY <1>3, <1>4, <2>2
      <3>2. o = "AppError" => Rolled(e)'
        <4>1. ASSUME o = "AppError", NEW i \in Ordinal PROVE jdel[e][i] # "Success"
          <5>1. s = 1
            BY <1>7, <2>2, <4>1 DEF Failure
          <5>2. i = 1 \/ i > 1
            BY OrdinalFacts
          <5>3. QED
            BY <1>2, <1>6, <4>1, <5>1, <5>2, OrdinalFacts DEF Forward
        <4>2. QED
          BY <1>8, <4>1 DEF Rolled
      <3>3. QED
        BY <1>5, <1>6, <1>8, <1>9, <3>1, <3>2 DEF Live
    <2>3. QED
      BY <2>1, <2>2
  <1>14. Connected(e)'
    BY <1>2, <1>3, <1>5, NotWaitingQuiet, QuietStays, AppsStay
  <1>15. \A f \in Exec : f # e => Same(f)
    BY <1>3, <1>4, <1>8, LogStays, SlotsStay, StoresStay, AppsStay DEF Same
  <1>16. Good(e)'
    BY <1>11, <1>12, <1>13, <1>14 DEF Good
  <1>17. Control'
    <2>1. ASSUME NEW f \in Exec, f > jlast' PROVE jphase'[f] = "absent"
      <3>1. f # e
        BY <1>2, <1>6, <1>8, <2>1 DEF Control
      <3>2. QED
        BY <1>2, <1>8, <2>1, <3>1 DEF Control, SameJournal
    <2>2. QED
      BY <1>1, <1>2, <1>3, <1>8, <2>1 DEF Control, Off
  <1>18. PcType'
    BY <1>1, <1>2, <1>3 DEF PcType
  <1>19. QED
    BY <1>2, <1>3, <1>8, <1>15, <1>16, <1>17, <1>18, LogStays, SlotsStay, StoresStay, AppsStay,
       OneExecution

-----------------------------------------------------------------------------
(* Reverse *)

\* Sets of executions are finite.
LEMMA ExecSubset ==
  ASSUME NEW S, S \subseteq Exec
  PROVE  IsFiniteSet(S) /\ Cardinality(S) \in Nat
  <1>1. IsFiniteSet(Exec)
    BY JournalAssumption, FS_Interval DEF Exec
  <1>2. QED
    BY <1>1, FS_Subset, FS_CardinalityType

\* The saga log has room for an execution that has a slot.
LEMMA LogHasRoom ==
  ASSUME Roomy, NEW e \in Exec, state[e] # "EMPTY", sphase[e] # "active"
  PROVE  Cardinality(InLog) < MaxActive
  <1>1. e \in Held /\ Held \subseteq Exec /\ InLog \subseteq Held \ {e}
    BY DEF Held, Holds, InLog
  <1>2. IsFiniteSet(Held) /\ Cardinality(Held) \in Nat
    BY <1>1, ExecSubset
  <1>3. IsFiniteSet(Held \ {e}) /\ Cardinality(Held \ {e}) = Cardinality(Held) - 1
    BY <1>1, <1>2, FS_RemoveElement
  <1>4. Cardinality(InLog) <= Cardinality(Held \ {e})
    BY <1>1, <1>3, FS_Subset
  <1>5. Cardinality(InLog) \in Nat
    BY <1>1, ExecSubset
  <1>6. QED
    BY <1>2, <1>3, <1>4, <1>5, SagaLogAssumption, SagaAssumption DEF Roomy

\* A startup finds a slot for every saga of the log.
LEMMA LogFitsSlots == ASSUME Roomy PROVE ~(Cardinality(InLog) > MaxSlots)
  <1>1. Held \subseteq Exec /\ InLog \subseteq Held
    BY DEF Held, Holds, InLog
  <1>2. IsFiniteSet(Held) /\ Cardinality(Held) \in Nat /\ Cardinality(InLog) \in Nat
    BY <1>1, ExecSubset
  <1>3. Cardinality(InLog) <= Cardinality(Held)
    BY <1>1, <1>2, FS_Subset
  <1>4. QED
    BY <1>2, <1>3, SagaAssumption DEF Roomy

\* Started, as the scan accumulates it.
LEMMA StartedLog ==
  ASSUME SagaLogTypeOK, sok = TRUE, NEW e \in Exec, NEW n \in 0 .. Steps, NEW o \in Failure,
         Roomy, state[e] # "EMPTY", sphase[e] # "active", LogStarted(e, n, o)
  PROVE  /\ SagaLogTypeOK' /\ sok' = TRUE /\ \A f \in Exec : f # e => SameLog(f)
         /\ sphase'[e] = "active" /\ sorig'[e] = o /\ sinit'[e] = n /\ snext'[e] = n
         /\ sdel'[e] = "none" /\ sterm'[e] = "none" /\ shigh'[e] = shigh[e]
  <1>1. /\ sok' = (sok /\ sphase[e] # "active" /\ Cardinality(InLog) < MaxActive)
        /\ sphase' = [sphase EXCEPT ![e] = "active"] /\ sorig' = [sorig EXCEPT ![e] = o]
        /\ sinit' = [sinit EXCEPT ![e] = n] /\ snext' = [snext EXCEPT ![e] = n]
        /\ sdel' = [sdel EXCEPT ![e] = "none"] /\ sterm' = [sterm EXCEPT ![e] = "none"]
        /\ UNCHANGED <<sreq, shigh>>
    BY DEF LogStarted
  <1>2. sok' = TRUE
    BY <1>1, LogHasRoom
  <1>3. SagaLogTypeOK'
    BY <1>1, <1>2 DEF SagaLogTypeOK
  <1>4. QED
    BY <1>1, <1>2, <1>3 DEF SagaLogTypeOK, SameLog

\* DeliveryPrepared of a step.
LEMMA PreparedLog ==
  ASSUME SagaLogTypeOK, sok = TRUE, NEW e \in Exec, NEW r \in Nat, sphase[e] = "active", Pausing(e),
         LogPrepared(e, snext[e], r)
  PROVE  /\ SagaLogTypeOK' /\ sok' = TRUE /\ \A f \in Exec : f # e => SameLog(f)
         /\ sdel'[e] = "prepared" /\ sreq'[e] = r
         /\ shigh'[e] = IF r > shigh[e] THEN r ELSE shigh[e]
         /\ UNCHANGED <<sphase, sorig, sinit, snext, sterm>>
  <1>1. /\ sok' = (/\ sok /\ sphase[e] = "active" /\ sdel[e] = "none" /\ sterm[e] = "none"
                   /\ snext[e] = snext[e])
        /\ sdel' = [sdel EXCEPT ![e] = "prepared"] /\ sreq' = [sreq EXCEPT ![e] = r]
        /\ shigh' = [shigh EXCEPT ![e] = IF r > shigh[e] THEN r ELSE shigh[e]]
        /\ UNCHANGED <<sphase, sorig, sinit, snext, sterm>>
    BY DEF LogPrepared
  <1>2. sok' = TRUE
    BY <1>1 DEF Pausing
  <1>3. SagaLogTypeOK'
    BY <1>1, <1>2 DEF SagaLogTypeOK
  <1>4. QED
    BY <1>1, <1>2, <1>3 DEF SagaLogTypeOK, SameLog

\* DeliverySent of a step.
LEMMA SentLog ==
  ASSUME SagaLogTypeOK, sok = TRUE, NEW e \in Exec, sphase[e] = "active", sdel[e] = "prepared",
         LogSent(e, snext[e], sreq[e])
  PROVE  /\ SagaLogTypeOK' /\ sok' = TRUE /\ \A f \in Exec : f # e => SameLog(f)
         /\ sdel'[e] = "sent" /\ UNCHANGED <<sphase, sorig, sinit, snext, sreq, sterm, shigh>>
  <1>1. /\ sok' = (/\ sok /\ sphase[e] = "active" /\ sdel[e] = "prepared"
                   /\ RouteMatches(e, snext[e], sreq[e]))
        /\ sdel' = [sdel EXCEPT ![e] = "sent"]
        /\ UNCHANGED <<sphase, sorig, sinit, snext, sreq, sterm, shigh>>
    BY DEF LogSent
  <1>2. sok' = TRUE
    BY <1>1 DEF RouteMatches
  <1>3. SagaLogTypeOK'
    BY <1>1, <1>2 DEF SagaLogTypeOK
  <1>4. QED
    BY <1>1, <1>2, <1>3 DEF SagaLogTypeOK, SameLog

\* StepSucceeded, StepFailed and StepUnknown.
LEMMA StepLog ==
  ASSUME SagaLogTypeOK, sok = TRUE, NEW e \in Exec, NEW o \in Outcome, sphase[e] = "active",
         StepClosable(e, o), snext[e] >= 1, LogStep(e, snext[e], sreq[e], o)
  PROVE  /\ SagaLogTypeOK' /\ sok' = TRUE /\ \A f \in Exec : f # e => SameLog(f)
         /\ sdel'[e] = "none" /\ UNCHANGED <<sphase, sorig, sinit, sreq, shigh>>
         /\ snext'[e] = (IF o = "Success" THEN snext[e] - 1 ELSE snext[e])
         /\ sterm'[e] = (IF o = "Success" THEN sterm[e] ELSE o)
  <1>1. /\ sok' = (/\ sok /\ sphase[e] = "active" /\ StepClosable(e, o)
                   /\ RouteMatches(e, snext[e], sreq[e]))
        /\ sdel' = [sdel EXCEPT ![e] = "none"]
        /\ snext' = [snext EXCEPT ![e] = IF o = "Success" THEN snext[e] - 1 ELSE snext[e]]
        /\ sterm' = [sterm EXCEPT ![e] = IF o = "Success" THEN sterm[e] ELSE o]
        /\ UNCHANGED <<sphase, sorig, sinit, sreq, shigh>>
    BY DEF LogStep
  <1>2. sok' = TRUE
    BY <1>1 DEF RouteMatches
  <1>3. snext[e] \in 0 .. Steps /\ snext[e] - 1 \in 0 .. Steps
    BY OrdinalFacts DEF SagaLogTypeOK
  <1>4. SagaLogTypeOK'
    BY <1>1, <1>2, <1>3 DEF SagaLogTypeOK
  <1>5. QED
    BY <1>1, <1>2, <1>4 DEF SagaLogTypeOK, SameLog

\* Finished, which repeats what the steps have said.
LEMMA FinishedLog ==
  ASSUME SagaLogTypeOK, sok = TRUE, NEW e \in Exec, NEW o \in Outcome, sphase[e] = "active",
         sdel[e] = "none", LogFinished(e, o),
         (sterm[e] = "none" /\ snext[e] = 0 /\ o = "Success") \/ (sterm[e] # "none" /\ sterm[e] = o)
  PROVE  /\ SagaLogTypeOK' /\ sok' = TRUE /\ \A f \in Exec : f # e => SameLog(f)
         /\ sphase'[e] = o /\ UNCHANGED <<sorig, sinit, snext, sdel, sreq, sterm, shigh>>
  <1>1. /\ sok' = (/\ sok /\ sphase[e] = "active" /\ sdel[e] = "none"
                   /\ \/ sterm[e] = "none" /\ snext[e] = 0 /\ o = "Success"
                      \/ sterm[e] # "none" /\ sterm[e] = o)
        /\ sphase' = [sphase EXCEPT ![e] = o]
        /\ UNCHANGED <<sorig, sinit, snext, sdel, sreq, sterm, shigh>>
    BY DEF LogFinished
  <1>2. sok' = TRUE
    BY <1>1
  <1>3. SagaLogTypeOK'
    BY <1>1, <1>2 DEF SagaLogTypeOK
  <1>4. QED
    BY <1>1, <1>2, <1>3 DEF SagaLogTypeOK, SameLog

\* The numbers of a saga that was started.
LEMMA SagaNumbers ==
  ASSUME SagaLogTypeOK, JournalTypeOK, SlotType, NEW e \in Exec, Forward(e), Reverse(e), sphase[e] # "none"
  PROVE  /\ sinit[e] \in Nat /\ snext[e] \in Nat /\ shigh[e] \in Nat /\ sreq[e] \in Nat
         /\ nreq[e] \in Nat /\ left[e] \in Nat
         /\ snext[e] <= sinit[e] /\ sinit[e] >= 1 /\ sinit[e] + 1 <= Steps /\ jhi[e] = sinit[e] + 1
         /\ \A i \in Ordinal : i <= sinit[e] <=> jdel[e][i] = "Success"
         /\ \A i \in 1 .. sinit[e] : i \in Ordinal /\ TokenFound(e, i)
  <1>1. /\ sinit[e] \in Nat /\ snext[e] \in Nat /\ shigh[e] \in Nat /\ sreq[e] \in Nat
        /\ nreq[e] \in Nat /\ left[e] \in Nat
    BY OrdinalFacts DEF SagaLogTypeOK, SlotType
  <1>2. /\ snext[e] <= sinit[e] /\ sinit[e] >= 1 /\ jhi[e] = sinit[e] + 1 /\ jhi[e] <= Steps
        /\ jdel[e][jhi[e]] # "Success"
    BY DEF Reverse, Forward, Failure
  <1>3. ASSUME NEW i \in Ordinal PROVE i <= sinit[e] <=> jdel[e][i] = "Success"
    <2>1. i \in Req /\ i \in Nat
      BY OrdinalFacts
    <2>2. CASE i < jhi[e]
      BY <1>1, <1>2, <2>1, <2>2 DEF Forward
    <2>3. CASE i = jhi[e]
      BY <1>1, <1>2, <2>1, <2>3
    <2>4. CASE i > jhi[e]
      BY <1>1, <1>2, <2>1, <2>4 DEF Forward
    <2>5. QED
      BY <1>1, <1>2, <2>1, <2>2, <2>3, <2>4
  <1>4. ASSUME NEW i \in 1 .. sinit[e] PROVE i \in Ordinal /\ TokenFound(e, i)
    <2>1. i \in Ordinal
      BY <1>1, <1>2, OrdinalFacts DEF Ordinal
    <2>2. jdel[e][i] = "Success"
      BY <1>1, <1>3, <2>1
    <2>3. QED
      BY <2>1, <2>2 DEF Forward, TokenFound
  <1>5. QED
    BY <1>1, <1>2, <1>3, <1>4

\* A failed execution has the tokens of the steps before the failure: the live
\* compensation can begin.
LEMMA BeginHasTokens ==
  ASSUME IInv, NEW e \in Exec, cur = e, pc = "begin"
  PROVE  /\ HasTokens(e, step[e] - 1) /\ Ended(e) /\ state[e] = "COMPLETE" /\ ~Waiting(e)
         /\ Where(e) = "begin"
  <1>1. SlotType /\ Forward(e) /\ Live(e)
    BY Parts
  <1>2. Where(e) = "begin"
    BY DEF Where, Off
  <1>3. Ended(e) /\ state[e] = "COMPLETE" /\ ~Waiting(e)
    BY <1>1, <1>2 DEF Live, AtStep, Compensating, Waiting
  <1>4. step[e] \in Nat /\ step[e] <= Steps /\ jhi[e] = step[e]
    BY <1>1, <1>3, OrdinalFacts DEF Ended, SlotType
  <1>5. ASSUME NEW i \in 1 .. (step[e] - 1) PROVE TokenFound(e, i)
    <2>1. i \in Ordinal /\ i \in Req /\ i < jhi[e]
      BY <1>4, OrdinalFacts DEF Ordinal
    <2>2. QED
      BY <1>1, <2>1 DEF Forward, TokenFound
  <1>6. QED
    BY <1>2, <1>3, <1>5 DEF HasTokens

\* Started: nothing is compensated yet.
LEMMA BeginKeeps == ASSUME IInv, Roomy, NEW e \in Exec, cur = e, Begin PROVE IInv' /\ pc' = "idle"
  <1> DEFINE s == step[e]
             o == outcome[e]
  <1>1. pc = "begin" /\ cur = e
    BY DEF Begin
  <1>2. /\ JournalTypeOK /\ SagaLogTypeOK /\ SlotType /\ StoreType /\ AppType /\ PcType
        /\ sok = TRUE /\ Control
        /\ Forward(e) /\ Reverse(e) /\ Told(e) /\ Live(e) /\ Connected(e)
        /\ \A d \in Invocation : Flow(d)
    BY Parts
  <1>3. HasTokens(e, s - 1) /\ Ended(e) /\ state[e] = "COMPLETE" /\ ~Waiting(e) /\ Where(e) = "begin"
    BY <1>1, BeginHasTokens
  <1>4. /\ LogStarted(e, s - 1, o) /\ comp' = [comp EXCEPT ![e] = "READY"]
        /\ left' = [left EXCEPT ![e] = s - 1] /\ nreq' = [nreq EXCEPT ![e] = s + 1]
        /\ pc' = "idle" /\ cur' = 0
        /\ UNCHANGED journalVars /\ UNCHANGED <<tokens, results, torn, told>>
        /\ UNCHANGED <<state, step, outcome, rout, reaped, floor, crashes>>
        /\ UNCHANGED <<appVars, sends>>
    BY <1>1, <1>3 DEF Begin, Goto
  <1>5. Where(e)' = "idle" /\ \A f \in Exec : f # e => Where(f)' = Where(f)
    BY <1>1, <1>4, WhereIs DEF Off
  <1>6. /\ jphase[e] = o /\ o \in Failure /\ s > 1 /\ sphase[e] = "none" /\ jhi[e] = s
        /\ jdel[e][s] = o /\ (o = "AppError" => results[e] = "AppError")
    BY <1>3 DEF Ended
  <1>7. s \in Nat /\ s <= Steps /\ s - 1 \in 0 .. Steps /\ s + 1 \in Nat /\ Steps \in Nat
    <2>1. s \in Ordinal /\ s > 1
      BY <1>2, <1>6 DEF SlotType
    <2>2. s \in Nat /\ 1 <= s /\ s <= Steps /\ Steps \in Nat
      BY <2>1, OrdinalFacts
    <2>3. QED
      BY <2>1, <2>2
  <1>8. /\ SagaLogTypeOK' /\ sok' = TRUE /\ \A f \in Exec : f # e => SameLog(f)
        /\ sphase'[e] = "active" /\ sorig'[e] = o /\ sinit'[e] = s - 1 /\ snext'[e] = s - 1
        /\ sdel'[e] = "none" /\ sterm'[e] = "none" /\ shigh'[e] = shigh[e]
    BY <1>2, <1>3, <1>4, <1>6, <1>7, StartedLog
  <1>9. SlotType' /\ \A f \in Exec : f # e => SameSlot(f)
    BY <1>2, <1>4, <1>7 DEF SlotType, SameSlot
  <1>10. /\ state'[e] = "COMPLETE" /\ comp'[e] = "READY" /\ left'[e] = s - 1 /\ nreq'[e] = s + 1
    BY <1>2, <1>3, <1>4 DEF SlotType
  <1>11. UNCHANGED <<jphase, jdel, jhi, jlast>> /\ UNCHANGED <<sends, runs>>
    BY <1>4 DEF journalVars, appVars
  <1>12. shigh[e] = 0 /\ \A i \in Ordinal : sends[Rev(e, i)] = 0
    BY <1>2, <1>6 DEF Reverse
  <1>13. Forward(e)' /\ Told(e)'
    BY <1>2, <1>4, <1>6, <1>8, <1>11 DEF Forward, Told, Rolled, Fwd, Rev, Failure
  <1>14. Reverse(e)'
    <2>1. \A i \in Ordinal : ~(s - 1 < i /\ i <= s - 1)
      BY <1>7, OrdinalFacts
    <2>2. Pausing(e)'
      BY <1>8 DEF Pausing
    <2>3. QED
      BY <1>4, <1>6, <1>7, <1>8, <1>11, <1>12, <2>1, <2>2 DEF Reverse, Rev
  <1>15. Live(e)'
    <2>1. Driving(e)'
      BY <1>5, <1>6, <1>7, <1>8, <1>10, <1>11, <1>12 DEF Driving
    <2>2. QED
      BY <1>5, <1>8, <1>10, <2>1 DEF Live, Compensating
  <1>16. Connected(e)'
    BY <1>2, <1>3, <1>4, NotWaitingQuiet, QuietStays, AppsStay
  <1>17. \A f \in Exec : f # e => Same(f)
    BY <1>4, <1>5, <1>8, <1>9, JournalStays, StoresStay, AppsStay DEF Same
  <1>18. Good(e)'
    BY <1>13, <1>14, <1>15, <1>16 DEF Good
  <1>19. Control' /\ PcType'
    BY <1>1, <1>2, <1>4, <1>11 DEF Control, PcType, Off
  <1>20. QED
    BY <1>2, <1>4, <1>8, <1>9, <1>17, <1>18, <1>19, JournalStays, StoresStay, AppsStay, OneExecution

\* A compensating slot in the idle loop has a step to go, whose token exists and
\* whose request id is below the reserved one.
LEMMA DriverFacts ==
  ASSUME IInv, NEW e \in Exec, pc = "idle", comp[e] # "off"
  PROVE  /\ state[e] = "COMPLETE" /\ Compensating(e) /\ Driving(e) /\ sphase[e] = "active"
         /\ left[e] = snext[e] /\ left[e] >= 1 /\ left[e] \in Ordinal
         /\ TokenFound(e, left[e])
         /\ comp[e] = "READY" => nreq[e] < MaxReqId
  <1>1. SagaLogTypeOK /\ JournalTypeOK /\ SlotType /\ Forward(e) /\ Reverse(e) /\ Live(e)
    BY Parts
  <1>2. Where(e) = "idle"
    BY DEF Where, Off
  <1>3. /\ state[e] = "COMPLETE" /\ Compensating(e) /\ Driving(e) /\ sphase[e] = "active"
        /\ left[e] = snext[e] /\ left[e] >= 1
    BY <1>1, <1>2 DEF Live, AtStep, Ended, Compensating, Driving
  <1>4. /\ sinit[e] \in Nat /\ snext[e] \in Nat /\ nreq[e] \in Nat
        /\ snext[e] <= sinit[e] /\ sinit[e] + 1 <= Steps
        /\ \A i \in 1 .. sinit[e] : i \in Ordinal /\ TokenFound(e, i)
    BY <1>1, <1>3, SagaNumbers
  <1>5. left[e] \in 1 .. sinit[e]
    BY <1>3, <1>4
  <1>6. comp[e] = "READY" => nreq[e] < MaxReqId
    <2>1. comp[e] = "READY" => nreq[e] + snext[e] <= 2 * sinit[e] + 2
      BY <1>3 DEF Driving
    <2>2. QED
      BY <1>3, <1>4, <2>1, OrdinalFacts
  <1>7. QED
    BY <1>3, <1>4, <1>5, <1>6

\* DeliveryPrepared of a compensation, with a request id above all earlier ones.
LEMMA PrepareReverseKeeps == ASSUME IInv, NEW e \in Exec, PrepareReverse(e) PROVE IInv' /\ pc' = "idle"
  <1>1. /\ JournalTypeOK /\ SagaLogTypeOK /\ SlotType /\ StoreType /\ AppType /\ PcType
        /\ sok = TRUE /\ Control
        /\ Forward(e) /\ Reverse(e) /\ Told(e) /\ Live(e) /\ Connected(e)
        /\ \A d \in Invocation : Flow(d)
    BY Parts
  <1>2. pc = "idle" /\ comp[e] = "READY"
    BY DEF PrepareReverse
  <1>3. /\ state[e] = "COMPLETE" /\ Driving(e) /\ sphase[e] = "active"
        /\ left[e] = snext[e] /\ left[e] \in Ordinal /\ TokenFound(e, left[e]) /\ nreq[e] < MaxReqId
    BY <1>2, DriverFacts
  <1>4. /\ LogPrepared(e, snext[e], nreq[e]) /\ comp' = [comp EXCEPT ![e] = "PREPARED"]
        /\ nreq' = [nreq EXCEPT ![e] = nreq[e] + 1]
        /\ UNCHANGED <<pc, cur, floor, crashes>> /\ UNCHANGED journalVars
        /\ UNCHANGED <<state, step, outcome, left, rout, reaped>>
        /\ UNCHANGED <<tokens, results, torn, told>> /\ UNCHANGED <<appVars, sends>>
    BY <1>3 DEF PrepareReverse
  <1>5. Where(e) = "idle" /\ Where(e)' = "idle" /\ \A f \in Exec : f # e => Where(f)' = Where(f)
    BY <1>2, <1>4, WhereIs DEF Off
  <1>6. ~Waiting(e)
    BY <1>2, <1>3, <1>5 DEF Waiting
  <1>7. /\ sinit[e] \in Nat /\ snext[e] \in Nat /\ shigh[e] \in Nat /\ nreq[e] \in Nat
        /\ snext[e] <= sinit[e] /\ jhi[e] = sinit[e] + 1
    BY <1>1, <1>3, SagaNumbers
  <1>8. /\ left[e] >= 1 /\ sterm[e] = "none" /\ sdel[e] = "none" /\ nreq[e] > jhi[e]
        /\ nreq[e] > shigh[e] /\ nreq[e] + snext[e] <= 2 * sinit[e] + 2
    BY <1>2, <1>3 DEF Driving
  <1>9. sends[Rev(e, left[e])] = 0
    BY <1>1, <1>3, <1>8 DEF Reverse, Pausing
  <1>10. /\ SagaLogTypeOK' /\ sok' = TRUE /\ \A f \in Exec : f # e => SameLog(f)
         /\ sdel'[e] = "prepared" /\ sreq'[e] = nreq[e] /\ shigh'[e] = nreq[e]
         /\ UNCHANGED <<sphase, sorig, sinit, snext, sterm>>
    BY <1>1, <1>3, <1>4, <1>7, <1>8, PreparedLog DEF Pausing
  <1>11. SlotType' /\ \A f \in Exec : f # e => SameSlot(f)
    BY <1>1, <1>4, <1>7 DEF SlotType, SameSlot
  <1>12. state'[e] = "COMPLETE" /\ comp'[e] = "PREPARED" /\ left'[e] = left[e] /\ nreq'[e] = nreq[e] + 1
    BY <1>1, <1>3, <1>4 DEF SlotType
  <1>13. UNCHANGED <<jphase, jdel, jhi, jlast>> /\ UNCHANGED <<sends, runs>>
    BY <1>4 DEF journalVars, appVars
  <1>14. Forward(e)' /\ Told(e)'
    BY <1>1, <1>4, <1>10, <1>13 DEF Forward, Told, Rolled, Fwd, Rev
  <1>15. Reverse(e)'
    <2>1. ~Pausing(e)'
      BY <1>10 DEF Pausing
    <2>2. QED
      BY <1>1, <1>3, <1>4, <1>7, <1>8, <1>10, <1>13, <2>1 DEF Reverse, Rev
  <1>16. Live(e)'
    <2>1. Driving(e)'
      BY <1>5, <1>7, <1>8, <1>3, <1>9, <1>10, <1>12, <1>13 DEF Driving, Rev
    <2>2. QED
      BY <1>3, <1>5, <1>10, <1>12, <2>1 DEF Live, Compensating
  <1>17. Connected(e)'
    BY <1>1, <1>4, <1>6, NotWaitingQuiet, QuietStays, AppsStay
  <1>18. \A f \in Exec : f # e => Same(f)
    BY <1>4, <1>5, <1>10, <1>11, JournalStays, StoresStay, AppsStay DEF Same
  <1>19. Good(e)'
    BY <1>14, <1>15, <1>16, <1>17 DEF Good
  <1>20. Control' /\ PcType'
    BY <1>1, <1>2, <1>4, <1>13 DEF Control, PcType
  <1>21. QED
    BY <1>1, <1>2, <1>4, <1>10, <1>11, <1>18, <1>19, <1>20, JournalStays, StoresStay, AppsStay, OneExecution

\* DeliverySent of a compensation.
LEMMA MarkReverseSentKeeps == ASSUME IInv, NEW e \in Exec, cur = e, MarkReverseSent PROVE IInv'
  <1>1. pc = "revsent" /\ cur = e
    BY DEF MarkReverseSent
  <1>2. /\ JournalTypeOK /\ SagaLogTypeOK /\ SlotType /\ StoreType /\ AppType /\ PcType
        /\ sok = TRUE /\ Control
        /\ Forward(e) /\ Reverse(e) /\ Told(e) /\ Live(e) /\ Connected(e)
        /\ \A d \in Invocation : Flow(d)
    BY Parts
  <1>3. /\ LogSent(e, left[e], nreq[e] - 1) /\ comp' = [comp EXCEPT ![e] = "SENT"]
        /\ pc' = "idle" /\ cur' = 0
        /\ UNCHANGED <<floor, crashes>> /\ UNCHANGED journalVars
        /\ UNCHANGED <<state, step, outcome, left, nreq, rout, reaped>>
        /\ UNCHANGED <<tokens, results, torn, told>> /\ UNCHANGED <<appVars, sends>>
    BY <1>1 DEF MarkReverseSent, Goto
  <1>4. Where(e) = "revsent" /\ Where(e)' = "idle" /\ \A f \in Exec : f # e => Where(f)' = Where(f)
    BY <1>1, <1>3, WhereIs DEF Off
  <1>5. state[e] = "COMPLETE" /\ comp[e] # "off" /\ Compensating(e) /\ Driving(e)
    BY <1>2, <1>4 DEF Live, AtStep, Ended, Compensating
  <1>6. /\ sphase[e] = "active" /\ left[e] = snext[e] /\ comp[e] = "PREPARED" /\ sdel[e] = "prepared"
        /\ nreq[e] = sreq[e] + 1 /\ left[e] >= 1 /\ sterm[e] = "none"
        /\ nreq[e] > jhi[e] /\ nreq[e] > shigh[e] /\ nreq[e] + left[e] <= 2 * sinit[e] + 3
    BY <1>2, <1>4, <1>5 DEF Compensating, Driving, SlotType
  <1>7. nreq[e] - 1 = sreq[e]
    <2>1. sreq[e] \in Nat
      BY <1>2 DEF SagaLogTypeOK
    <2>2. QED
      BY <1>6, <2>1
  <1>8. /\ SagaLogTypeOK' /\ sok' = TRUE /\ \A f \in Exec : f # e => SameLog(f)
        /\ sdel'[e] = "sent" /\ UNCHANGED <<sphase, sorig, sinit, snext, sreq, sterm, shigh>>
    BY <1>2, <1>3, <1>6, <1>7, SentLog
  <1>9. SlotType' /\ \A f \in Exec : f # e => SameSlot(f)
    BY <1>2, <1>3 DEF SlotType, SameSlot
  <1>10. state'[e] = "COMPLETE" /\ comp'[e] = "SENT"
    BY <1>2, <1>3, <1>5 DEF SlotType
  <1>11. UNCHANGED <<jphase, jdel, jhi, jlast>> /\ UNCHANGED <<sends, runs>>
    BY <1>3 DEF journalVars, appVars
  <1>12. Forward(e)' /\ Told(e)'
    BY <1>2, <1>3, <1>8, <1>11 DEF Forward, Told, Rolled, Fwd, Rev
  <1>13. Reverse(e)'
    <2>1. ~Pausing(e)' /\ ~Pausing(e)
      BY <1>6, <1>8 DEF Pausing
    <2>2. QED
      BY <1>2, <1>3, <1>6, <1>8, <1>11, <2>1 DEF Reverse, Rev
  <1>14. Live(e)'
    <2>1. Driving(e)'
      BY <1>3, <1>4, <1>6, <1>8, <1>10, <1>11 DEF Driving
    <2>2. QED
      BY <1>3, <1>4, <1>6, <1>8, <1>10, <2>1 DEF Live, Compensating
  <1>15. Connected(e)'
    <2>1. At(e)' = At(e) /\ Waiting(e)'
      BY <1>3, <1>4, <1>5, <1>10 DEF At, Waiting
    <2>2. QED
      BY <1>2, <1>3, <2>1, WaitingStays, AppsStay
  <1>16. \A f \in Exec : f # e => Same(f)
    BY <1>3, <1>4, <1>8, <1>9, JournalStays, StoresStay, AppsStay DEF Same
  <1>17. Good(e)'
    BY <1>12, <1>13, <1>14, <1>15 DEF Good
  <1>18. Control' /\ PcType'
    BY <1>1, <1>2, <1>3, <1>11 DEF Control, PcType, Off
  <1>19. QED
    BY <1>2, <1>3, <1>8, <1>9, <1>16, <1>17, <1>18, JournalStays, StoresStay, AppsStay, OneExecution

\* A compensation that does not succeed ends the saga, and hides the failure.
LEMMA BlockKeeps ==
  ASSUME IInv, NEW e \in Exec, NEW o \in {"AppError", "NotSent", "Unknown"},
         pc = "idle", comp[e] \in {"PREPARED", "SENT"}, o = "NotSent" <=> comp[e] = "PREPARED",
         Block(e, o),
         AppType', Quiet(e)', sends' = sends, runs' = runs,
         \A f \in Exec : f # e => SameApps(f), \A d \in Invocation : Flow(d)'
  PROVE  IInv'
  <1>1. /\ JournalTypeOK /\ SagaLogTypeOK /\ SlotType /\ StoreType /\ AppType /\ PcType
        /\ sok = TRUE /\ Control
        /\ Forward(e) /\ Reverse(e) /\ Told(e) /\ Live(e)
    BY Parts
  <1>2. /\ state[e] = "COMPLETE" /\ Driving(e) /\ sphase[e] = "active" /\ left[e] = snext[e]
        /\ left[e] >= 1
    BY DriverFacts
  <1> DEFINE h == IF o = "NotSent" THEN "NotSent" ELSE "Unknown"
  <1>3. /\ LogStep(e, left[e], nreq[e] - 1, o) /\ outcome' = [outcome EXCEPT ![e] = h]
        /\ rout' = [rout EXCEPT ![e] = o] /\ pc' = "revfinish" /\ cur' = e
        /\ UNCHANGED <<floor, crashes>> /\ UNCHANGED journalVars
        /\ UNCHANGED <<state, step, comp, left, nreq, reaped>>
        /\ UNCHANGED <<tokens, results, torn, told>>
    BY DEF Block, Goto
  <1>4. Where(e) = "idle" /\ Where(e)' = "revfinish" /\ \A f \in Exec : f # e => Where(f)' = Where(f)
    BY <1>3, WhereIs DEF Off
  <1>5. nreq[e] - 1 = sreq[e] /\ sterm[e] = "none" /\ StepClosable(e, o) /\ sdel[e] # "none"
    <2>1. nreq[e] = sreq[e] + 1 /\ sterm[e] = "none"
      BY <1>2 DEF Driving
    <2>2. sreq[e] \in Nat
      BY <1>1 DEF SagaLogTypeOK
    <2>3. comp[e] = "PREPARED" => sdel[e] = "prepared"
      BY <1>2 DEF Driving
    <2>4. comp[e] = "SENT" => sdel[e] = "sent"
      BY <1>2 DEF Driving
    <2>5. StepClosable(e, o)
      BY <2>3, <2>4 DEF StepClosable
    <2>6. QED
      BY <2>1, <2>2, <2>3, <2>4, <2>5
  <1>6. /\ SagaLogTypeOK' /\ sok' = TRUE /\ \A f \in Exec : f # e => SameLog(f)
        /\ sdel'[e] = "none" /\ UNCHANGED <<sphase, sorig, sinit, sreq, shigh>>
        /\ snext'[e] = snext[e] /\ sterm'[e] = o
    BY <1>1, <1>2, <1>3, <1>5, StepLog DEF Outcome
  <1>7. o \in Outcome /\ h \in Outcome /\ h # "AppError" /\ o # "none"
    BY DEF Outcome
  <1> HIDE DEF h
  <1>8. SlotType' /\ \A f \in Exec : f # e => SameSlot(f)
    BY <1>1, <1>3, <1>7 DEF SlotType, SameSlot
  <1>9. state'[e] = "COMPLETE" /\ outcome'[e] = h /\ rout'[e] = o
    BY <1>1, <1>2, <1>3 DEF SlotType
  <1>10. UNCHANGED <<jphase, jdel, jhi, jlast>>
    BY <1>3 DEF journalVars
  <1>11. Forward(e)' /\ Told(e)'
    BY <1>1, <1>3, <1>6, <1>10 DEF Forward, Told, Rolled, Fwd, Rev
  <1>12. Reverse(e)'
    <2>1. ~Pausing(e)' /\ ~Pausing(e)
      BY <1>5, <1>6, <1>7 DEF Pausing
    <2>2. QED
      BY <1>1, <1>2, <1>3, <1>6, <1>10, <2>1 DEF Reverse, Rev
  <1>13. Live(e)'
    <2>1. Closing(e)'
      BY <1>2, <1>3, <1>6, <1>7, <1>9 DEF Closing
    <2>2. QED
      BY <1>2, <1>3, <1>4, <1>6, <1>9, <2>1 DEF Live, Compensating
  <1>14. Connected(e)'
    BY DEF Quiet, Connected
  <1>15. \A f \in Exec : f # e => Same(f)
    BY <1>3, <1>4, <1>6, <1>8, JournalStays, StoresStay DEF Same
  <1>16. Good(e)'
    BY <1>11, <1>12, <1>13, <1>14 DEF Good
  <1>17. Control' /\ PcType'
    BY <1>1, <1>3, <1>10 DEF Control, PcType, Off
  <1>18. QED
    BY <1>1, <1>3, <1>6, <1>8, <1>15, <1>16, <1>17, JournalStays, StoresStay, OneExecution

\* The reverse send fails for good, the app answers with an error, or it answers
\* badly or not at all.
LEMMA ReverseFailureKeeps ==
  ASSUME IInv, NEW e \in Exec, SendReverseFails(e) \/ ReverseFails(e) \/ RejectReverse(e) PROVE IInv'
  <1>1. AppType /\ SlotType /\ Connected(e) /\ \A d \in Invocation : Flow(d)
    BY Parts
  <1>2. CASE SendReverseFails(e)
    BY <1>1, <1>2, DropQuiet, BlockKeeps DEF SendReverseFails, Block
  <1>3. CASE ReverseFails(e)
    BY <1>1, <1>3, TakeQuiet, BlockKeeps DEF ReverseFails, Block
  <1>4. CASE RejectReverse(e)
    BY <1>1, <1>4, DropQuiet, BlockKeeps DEF RejectReverse, Block
  <1>5. QED
    BY <1>2, <1>3, <1>4

\* A compensation that succeeds is confirmed, and the one before it is next.
LEMMA ReverseSucceedsKeeps == ASSUME IInv, NEW e \in Exec, ReverseSucceeds(e) PROVE IInv'
  <1>1. /\ JournalTypeOK /\ SagaLogTypeOK /\ SlotType /\ StoreType /\ AppType /\ PcType
        /\ sok = TRUE /\ Control
        /\ Forward(e) /\ Reverse(e) /\ Told(e) /\ Live(e) /\ Connected(e)
        /\ \A d \in Invocation : Flow(d)
    BY Parts
  <1>2. /\ pc = "idle" /\ comp[e] = "SENT" /\ answer[e] = "Success" /\ TakeAnswer(e)
        /\ LogStep(e, left[e], nreq[e] - 1, "Success")
        /\ left' = [left EXCEPT ![e] = left[e] - 1] /\ rout' = [rout EXCEPT ![e] = "Success"]
        /\ UNCHANGED <<floor, crashes, sends>> /\ UNCHANGED journalVars
        /\ UNCHANGED <<state, step, outcome, nreq, reaped>>
        /\ UNCHANGED <<tokens, results, torn, told>>
    BY DEF ReverseSucceeds
  <1>3. \/ left[e] > 1 /\ comp' = [comp EXCEPT ![e] = "READY"] /\ pc' = pc /\ cur' = cur
        \/ left[e] = 1 /\ comp' = comp /\ pc' = "revfinish" /\ cur' = e
    BY DEF ReverseSucceeds, Goto
  <1>4. Where(e) = "idle" /\ Where(e)' = pc' /\ \A f \in Exec : f # e => Where(f)' = Where(f)
    BY <1>2, <1>3, WhereIs DEF Off
  <1>5. /\ state[e] = "COMPLETE" /\ Driving(e) /\ sphase[e] = "active" /\ left[e] = snext[e]
        /\ left[e] >= 1 /\ left[e] \in Ordinal
    BY <1>2, DriverFacts
  <1>6. /\ nreq[e] = sreq[e] + 1 /\ sterm[e] = "none" /\ sdel[e] = "sent"
        /\ nreq[e] > jhi[e] /\ nreq[e] > shigh[e] /\ nreq[e] + snext[e] <= 2 * sinit[e] + 3
    BY <1>2, <1>5 DEF Driving
  <1>7. /\ sinit[e] \in Nat /\ snext[e] \in Nat /\ shigh[e] \in Nat /\ nreq[e] \in Nat /\ sreq[e] \in Nat
        /\ snext[e] <= sinit[e] /\ jhi[e] = sinit[e] + 1 /\ snext[e] >= 1 /\ sinit[e] <= Steps
    BY <1>1, <1>5, SagaNumbers, OrdinalFacts
  <1>8. /\ SagaLogTypeOK' /\ sok' = TRUE /\ \A f \in Exec : f # e => SameLog(f)
        /\ sdel'[e] = "none" /\ UNCHANGED <<sphase, sorig, sinit, sreq, shigh>>
        /\ snext'[e] = snext[e] - 1 /\ sterm'[e] = sterm[e]
    <2>1. nreq[e] - 1 = sreq[e]
      BY <1>6, <1>7
    <2>2. StepClosable(e, "Success")
      BY <1>6 DEF StepClosable
    <2>3. QED
      BY <1>1, <1>2, <1>5, <1>7, <2>1, <2>2, StepLog DEF Outcome
  <1>9. /\ AppType' /\ Quiet(e)' /\ sends' = sends /\ runs' = runs /\ runs[At(e)] = 1
        /\ \A f \in Exec : f # e => SameApps(f)
        /\ \A d \in Invocation : Flow(d)'
    BY <1>1, <1>2, TakeQuiet
  <1>10. runs[Rev(e, snext[e])] = 1
    BY <1>1, <1>2, <1>5, <1>9, AtIsOwn
  <1>11. SlotType' /\ \A f \in Exec : f # e => SameSlot(f)
    <2>1. left[e] - 1 \in 0 .. Steps
      BY <1>5, <1>7, OrdinalFacts
    <2>2. QED
      BY <1>1, <1>2, <1>3, <2>1 DEF SlotType, SameSlot, Outcome
  <1>12. state'[e] = "COMPLETE" /\ left'[e] = snext[e] - 1 /\ rout'[e] = "Success"
    BY <1>1, <1>2, <1>5 DEF SlotType
  <1>13. UNCHANGED <<jphase, jdel, jhi, jlast>>
    BY <1>2 DEF journalVars
  <1>14. Forward(e)' /\ Told(e)'
    BY <1>1, <1>2, <1>8, <1>9, <1>13 DEF Forward, Told, Rolled, Fwd, Rev
  <1>15. Reverse(e)'
    <2>1. ~Pausing(e) /\ Pausing(e)'
      BY <1>6, <1>8 DEF Pausing
    <2>2. ASSUME NEW i \in Ordinal, snext[e] - 1 < i, i <= sinit[e] PROVE runs[Rev(e, i)] = 1
      <3>1. i = snext[e] \/ snext[e] < i
        BY <1>7, <2>2, OrdinalFacts
      <3>2. QED
        BY <1>1, <1>5, <1>10, <2>2, <3>1 DEF Reverse
    <2>3. ASSUME NEW i \in Ordinal, i < snext[e] - 1 \/ i > sinit[e] \/ i = snext[e] - 1
          PROVE  sends[Rev(e, i)] = 0
      <3>1. i < snext[e] \/ i > sinit[e]
        BY <1>7, <2>3, OrdinalFacts
      <3>2. QED
        BY <1>1, <1>5, <3>1 DEF Reverse
    <2>4. shigh[e] + snext[e] <= 2 * sinit[e] + 2
      BY <1>1, <1>5, <2>1 DEF Reverse
    <2>5. shigh[e] + (snext[e] - 1) <= 2 * sinit[e] + 1 /\ snext[e] - 1 <= sinit[e]
      BY <1>7, <2>4
    <2>6. QED
      BY <1>1, <1>2, <1>5, <1>6, <1>8, <1>9, <1>13, <2>1, <2>2, <2>3, <2>5 DEF Reverse, Rev
  <1>16. Live(e)'
    <2>1. CASE left[e] > 1
      <3>1. comp'[e] = "READY" /\ Where(e)' = "idle"
        BY <1>1, <1>2, <1>3, <1>4, <1>5, <1>7, <2>1 DEF SlotType
      <3>2. snext[e] - 1 >= 1 /\ nreq[e] + (snext[e] - 1) <= 2 * sinit[e] + 2
        BY <1>5, <1>6, <1>7, <2>1
      <3>3. Driving(e)'
        BY <1>2, <1>6, <1>8, <1>12, <1>13, <3>1, <3>2 DEF Driving
      <3>4. QED
        BY <1>5, <1>8, <1>12, <3>1, <3>3 DEF Live, Compensating
    <2>2. CASE left[e] = 1
      <3>1. comp'[e] = "SENT" /\ Where(e)' = "revfinish" /\ snext[e] - 1 = 0
        BY <1>2, <1>3, <1>4, <1>5, <2>2
      <3>2. Closing(e)'
        BY <1>6, <1>8, <1>12, <3>1 DEF Closing
      <3>3. QED
        BY <1>5, <1>8, <1>12, <3>1, <3>2 DEF Live, Compensating
    <2>3. QED
      BY <1>3, <2>1, <2>2
  <1>17. Connected(e)'
    BY <1>9 DEF Quiet, Connected
  <1>18. \A f \in Exec : f # e => Same(f)
    BY <1>2, <1>4, <1>8, <1>9, <1>11, JournalStays, StoresStay DEF Same
  <1>19. Good(e)'
    BY <1>14, <1>15, <1>16, <1>17 DEF Good
  <1>20. Control' /\ PcType'
    BY <1>1, <1>2, <1>3, <1>13 DEF Control, PcType, Off
  <1>21. QED
    BY <1>1, <1>2, <1>8, <1>9, <1>11, <1>18, <1>19, <1>20, JournalStays, StoresStay, OneExecution

\* A saga whose every step is compensated is rolled back.
LEMMA CompensatedIsRolled ==
  ASSUME SagaLogTypeOK, JournalTypeOK, SlotType, NEW e \in Exec, Forward(e), Reverse(e),
         sphase[e] # "none", snext[e] = 0
  PROVE  Rolled(e)
  <1>1. \A i \in Ordinal : i <= sinit[e] <=> jdel[e][i] = "Success"
    BY SagaNumbers
  <1>2. QED
    BY <1>1, OrdinalFacts DEF Reverse, Rolled

\* Finished: an app error that is still shown is rolled back.
LEMMA FinishReverseKeeps == ASSUME IInv, NEW e \in Exec, cur = e, FinishReverse PROVE IInv'
  <1> DEFINE o == rout[e]
  <1>1. pc = "revfinish" /\ cur = e
    BY DEF FinishReverse
  <1>2. /\ JournalTypeOK /\ SagaLogTypeOK /\ SlotType /\ StoreType /\ AppType /\ PcType
        /\ sok = TRUE /\ Control
        /\ Forward(e) /\ Reverse(e) /\ Told(e) /\ Live(e) /\ Connected(e)
        /\ \A d \in Invocation : Flow(d)
    BY Parts
  <1>3. /\ LogFinished(e, o) /\ comp' = [comp EXCEPT ![e] = "off"] /\ pc' = "idle" /\ cur' = 0
        /\ UNCHANGED <<floor, crashes>> /\ UNCHANGED journalVars
        /\ UNCHANGED <<state, step, outcome, left, nreq, rout, reaped>>
        /\ UNCHANGED <<tokens, results, torn, told>> /\ UNCHANGED <<appVars, sends>>
    BY <1>1 DEF FinishReverse, Goto
  <1>4. Where(e) = "revfinish" /\ Where(e)' = "idle" /\ \A f \in Exec : f # e => Where(f)' = Where(f)
    BY <1>1, <1>3, WhereIs DEF Off
  <1>5. /\ state[e] = "COMPLETE" /\ ~Waiting(e) /\ sphase[e] = "active" /\ left[e] = snext[e] /\ Closing(e)
    BY <1>2, <1>4 DEF Live, AtStep, Ended, Compensating, Waiting
  <1>6. /\ sdel[e] = "none" /\ o \in Outcome
        /\ (sterm[e] = "none" /\ snext[e] = 0 /\ o = "Success") \/ (sterm[e] # "none" /\ sterm[e] = o)
    BY <1>2, <1>5 DEF Closing, SagaLogTypeOK, Outcome
  <1>7. /\ SagaLogTypeOK' /\ sok' = TRUE /\ \A f \in Exec : f # e => SameLog(f)
        /\ sphase'[e] = o /\ UNCHANGED <<sorig, sinit, snext, sdel, sreq, sterm, shigh>>
    BY <1>2, <1>3, <1>5, <1>6, FinishedLog
  <1>8. SlotType' /\ \A f \in Exec : f # e => SameSlot(f)
    BY <1>2, <1>3 DEF SlotType, SameSlot
  <1>9. state'[e] = "COMPLETE" /\ comp'[e] = "off" /\ outcome' = outcome
    BY <1>2, <1>3, <1>5 DEF SlotType
  <1>10. UNCHANGED <<jphase, jdel, jhi, jlast>> /\ UNCHANGED <<sends, runs>>
    BY <1>3 DEF journalVars, appVars
  <1>11. jphase[e] \in Failure /\ o # "none"
    BY <1>2, <1>5, <1>6 DEF Reverse, Outcome
  <1>12. Forward(e)' /\ Told(e)'
    BY <1>2, <1>3, <1>10, <1>11 DEF Forward, Told, Rolled, Fwd, Rev, Failure
  <1>13. Reverse(e)'
    BY <1>2, <1>3, <1>5, <1>7, <1>10, <1>11 DEF Reverse, Pausing, Rev
  <1>14. Live(e)'
    <2>1. outcome[e] = "AppError" => Rolled(e)
      BY <1>2, <1>5, CompensatedIsRolled DEF Closing
    <2>2. Rolled(e) => Rolled(e)'
      BY <1>10 DEF Rolled, Rev
    <2>3. QED
      BY <1>4, <1>9, <1>10, <1>11, <2>1, <2>2 DEF Live, Failure, Outcome
  <1>15. Connected(e)'
    BY <1>2, <1>3, <1>5, NotWaitingQuiet, QuietStays, AppsStay
  <1>16. \A f \in Exec : f # e => Same(f)
    BY <1>3, <1>4, <1>7, <1>8, JournalStays, StoresStay, AppsStay DEF Same
  <1>17. Good(e)'
    BY <1>12, <1>13, <1>14, <1>15 DEF Good
  <1>18. Control' /\ PcType'
    BY <1>1, <1>2, <1>3, <1>10 DEF Control, PcType, Off
  <1>19. QED
    BY <1>2, <1>3, <1>7, <1>8, <1>16, <1>17, <1>18, JournalStays, StoresStay, AppsStay, OneExecution

\* What the client is told is what the slot says.
LEMMA ReturnKeeps == ASSUME IInv, NEW e \in Exec, Return(e) PROVE IInv'
  <1>1. /\ JournalTypeOK /\ SagaLogTypeOK /\ SlotType /\ StoreType /\ AppType /\ PcType
        /\ sok = TRUE /\ Control
        /\ Forward(e) /\ Reverse(e) /\ Told(e) /\ Live(e) /\ Connected(e)
        /\ \A d \in Invocation : Flow(d)
    BY Parts
  <1>2. /\ pc = "idle" /\ state[e] = "COMPLETE" /\ comp[e] = "off"
        /\ told' = [told EXCEPT ![e] = outcome[e]] \/ told' = told
        /\ UNCHANGED <<comp, pc, cur, floor, crashes>> /\ UNCHANGED journalVars /\ UNCHANGED sagaLogVars
        /\ UNCHANGED <<tokens, results, torn>> /\ UNCHANGED <<appVars, sends>>
    BY DEF Return, storeVars
  <1>3. /\ state' = [state EXCEPT ![e] = "EMPTY"] /\ outcome' = [outcome EXCEPT ![e] = "none"]
        /\ step' = [step EXCEPT ![e] = 1] /\ left' = [left EXCEPT ![e] = 0]
        /\ nreq' = [nreq EXCEPT ![e] = 0] /\ rout' = [rout EXCEPT ![e] = "none"]
        /\ reaped' = [reaped EXCEPT ![e] = FALSE]
    BY DEF Return
  <1>4. Where(e) = "idle" /\ Where(e)' = "idle" /\ \A f \in Exec : f # e => Where(f)' = Where(f)
    BY <1>2, WhereIs DEF Off
  <1>5. jphase[e] \in Outcome /\ (outcome[e] = "AppError" => Rolled(e)) /\ ~Waiting(e)
    BY <1>1, <1>2, <1>4 DEF Live, Ended, Waiting
  <1>6. StoreType' /\ \A f \in Exec : f # e => SameStores(f)
    BY <1>1, <1>2 DEF StoreType, SlotType, SameStores
  <1>7. told'[e] \in {outcome[e], told[e]}
    BY <1>1, <1>2 DEF StoreType
  <1>8. SlotType' /\ \A f \in Exec : f # e => SameSlot(f)
    <2>1. 1 \in Ordinal /\ 0 \in 0 .. Steps
      BY OrdinalFacts DEF Ordinal
    <2>2. QED
      BY <1>1, <1>2, <1>3, <2>1 DEF SlotType, SameSlot
  <1>9. /\ UNCHANGED <<jphase, jdel, jhi, jlast>> /\ UNCHANGED <<sends, runs>>
        /\ UNCHANGED <<sphase, sorig, sinit, snext, sdel, sreq, sterm, shigh>>
    BY <1>2 DEF journalVars, appVars, sagaLogVars
  <1>10. Forward(e)'
    BY <1>1, <1>2, <1>5, <1>9 DEF Forward, Fwd, Outcome
  <1>11. Reverse(e)'
    BY <1>1, <1>2, <1>9 DEF Reverse, Pausing, Rev
  <1>12. Told(e)'
    <2>1. Rolled(e) => Rolled(e)'
      BY <1>9 DEF Rolled, Rev
    <2>2. QED
      BY <1>1, <1>5, <1>7, <1>9, <2>1 DEF Told
  <1>13. Live(e)'
    <2>1. state'[e] = "EMPTY" /\ comp'[e] = "off"
      BY <1>1, <1>2, <1>3 DEF SlotType
    <2>2. QED
      BY <1>4, <2>1 DEF Live
  <1>14. Connected(e)'
    BY <1>1, <1>2, <1>5, NotWaitingQuiet, QuietStays, AppsStay
  <1>15. \A f \in Exec : f # e => Same(f)
    BY <1>2, <1>4, <1>6, <1>8, JournalStays, LogStays, AppsStay DEF Same
  <1>16. Good(e)'
    BY <1>10, <1>11, <1>12, <1>13, <1>14 DEF Good
  <1>17. Control' /\ PcType'
    BY <1>1, <1>2, <1>9 DEF Control, PcType
  <1>18. QED
    BY <1>1, <1>2, <1>6, <1>8, <1>15, <1>16, <1>17, JournalStays, LogStays, AppsStay, OneExecution

-----------------------------------------------------------------------------
(* Crash, startup and the apps *)

\* A kill takes the slots and the connections; what is left is what the stores and
\* the apps know.
LEMMA CrashKeeps == ASSUME IInv, Crash PROVE IInv'
  <1>1. TypeOK /\ sok = TRUE /\ Control /\ \A e \in Exec : Good(e)
    BY DEF IInv
  <1>2. /\ pc' = "down" /\ cur' = 0 /\ floor' = 0 /\ crashes' = crashes + 1 /\ Events < MaxEvents
        /\ jtail' \in {jtail, "torn"} /\ torn' \in {torn, TRUE}
        /\ queued' = {} /\ late' = late \cup queued /\ answer' = [e \in Exec |-> "none"]
        /\ UNCHANGED <<jok, jlast, jphase, jdel, jhi, jagg>> /\ UNCHANGED sagaLogVars
        /\ UNCHANGED <<tokens, results, runs, sends, told>>
    BY DEF Crash, Goto
  <1>3. SlotType'
    <2>1. 1 \in Ordinal /\ 0 \in 0 .. Steps
      BY OrdinalFacts DEF Ordinal
    <2>2. QED
      BY <2>1 DEF Crash, SlotType
  <1>4. JournalTypeOK' /\ SagaLogTypeOK' /\ StoreType' /\ AppType' /\ sok' = TRUE
    BY <1>1, <1>2 DEF TypeOK, JournalTypeOK, SagaLogTypeOK, sagaLogVars, StoreType, AppType
  <1>5. PcType'
    <2>1. crashes + 1 \in 0 .. MaxEvents
      <3> DEFINE A == {e \in Exec : jphase[e] # "absent"}
      <3>1. IsFiniteSet(Exec)
        BY JournalAssumption, FS_Interval DEF Exec
      <3>2. IsFiniteSet(A)
        BY <3>1, FS_Subset
      <3>3. Cardinality(A) \in Nat
        BY <3>2, FS_CardinalityType
      <3>4. crashes + Cardinality(A) < MaxEvents
        BY <1>2 DEF Events
      <3> HIDE DEF A
      <3>5. crashes \in Nat /\ MaxEvents \in Nat
        BY <1>1, SagaAssumption DEF TypeOK
      <3>6. QED
        BY <3>3, <3>4, <3>5
    <2>2. 0 \in 0 .. MaxExecId
      BY JournalAssumption
    <2>3. QED
      BY <1>2, <2>1, <2>2 DEF PcType
  <1>6. ASSUME NEW e \in Exec PROVE Good(e)'
    <2>1. UNCHANGED <<sphase, sorig, sinit, snext, sdel, sreq, sterm, shigh>>
      BY <1>2 DEF sagaLogVars
    <2>2. Forward(e)'
      BY <1>1, <1>2, <2>1 DEF Good, Forward, Fwd
    <2>3. Reverse(e)'
      BY <1>1, <1>2, <2>1 DEF Good, Reverse, Pausing, Rev
    <2>4. Told(e)'
      BY <1>1, <1>2 DEF Good, Told, Rolled, Rev
    <2>5. Live(e)'
      BY <1>2 DEF Live, Where, Off
    <2>6. Connected(e)'
      BY <1>2 DEF Connected
    <2>7. QED
      BY <2>2, <2>3, <2>4, <2>5, <2>6 DEF Good
  <1>7. \A d \in Invocation : Flow(d)'
    BY <1>2 DEF IInv, Flow
  <1>8. Control'
    BY <1>1, <1>2 DEF Control, Off
  <1>9. TypeOK'
    BY <1>3, <1>4, <1>5 DEF TypeOK, SlotType, StoreType, AppType, PcType
  <1>10. QED
    BY <1>4, <1>6, <1>7, <1>8, <1>9 DEF IInv

\* A startup that only looks changes nothing for any execution.
LEMMA LookKeeps ==
  ASSUME IInv, pc \in Off, pc' \in Off, UNCHANGED <<storeVars, slotVars, floor, cur, appVars, sends, told, crashes>>
  PROVE  IInv'
  <1>1. TypeOK /\ sok = TRUE /\ Control /\ \A e \in Exec : Good(e)
    BY DEF IInv
  <1>2. /\ UNCHANGED journalVars /\ UNCHANGED sagaLogVars /\ UNCHANGED <<tokens, results, torn, told>>
        /\ UNCHANGED slotVars /\ UNCHANGED <<appVars, sends>> /\ UNCHANGED <<floor, cur, crashes>>
    BY DEF storeVars
  <1>3. JournalTypeOK' /\ SagaLogTypeOK' /\ SlotType' /\ StoreType' /\ AppType' /\ sok' = TRUE
    BY <1>1, <1>2, TypeParts, JournalStays, LogStays, SlotsStay, StoresStay, AppsStay
  <1>4. PcType'
    BY <1>1, <1>2 DEF TypeOK, PcType, Off
  <1>5. \A e \in Exec : Good(e)'
    <2> TAKE e \in Exec
    <2>1. Where(e)' = Where(e)
      BY DEF Where
    <2>2. SameJournal(e) /\ SameLog(e) /\ SameSlot(e) /\ SameStores(e) /\ SameApps(e)
      BY <1>2, JournalStays, LogStays, SlotsStay, StoresStay, AppsStay
    <2>3. QED
      BY <1>1, <2>1, <2>2, SameKeeps
  <1>6. \A d \in Invocation : Flow(d)'
    BY <1>2, AppsStay DEF IInv
  <1>7. Control'
    BY <1>1, <1>2, JournalStays DEF Control
  <1>8. TypeOK'
    BY <1>3, <1>4 DEF TypeOK, SlotType, StoreType, AppType, PcType
  <1>9. QED
    BY <1>3, <1>5, <1>6, <1>7, <1>8 DEF IInv

\* The records that a startup appends for an interrupted execution are about an
\* execution without a saga.
LEMMA RecoveryKeeps ==
  ASSUME IInv, NEW e \in Exec, pc = "close", pc' = pc, cur' \in Exec \cup {0}, jphase[e] = "open",
         jphase'[e] \in {"open", "Unknown"}, jlast' = jlast, JournalTypeOK',
         \A f \in Exec : f # e => SameJournal(f),
         jhi' = jhi, \A i \in Req : jdel'[e][i] = jdel[e][i]
                                    \/ (i = jhi[e] /\ jdel[e][i] # "Success" /\ jdel'[e][i] = "Unknown"),
         UNCHANGED <<sagaLogVars, tokens, results, torn, slotVars, floor, appVars, sends, told, crashes>>
  PROVE  IInv'
  <1>1. /\ SagaLogTypeOK /\ SlotType /\ StoreType /\ AppType /\ PcType
        /\ sok = TRUE /\ Control
        /\ Forward(e) /\ Reverse(e) /\ Told(e) /\ Connected(e)
        /\ \A d \in Invocation : Flow(d)
    BY Parts
  <1>2. /\ UNCHANGED sagaLogVars /\ UNCHANGED slotVars /\ UNCHANGED <<tokens, results, torn, told>>
        /\ UNCHANGED <<appVars, sends>> /\ UNCHANGED <<floor, crashes>>
    OBVIOUS
  <1>3. \A f \in Exec : Where(f) = "down" /\ Where(f)' = "down"
    BY DEF Where, Off
  <1>4. /\ UNCHANGED <<sphase, sorig, sinit, snext, sdel, sreq, sterm, shigh>>
        /\ UNCHANGED <<sends, runs, tokens, told>>
    BY <1>2 DEF sagaLogVars, appVars
  <1>5. sphase[e] = "none" /\ told[e] # "AppError"
    BY <1>1 DEF Reverse, Told, Failure, Outcome
  <1>6. Forward(e)'
    <2>1. \A i \in Req : jdel'[e][i] = "none" <=> i > jhi[e]
      BY <1>1, OrdinalFacts DEF Forward
    <2>2. \A i \in Req : i < jhi[e] => jdel'[e][i] = "Success"
      BY <1>1, OrdinalFacts DEF Forward
    <2>3. \A i \in Ordinal : jdel'[e][i] = "Success" => jdel[e][i] = "Success"
      BY OrdinalFacts
    <2>4. QED
      BY <1>1, <1>4, <2>1, <2>2, <2>3 DEF Forward, Fwd
  <1>7. Reverse(e)' /\ Told(e)'
    BY <1>1, <1>4, <1>5 DEF Reverse, Told, Rev
  <1>8. Live(e)'
    BY <1>3 DEF Live
  <1>9. Connected(e)'
    <2>1. ~Waiting(e)
      BY <1>3 DEF Waiting
    <2>2. QED
      BY <1>1, <1>2, <2>1, NotWaitingQuiet, QuietStays, AppsStay
  <1>10. Good(e)'
    BY <1>6, <1>7, <1>8, <1>9 DEF Good
  <1>11. \A f \in Exec : f # e => Same(f)
    BY <1>2, <1>3, LogStays, SlotsStay, StoresStay, AppsStay DEF Same
  <1>12. Control'
    <2>1. ASSUME NEW f \in Exec, f > jlast' PROVE jphase'[f] = "absent"
      <3>1. f # e
        BY <1>1, <2>1 DEF Control
      <3>2. QED
        BY <1>1, <2>1, <3>1 DEF Control, SameJournal
    <2>2. QED
      BY <2>1 DEF Control, Off
  <1>13. PcType'
    BY <1>1, <1>2 DEF PcType
  <1>14. QED
    BY <1>1, <1>2, <1>10, <1>11, <1>12, <1>13, LogStays, SlotsStay, StoresStay, AppsStay, OneExecution

\* hermas_journal_file_close_interrupted: the open delivery is the last one.
LEMMA CloseDeliveryKeeps ==
  ASSUME IInv, NEW e \in Exec, NEW r \in Req, CloseDelivery(e, r) PROVE IInv'
  <1>1. JournalTypeOK /\ Forward(e)
    BY Parts
  <1>2. /\ pc = "close" /\ jphase[e] = "open" /\ IsOpen(e, r) /\ AppendClosing(e, r, "Unknown")
        /\ cur' = e /\ pc' = pc
        /\ UNCHANGED <<sagaLogVars, tokens, results, torn, slotVars, floor, appVars, sends, told, crashes>>
    BY DEF CloseDelivery
  <1>3. /\ JournalTypeOK' /\ jlast' = jlast /\ jphase' = jphase /\ jhi' = jhi
        /\ \A f \in Exec : f # e => SameJournal(f)
        /\ \A i \in Req : jdel'[e][i] = IF i = r THEN "Unknown" ELSE jdel[e][i]
    BY <1>1, <1>2, ClosingRecord DEF Outcome
  <1>4. r = jhi[e] /\ jdel[e][r] # "Success"
    <2>1. jdel[e][r] # "Success" /\ jdel[e][r] # "none"
      BY <1>2 DEF IsOpen
    <2>2. ~(r < jhi[e]) /\ ~(r > jhi[e]) /\ r \in Nat /\ jhi[e] \in Nat
      BY <1>1, <2>1, OrdinalFacts DEF Forward
    <2>3. QED
      BY <2>1, <2>2
  <1>5. QED
    BY <1>2, <1>3, <1>4, RecoveryKeeps

\* ... and the execution is finished as unknown.
LEMMA CloseExecutionKeeps == ASSUME IInv, NEW e \in Exec, CloseExecution(e) PROVE IInv'
  <1>1. JournalTypeOK
    BY Parts
  <1>2. /\ pc = "close" /\ jphase[e] = "open" /\ AppendFinished(e, "Unknown")
        /\ cur' = 0 /\ pc' = pc
        /\ UNCHANGED <<sagaLogVars, tokens, results, torn, slotVars, floor, appVars, sends, told, crashes>>
    BY DEF CloseExecution
  <1>3. /\ JournalTypeOK' /\ jlast' = jlast /\ jdel' = jdel /\ jhi' = jhi /\ jphase'[e] = "Unknown"
        /\ \A f \in Exec : f # e => SameJournal(f)
    BY <1>1, <1>2, FinishedRecord DEF Outcome
  <1>4. QED
    BY <1>2, <1>3, RecoveryKeeps

\* What hermas_saga_recover and hermas_saga_reconcile read back of a saga that was
\* started: the confirmed steps are those that Started names, and each has its token.
LEMMA SagaHistory ==
  ASSUME SagaLogTypeOK, JournalTypeOK, SlotType, NEW e \in Exec, Forward(e), Reverse(e), sphase[e] # "none"
  PROVE  /\ Confirmed(e) = 1 .. sinit[e] /\ Completed(e) = sinit[e]
         /\ jok => HistoryConsistent(e)
         /\ sok => LogConsistent(e)
         /\ HasTokens(e, Completed(e)) /\ jphase[e] \in Failure
  <1>1. /\ sinit[e] \in Nat /\ snext[e] \in Nat /\ sinit[e] >= 1 /\ sinit[e] + 1 <= Steps
        /\ snext[e] <= sinit[e] /\ jhi[e] = sinit[e] + 1
        /\ \A i \in Ordinal : i <= sinit[e] <=> jdel[e][i] = "Success"
        /\ \A i \in 1 .. sinit[e] : i \in Ordinal /\ TokenFound(e, i)
    BY SagaNumbers
  <1>2. jphase[e] \in Failure /\ sorig[e] = jphase[e] /\ jdel[e][jhi[e]] = jphase[e]
    BY DEF Reverse
  <1>3. Confirmed(e) = 1 .. sinit[e]
    <2>1. \A i : i \in Confirmed(e) <=> i \in Ordinal /\ i <= sinit[e]
      BY <1>1 DEF Confirmed
    <2>2. \A i : i \in Ordinal /\ i <= sinit[e] <=> i \in 1 .. sinit[e]
      BY <1>1, OrdinalFacts DEF Ordinal
    <2>3. QED
      BY <2>1, <2>2
  <1>4. Completed(e) = sinit[e]
    <2>1. Cardinality(1 .. sinit[e]) = sinit[e]
      <3>1. 1 \in Int /\ sinit[e] \in Int
        BY <1>1
      <3>2. Cardinality(1 .. sinit[e]) = IF 1 > sinit[e] THEN 0 ELSE sinit[e] - 1 + 1
        BY <3>1, FS_Interval
      <3>3. QED
        BY <1>1, <3>2
    <2>2. QED
      BY <1>3, <2>1 DEF Completed
  <1>5. jok => HistoryConsistent(e)
    <2>1. jphase[e] \in Outcome /\ jphase[e] # "Success"
      BY <1>2 DEF Failure, Outcome
    <2>2. Completed(e) < Steps /\ jdel[e][Completed(e) + 1] = jphase[e]
      BY <1>1, <1>2, <1>4, OrdinalFacts
    <2>3. Confirmed(e) = 1 .. Completed(e)
      BY <1>3, <1>4
    <2>4. QED
      BY <2>1, <2>2, <2>3 DEF HistoryConsistent
  <1>6. sok => LogConsistent(e)
    BY <1>1, <1>2, <1>4 DEF LogConsistent
  <1>7. HasTokens(e, Completed(e))
    BY <1>1, <1>4 DEF HasTokens
  <1>8. QED
    BY <1>2, <1>3, <1>4, <1>5, <1>6, <1>7

\* The verdict of a startup on a saga of the log: it is resumed only between two
\* steps, unsafe only with an open delivery, and refused only for an unreadable
\* journal or a Finished record that is missing.
LEMMA Verdict ==
  ASSUME IInv, Roomy, NEW e \in InLog
  PROVE  /\ Classify(e) \in {"refused", "unsafe", "idle"}
         /\ Classify(e) = "idle" => Pausing(e) /\ snext[e] # 0
         /\ Classify(e) = "unsafe" => sdel[e] # "none"
         /\ Classify(e) = "refused" => ~jok \/ sterm[e] # "none" \/ snext[e] = 0
  <1>1. e \in Exec /\ sphase[e] # "none"
    BY DEF InLog
  <1>2. SagaLogTypeOK /\ JournalTypeOK /\ SlotType /\ Forward(e) /\ Reverse(e) /\ sok = TRUE
    BY <1>1, Parts
  <1>3. /\ jok => HistoryConsistent(e)
        /\ LogConsistent(e) /\ HasTokens(e, Completed(e)) /\ jphase[e] # "Unknown"
    BY <1>1, <1>2, SagaHistory DEF Failure
  <1>4. sorig[e] = "AppError" => results[e] = "AppError"
    BY <1>1, <1>2 DEF Reverse
  <1>5. CASE ~HistoryConsistent(e)
    <2>1. Classify(e) = "refused"
      BY <1>5 DEF Classify
    <2>2. QED
      BY <1>3, <1>5, <2>1
  <1>6. CASE HistoryConsistent(e)
    <2>1. Classify(e) = IF sdel[e] # "none" THEN "unsafe"
                        ELSE IF sterm[e] # "none" \/ snext[e] = 0 THEN "refused" ELSE "idle"
      BY <1>3, <1>4, <1>6, LogFitsSlots DEF Classify
    <2>2. QED
      BY <2>1 DEF Pausing
  <1>7. QED
    BY <1>5, <1>6

\* A resumed saga goes on where the log stops, with request ids that are new.
LEMMA ResumedNumbers ==
  ASSUME SagaLogTypeOK, JournalTypeOK, SlotType, NEW e \in Exec, Forward(e), Reverse(e),
         sphase[e] # "none", Pausing(e), snext[e] # 0
  PROVE  /\ NextRequest(e) \in Nat /\ NextRequest(e) > jhi[e] /\ NextRequest(e) > shigh[e]
         /\ snext[e] >= 1 /\ NextRequest(e) + snext[e] <= 2 * sinit[e] + 2
         /\ sinit[e] + 1 \in Ordinal
  <1>1. /\ sinit[e] \in Nat /\ snext[e] \in Nat /\ shigh[e] \in Nat /\ sinit[e] >= 1 /\ sinit[e] + 1 <= Steps
        /\ snext[e] <= sinit[e] /\ jhi[e] = sinit[e] + 1
    BY SagaNumbers
  <1>2. shigh[e] + snext[e] <= 2 * sinit[e] + 1
    BY DEF Reverse
  <1>3. sinit[e] + 1 \in Ordinal
    BY <1>1, OrdinalFacts DEF Ordinal
  <1>4. QED
    BY <1>1, <1>2, <1>3 DEF NextRequest

\* open_state looks.
LEMMA OpenKeeps == ASSUME IInv, Open PROVE IInv'
  <1>1. /\ pc \in Off /\ pc' \in Off
        /\ UNCHANGED <<storeVars, slotVars, floor, cur, appVars, sends, told, crashes>>
    BY DEF Open, Off
  <1>2. QED
    BY <1>1, LookKeeps

\* restore_startup_state: the slots that are rebuilt agree with the stores.
LEMMA ServeKeeps == ASSUME IInv, Roomy, Serve PROVE IInv'
  <1>1. TypeOK /\ sok = TRUE /\ Control /\ \A e \in Exec : Good(e)
    BY DEF IInv
  <1>2. /\ pc = "close"
        /\ UNCHANGED <<storeVars, appVars, sends, told, crashes>> /\ UNCHANGED cur
    BY DEF Serve
  <1>3. CASE \E e \in Resumable : Classify(e) # "idle" /\ pc' = Classify(e) /\ UNCHANGED <<slotVars, floor>>
    <2>1. PICK e \in InLog : Classify(e) # "idle" /\ pc' = Classify(e) /\ UNCHANGED <<slotVars, floor>>
      BY <1>3 DEF Resumable
    <2>2. pc' \in Off /\ pc \in Off
      BY <1>2, <2>1, Verdict DEF Off
    <2>3. QED
      BY <1>2, <2>1, <2>2, LookKeeps
  <1>4. CASE /\ \A e \in Resumable : Classify(e) = "idle"
             /\ pc' = "idle"
             /\ state' = [e \in Exec |-> IF e \in Resumable THEN "COMPLETE" ELSE "EMPTY"]
             /\ step' = [e \in Exec |-> IF e \in Resumable THEN Completed(e) + 1 ELSE 1]
             /\ outcome' = [e \in Exec |-> IF e \notin Resumable THEN "none"
                              ELSE IF sorig[e] = "AppError" THEN "AppError" ELSE "Unknown"]
             /\ comp' = [e \in Exec |-> IF e \in Resumable THEN "READY" ELSE "off"]
             /\ left' = [e \in Exec |-> IF e \in Resumable THEN snext[e] ELSE 0]
             /\ nreq' = [e \in Exec |-> IF e \notin Resumable THEN 0
                           ELSE NextRequest(e)]
             /\ reaped' = [e \in Exec |-> e \in Resumable]
             /\ floor' = jlast + 1
             /\ UNCHANGED rout
    <2>1. /\ UNCHANGED journalVars /\ UNCHANGED sagaLogVars /\ UNCHANGED <<tokens, results, torn, told>>
          /\ UNCHANGED <<appVars, sends>> /\ crashes' = crashes
      BY <1>2 DEF storeVars
    <2>2. JournalTypeOK' /\ SagaLogTypeOK' /\ StoreType' /\ AppType' /\ sok' = TRUE
      BY <1>1, <2>1, TypeParts, JournalStays, LogStays, StoresStay, AppsStay
    <2>3. ASSUME NEW e \in InLog
          PROVE  /\ Pausing(e) /\ sphase[e] = "active" /\ Completed(e) + 1 \in Ordinal
                 /\ NextRequest(e) \in Nat /\ NextRequest(e) > jhi[e] /\ NextRequest(e) > shigh[e]
                 /\ snext[e] >= 1 /\ NextRequest(e) + snext[e] <= 2 * sinit[e] + 2
      <3>1. e \in Exec /\ sphase[e] = "active" /\ Classify(e) = "idle"
        BY <1>4 DEF InLog, Resumable
      <3>2. Pausing(e) /\ snext[e] # 0
        BY <3>1, Verdict
      <3>3. SagaLogTypeOK /\ JournalTypeOK /\ SlotType /\ Forward(e) /\ Reverse(e)
        BY <3>1, Parts
      <3>4. Completed(e) = sinit[e]
        BY <3>1, <3>3, SagaHistory
      <3>5. QED
        BY <3>1, <3>2, <3>3, <3>4, ResumedNumbers
    <2>4. SlotType'
      <3>1. 1 \in Ordinal /\ 0 \in 0 .. Steps /\ snext \in [Exec -> 0 .. Steps] /\ rout' \in [Exec -> {"none"} \cup Outcome]
        BY <1>1, <1>4, OrdinalFacts DEF Ordinal, TypeOK, SagaLogTypeOK
      <3>2. step' \in [Exec -> Ordinal] /\ nreq' \in [Exec -> Nat]
        BY <1>4, <2>3, <3>1 DEF Resumable
      <3>3. outcome' \in [Exec -> {"none"} \cup Outcome]
        BY <1>4 DEF Outcome
      <3>4. left' \in [Exec -> 0 .. Steps]
        BY <1>4, <3>1
      <3>5. QED
        BY <1>4, <3>1, <3>2, <3>3, <3>4 DEF SlotType
    <2>5. PcType'
      <3>1. jlast + 1 \in 0 .. MaxExecId
        BY <1>1, JournalAssumption DEF TypeOK, JournalTypeOK
      <3>2. QED
        BY <1>1, <1>2, <1>4, <2>1, <3>1 DEF TypeOK, PcType
    <2>6. Control'
      <3>1. jlast' = jlast /\ jphase' = jphase /\ jlast \in Nat
        BY <1>1, <2>1, JournalStays, JournalAssumption DEF TypeOK, JournalTypeOK
      <3>2. QED
        BY <1>1, <1>4, <3>1 DEF Control
    <2>7. \A e \in Exec : Good(e)'
      <3> TAKE e \in Exec
      <3>1. Where(e) = "down" /\ Where(e)' = "idle"
        BY <1>2, <1>4 DEF Where, Off
      <3>2. SameJournal(e) /\ SameLog(e) /\ SameStores(e) /\ SameApps(e)
        BY <2>1, JournalStays, LogStays, StoresStay, AppsStay
      <3>3. UNCHANGED <<runs, sends>>
        BY <2>1 DEF appVars
      <3>4. Forward(e)'
        BY <1>1, <3>2, <3>3 DEF Good, Forward, SameJournal, SameLog, SameStores, Fwd
      <3>5. Reverse(e)'
        BY <1>1, <3>2, <3>3 DEF Good, Reverse, Pausing, SameJournal, SameLog, SameStores, Rev
      <3>6. Told(e)'
        BY <1>1, <3>2, <3>3 DEF Good, Told, Rolled, SameJournal, SameStores, Rev
      <3>7. Connected(e)'
        <4>1. ~Waiting(e)
          BY <3>1 DEF Waiting
        <4>2. QED
          BY <1>1, <3>2, <4>1, NotWaitingQuiet, QuietStays DEF Good
      <3>8. Live(e)'
        <4>1. CASE e \in InLog
          <5>1. /\ state'[e] = "COMPLETE" /\ comp'[e] = "READY" /\ left'[e] = snext[e]
                /\ nreq'[e] = NextRequest(e)
            BY <1>4, <4>1 DEF Resumable
          <5>2. Driving(e)'
            BY <2>3, <3>1, <3>2, <4>1, <5>1 DEF Driving, Pausing, SameLog, SameJournal
          <5>3. Compensating(e)'
            BY <2>3, <3>1, <3>2, <4>1, <5>1, <5>2 DEF Compensating, SameLog
          <5>4. QED
            BY <5>1, <5>3 DEF Live
        <4>2. CASE e \notin InLog
          <5>1. state'[e] = "EMPTY" /\ comp'[e] = "off"
            BY <1>4, <4>2 DEF Resumable
          <5>2. QED
            BY <3>1, <5>1 DEF Live
        <4>3. QED
          BY <4>1, <4>2
      <3>9. QED
        BY <3>4, <3>5, <3>6, <3>7, <3>8 DEF Good
    <2>8. \A d \in Invocation : Flow(d)'
      BY <2>1, AppsStay DEF IInv
    <2>9. TypeOK'
      BY <2>2, <2>4, <2>5 DEF TypeOK, SlotType, StoreType, AppType, PcType
    <2>10. QED
      BY <2>2, <2>6, <2>7, <2>8, <2>9 DEF IInv
  <1>5. QED
    BY <1>3, <1>4 DEF Serve

\* What was run stays run, and nothing else of an execution depends on the runs.
LEMMA RunsGrow ==
  ASSUME TypeOK, NEW e \in Exec, Good(e), SameJournal(e), SameLog(e), SameSlot(e), SameStores(e),
         Where(e)' = Where(e), sends' = sends, \A x \in Invocation : runs[x] = 1 => runs'[x] = 1
  PROVE  Forward(e)' /\ Reverse(e)' /\ Told(e)' /\ Live(e)'
  <1>1. step[e] \in Ordinal /\ left[e] \in 0 .. Steps
    BY DEF TypeOK
  <1>2. \A i \in Ordinal : /\ runs[Fwd(e, i)] = 1 => runs'[Fwd(e, i)] = 1
                           /\ runs[Rev(e, i)] = 1 => runs'[Rev(e, i)] = 1
    BY DEF Fwd, Rev, Invocation, Direction
  <1>3. Forward(e)'
    BY <1>2 DEF Good, Forward, SameJournal, SameLog, SameStores, Fwd
  <1>4. Reverse(e)'
    BY <1>2 DEF Good, Reverse, Pausing, SameJournal, SameLog, SameStores, Rev
  <1>5. Rolled(e) => Rolled(e)'
    BY <1>2 DEF Rolled, SameJournal, Rev
  <1>6. Told(e)'
    BY <1>5 DEF Good, Told, SameJournal, SameStores
  <1>7. Live(e)'
    <2>1. AtStep(e) => AtStep(e)'
      BY <1>1, <1>2 DEF AtStep, SameJournal, SameSlot, SameStores, Fwd
    <2>2. Ended(e) => Ended(e)'
      BY DEF Ended, SameJournal, SameSlot, SameStores, SameLog
    <2>3. Driving(e) => Driving(e)'
      BY DEF Driving, SameJournal, SameSlot, SameLog, Rev
    <2>4. Closing(e) => Closing(e)'
      BY DEF Closing, SameSlot, SameLog
    <2>5. Compensating(e) => Compensating(e)'
      BY <2>3, <2>4 DEF Compensating, SameSlot, SameLog
    <2>6. QED
      BY <1>5, <2>1, <2>2, <2>5 DEF Good, Live, SameSlot, SameJournal
  <1>8. QED
    BY <1>3, <1>4, <1>6, <1>7

\* An app runs an invocation that is with it, on a live connection or a closed one.
LEMMA AppKeeps == ASSUME IInv, NEW d \in Invocation, AppRun(d) \/ AppRunLate(d) PROVE IInv'
  <1>1. PICK w \in Direction, e \in Exec, i \in Ordinal : d = <<w, e, i>>
    BY DEF Invocation
  <1>2. /\ JournalTypeOK /\ SagaLogTypeOK /\ SlotType /\ StoreType /\ AppType /\ PcType
        /\ sok = TRUE /\ Control /\ Connected(e)
        /\ \A x \in Invocation : Flow(x)
    BY Parts
  <1>3. TypeOK /\ Good(e)
    BY DEF IInv
  <1>4. /\ d \in queued \cup late /\ runs' = [runs EXCEPT ![d] = @ + 1]
        /\ queued' = queued \ {d} /\ late' = late \ {d} /\ sends' = sends
        /\ UNCHANGED journalVars /\ UNCHANGED sagaLogVars /\ UNCHANGED slotVars
        /\ UNCHANGED <<tokens, results, torn, told>> /\ UNCHANGED <<floor, pc, cur, crashes>>
    BY <1>2 DEF AppRun, AppRunLate, storeVars, Flow
  <1>5. \/ answer' = answer
        \/ d \in queued /\ \E k \in Answer : answer' = [answer EXCEPT ![e] = k]
    BY <1>1 DEF AppRun, AppRunLate
  <1>6. sends[d] = 1 /\ runs[d] = 0
    BY <1>2, <1>4 DEF Flow
  <1>7. \A x \in Invocation : runs'[x] = IF x = d THEN 1 ELSE runs[x]
    BY <1>2, <1>4, <1>6 DEF AppType
  <1>8. AppType'
    <2>1. answer' \in [Exec -> {"none"} \cup Answer]
      BY <1>2, <1>5 DEF AppType
    <2>2. runs' \in [Invocation -> Nat]
      BY <1>2, <1>4 DEF AppType
    <2>3. QED
      BY <1>2, <1>4, <2>1, <2>2 DEF AppType
  <1>9. \A f \in Exec : Where(f)' = Where(f)
    BY <1>4 DEF Where
  <1>10. SameJournal(e) /\ SameLog(e) /\ SameSlot(e) /\ SameStores(e)
    BY <1>4, JournalStays, LogStays, SlotsStay, StoresStay
  <1>11. \A f \in Exec : f # e => Same(f)
    <2> TAKE f \in Exec
    <2> HAVE f # e
    <2>1. \A v \in Direction, j \in Ordinal : <<v, f, j>> \in Invocation /\ <<v, f, j>> # d
      BY <1>1 DEF Invocation
    <2>2. answer'[f] = answer[f]
      BY <1>2, <1>5 DEF AppType
    <2>3. SameApps(f)
      BY <1>4, <1>7, <2>1, <2>2 DEF SameApps
    <2>4. QED
      BY <1>4, <1>9, <2>3, JournalStays, LogStays, SlotsStay, StoresStay DEF Same
  <1>12. Forward(e)' /\ Reverse(e)' /\ Told(e)' /\ Live(e)'
    BY <1>3, <1>4, <1>7, <1>9, <1>10, RunsGrow
  <1>13. Connected(e)'
    <2>1. At(e)' = At(e) /\ (Waiting(e)' <=> Waiting(e))
      BY <1>9, <1>10 DEF At, Waiting, SameSlot
    <2>2. \A j \in Ordinal, v \in Direction : <<v, e, j>> \in queued' => Waiting(e) /\ <<v, e, j>> = At(e)
      BY <1>2, <1>4 DEF Connected
    <2>3. answer'[e] # "none" => Waiting(e) /\ At(e) \in Invocation /\ runs'[At(e)] = 1
      <3>1. CASE answer' = answer
        BY <1>2, <1>7, <3>1 DEF Connected
      <3>2. CASE d \in queued
        BY <1>1, <1>2, <1>7, <3>2 DEF Connected
      <3>3. QED
        BY <1>5, <3>1, <3>2
    <2>4. QED
      BY <2>1, <2>2, <2>3 DEF Connected
  <1>14. \A x \in Invocation : Flow(x)'
    BY <1>2, <1>4, <1>6, <1>7 DEF Flow
  <1>15. Good(e)'
    BY <1>12, <1>13 DEF Good
  <1>16. Control' /\ PcType'
    BY <1>2, <1>4, JournalStays DEF Control, PcType
  <1>17. QED
    BY <1>2, <1>4, <1>8, <1>11, <1>14, <1>15, <1>16, JournalStays, LogStays, SlotsStay, StoresStay, OneExecution

-----------------------------------------------------------------------------
(* The theorems *)

\* The first startup finds empty stores.
LEMMA InitHolds == Init => IInv
  <1> SUFFICES ASSUME Init PROVE IInv
    OBVIOUS
  <1>1. 1 \in Ordinal /\ 0 \in 0 .. Steps /\ MaxEvents \in Nat /\ 0 \in 0 .. MaxEvents
        /\ MaxExecId \in Nat /\ MaxExecId >= 1 /\ 0 \in 0 .. MaxExecId /\ 0 \in 0 .. MaxReqId
    BY OrdinalFacts, SagaAssumption, JournalAssumption DEF Ordinal
  <1>2. JournalTypeOK
    BY <1>1 DEF Init, JournalInit, JournalTypeOK, Phase, Delivery
  <1>3. SagaLogTypeOK
    BY <1>1 DEF Init, SagaLogInit, SagaLogTypeOK
  <1>4. SlotType
    BY <1>1 DEF Init, NoSlots, SlotType
  <1>5. StoreType /\ AppType /\ PcType
    BY <1>1 DEF Init, StoreType, AppType, PcType
  <1>6. TypeOK
    BY <1>2, <1>3, <1>4, <1>5, TypeParts
  <1>7. sok = TRUE /\ Control
    BY DEF Init, SagaLogInit, JournalInit, Control, Off
  <1>8. \A d \in Invocation : Flow(d)
    BY DEF Init, Flow
  <1>9. ASSUME NEW e \in Exec PROVE Good(e)
    <2>1. Forward(e)
      <3>1. jhi[e] = 0 /\ \A i \in Req : jdel[e][i] = "none"
        BY DEF Init, JournalInit
      <3>2. \A i \in Ordinal : i \in Req /\ tokens[<<e, i>>] = 0 /\ sends[Fwd(e, i)] = 0
        BY OrdinalFacts DEF Init, Fwd, Invocation, Direction
      <3>3. sphase[e] = "none" /\ told[e] = "none"
        BY DEF Init, SagaLogInit
      <3>4. QED
        BY <3>1, <3>2, <3>3, OrdinalFacts DEF Forward, Req
    <2>2. Reverse(e)
      BY DEF Init, SagaLogInit, Reverse, Rev, Invocation, Direction
    <2>3. Told(e) /\ Live(e) /\ Connected(e)
      BY DEF Init, Told, Live, Where, Off, Connected
    <2>4. QED
      BY <2>1, <2>2, <2>3 DEF Good
  <1>10. QED
    BY <1>6, <1>7, <1>8, <1>9 DEF IInv

\* A step that changes nothing.
LEMMA StutterKeeps == ASSUME IInv, UNCHANGED vars PROVE IInv'
  <1>1. TypeOK /\ sok = TRUE /\ Control /\ (\A e \in Exec : Good(e)) /\ \A d \in Invocation : Flow(d)
    BY DEF IInv
  <1>2. /\ UNCHANGED journalVars /\ UNCHANGED sagaLogVars /\ UNCHANGED <<tokens, results, torn, told>>
        /\ UNCHANGED slotVars /\ UNCHANGED <<appVars, sends>> /\ UNCHANGED <<floor, pc, cur, crashes>>
    BY DEF vars, storeVars
  <1>3. JournalTypeOK' /\ SagaLogTypeOK' /\ SlotType' /\ StoreType' /\ AppType' /\ sok' = TRUE
    BY <1>1, <1>2, TypeParts, JournalStays, LogStays, SlotsStay, StoresStay, AppsStay
  <1>4. PcType' /\ Control'
    BY <1>1, <1>2, JournalStays DEF TypeOK, PcType, Control
  <1>5. \A e \in Exec : Good(e)'
    <2> TAKE e \in Exec
    <2>1. Where(e)' = Where(e)
      BY <1>2 DEF Where
    <2>2. QED
      BY <1>1, <1>2, <2>1, SameKeeps, JournalStays, LogStays, SlotsStay, StoresStay, AppsStay
  <1>6. \A d \in Invocation : Flow(d)'
    BY <1>1, <1>2, AppsStay
  <1>7. TypeOK'
    BY <1>3, <1>4 DEF TypeOK, SlotType, StoreType, AppType, PcType
  <1>8. QED
    BY <1>3, <1>4, <1>5, <1>6, <1>7 DEF IInv

\* The handlers that go on with the execution they have begun with.
Continue ==
  MarkSent \/ Succeed \/ StoreResult \/ Finish \/ Begin \/ MarkReverseSent \/ FinishReverse

\* Such a handler has an execution.
LEMMA ContinueHasExecution == ASSUME IInv, Continue PROVE cur \in Exec
  <1>1. pc \in {"sent", "succeed", "store", "finish", "begin", "revsent", "revfinish"}
    BY DEF Continue, MarkSent, Succeed, StoreResult, Finish, Begin, MarkReverseSent, FinishReverse
  <1>2. QED
    BY <1>1 DEF IInv, Control, Off

-----------------------------------------------------------------------------
(* The tables.                                                             *)

\* A step that gives no execution a new entry keeps the bound.
LEMMA HeldShrinks ==
  ASSUME Roomy, \A e \in Exec : Holds(e)' => Holds(e),
         pc' \notin Off => \A e \in Exec : SlotHeld(e)'
  PROVE  Roomy'
  <1>1. Held' \subseteq Held /\ Held \subseteq Exec
    BY DEF Held
  <1>2. IsFiniteSet(Held) /\ Cardinality(Held) \in Nat /\ Cardinality(Held') \in Nat
    BY <1>1, ExecSubset
  <1>3. Cardinality(Held') <= Cardinality(Held)
    BY <1>1, <1>2, FS_Subset
  <1>4. Cardinality(Held)' <= MaxSlots
    BY <1>2, <1>3, SagaAssumption DEF Roomy
  <1>5. QED
    BY <1>4 DEF Roomy

\* A step of a daemon that is up, which changes no slot but that of e and does not
\* free it, and leaves the phases of the others.
LEMMA OneHeld ==
  ASSUME Roomy, NEW e \in Exec, pc \notin Off, Holds(e), SlotHeld(e)',
         \A f \in Exec : f # e => /\ state'[f] = state[f] /\ comp'[f] = comp[f]
                                  /\ jphase'[f] = jphase[f] /\ sphase'[f] = sphase[f]
  PROVE  Roomy'
  <1>1. \A f \in Exec : f # e => (Holds(f)' <=> Holds(f)) /\ (SlotHeld(f)' <=> SlotHeld(f))
    BY DEF Holds, SlotHeld
  <1>2. QED
    BY <1>1, HeldShrinks DEF Roomy

\* hermas_daemon_loop_admit takes a slot only when one is free.
LEMMA AdmitRoom == ASSUME IInv, Roomy, NEW e \in Exec, Admit(e) PROVE Roomy'
  <1>1. /\ pc = "idle" /\ pc' = "idle" /\ Cardinality(Active) < MaxSlots
        /\ AppendStarted(e, jtail) /\ state' = [state EXCEPT ![e] = "READY"]
        /\ UNCHANGED comp /\ UNCHANGED sagaLogVars
    BY DEF Admit
  <1>2. SlotType /\ JournalTypeOK /\ pc \notin Off
    BY <1>1, Parts DEF Off
  <1>3. jphase' = [jphase EXCEPT ![e] = "open"] /\ sphase' = sphase
    BY <1>1 DEF AppendStarted, sagaLogVars
  <1>4. \A f \in Exec : state[f] = "EMPTY" => comp[f] = "off"
    <2> SUFFICES ASSUME NEW f \in Exec, state[f] = "EMPTY" PROVE comp[f] = "off"
      OBVIOUS
    <2>1. Live(f) /\ Where(f) = "idle"
      BY <1>1, Parts DEF Where, Off
    <2>2. QED
      BY <2>1 DEF Live
  <1>5. Held \subseteq Active /\ Active \subseteq Exec
    BY <1>2, <1>4 DEF Held, Holds, Active, Roomy, SlotHeld
  <1>6. Held' \subseteq Active \cup {e}
    BY <1>2, <1>3, <1>1, <1>5 DEF Held, Holds, JournalTypeOK, SlotType
  <1>7. IsFiniteSet(Active) /\ Cardinality(Active) \in Nat
    BY <1>5, ExecSubset
  <1>8. /\ IsFiniteSet(Active \cup {e}) /\ Cardinality(Active \cup {e}) \in Nat
        /\ Cardinality(Active \cup {e}) <= Cardinality(Active) + 1
    BY <1>7, FS_AddElement, FS_CardinalityType
  <1>9. Cardinality(Held') <= Cardinality(Active \cup {e}) /\ Cardinality(Held') \in Nat
    BY <1>6, <1>8, FS_Subset, FS_CardinalityType
  <1>10. Cardinality(Held)' <= MaxSlots
    BY <1>1, <1>7, <1>8, <1>9, SagaAssumption
  <1>11. \A f \in Exec : SlotHeld(f)'
    BY <1>1, <1>2, <1>3 DEF Roomy, SlotHeld, SlotType, JournalTypeOK
  <1>12. QED
    BY <1>10, <1>11 DEF Roomy

\* hermas_daemon_loop_release frees a slot that needs no entry any more.
LEMMA ReturnRoom == ASSUME IInv, Roomy, NEW e \in Exec, Return(e) PROVE Roomy'
  <1>1. /\ pc = "idle" /\ state[e] = "COMPLETE" /\ comp[e] = "off"
        /\ UNCHANGED <<journalVars, sagaLogVars, comp, pc>>
        /\ state' = [state EXCEPT ![e] = "EMPTY"]
    BY DEF Return, storeVars
  <1>2. Live(e) /\ Where(e) = "idle" /\ SlotType /\ pc \notin Off
    BY <1>1, Parts DEF Where, Off
  <1>3. jphase[e] \in Outcome
    BY <1>1, <1>2 DEF Live, Ended, Compensating
  <1>4. sphase[e] # "active" /\ jphase[e] # "open"
    BY <1>1, <1>2, <1>3 DEF Roomy, SlotHeld, Outcome
  <1>5. UNCHANGED <<jphase, sphase>>
    BY <1>1 DEF journalVars, sagaLogVars
  <1>6. \A f \in Exec : (Holds(f)' => Holds(f)) /\ (SlotHeld(f) => SlotHeld(f)')
    BY <1>1, <1>2, <1>4, <1>5 DEF Holds, SlotHeld, SlotType
  <1>7. QED
    BY <1>2, <1>6, HeldShrinks DEF Roomy

\* The step of a handler keeps the slot and gives no other execution an entry.
LEMMA HandlerRoom ==
  ASSUME IInv, Roomy, NEW e \in Exec,
         \/ Prepare(e) \/ Send(e) \/ Enrol(e) \/ SendFails(e) \/ AppFails(e) \/ Reject(e)
         \/ PrepareReverse(e) \/ SendReverseFails(e) \/ ReverseFails(e)
         \/ RejectReverse(e) \/ ReverseSucceeds(e)
  PROVE  Roomy'
  <1>1. /\ pc = "idle" /\ UNCHANGED <<jphase, sphase>>
        /\ state' = state \/ \E v \in {"READY", "PREPARED", "COMPLETE"} : state' = [state EXCEPT ![e] = v]
        /\ comp' = comp \/ \E v \in {"READY", "PREPARED"} : comp' = [comp EXCEPT ![e] = v]
    BY DEF Prepare, Send, Enrol, SendFails, AppFails, Reject, FailForward, PrepareReverse,
           SendReverseFails, ReverseFails, RejectReverse, ReverseSucceeds, Block, LogStep,
           LogPrepared, AppendPrepared, AppendClosing, slotVars, storeVars, journalVars, sagaLogVars
  <1>2. SlotType /\ pc \notin Off /\ Live(e) /\ Where(e) = "idle"
    BY <1>1, Parts DEF Where, Off
  <1>3. state[e] # "EMPTY" \/ comp[e] # "off"
    BY DEF Prepare, Send, Enrol, SendFails, AppFails, Reject, PrepareReverse,
           SendReverseFails, ReverseFails, RejectReverse, ReverseSucceeds
  <1>4. state[e] # "EMPTY"
    BY <1>2, <1>3 DEF Live
  <1>5. Holds(e) /\ SlotHeld(e)'
    <2>1. state'[e] # "EMPTY" /\ (comp[e] # "off" => comp'[e] # "off")
      BY <1>1, <1>2, <1>4 DEF SlotType
    <2>2. QED
      BY <1>1, <1>2, <1>4, <2>1 DEF Roomy, SlotHeld, Holds
  <1>6. \A f \in Exec : f # e => /\ state'[f] = state[f] /\ comp'[f] = comp[f]
                                 /\ jphase'[f] = jphase[f] /\ sphase'[f] = sphase[f]
    BY <1>1, <1>2 DEF SlotType
  <1>7. QED
    BY <1>2, <1>5, <1>6, OneHeld

\* A handler that goes on still has its slot, and takes it out of the tables before
\* it gives the slot up (append_finished_if_complete, finish_driver).
LEMMA ContinueRoom == ASSUME IInv, IInv', Roomy, Continue PROVE Roomy'
  <1>1. cur \in Exec
    BY ContinueHasExecution
  <1>2. PICK e \in Exec : cur = e
    BY <1>1
  <1>3. pc \in {"sent", "succeed", "store", "finish", "begin", "revsent", "revfinish"}
    BY DEF Continue, MarkSent, Succeed, StoreResult, Finish, Begin, MarkReverseSent, FinishReverse
  <1>4. SlotType /\ JournalTypeOK /\ SagaLogTypeOK /\ pc \notin Off /\ Live(e) /\ Where(e) = pc
    BY <1>2, <1>3, Parts DEF Where, Off
  <1>5. state[e] # "EMPTY" /\ SlotHeld(e)
    BY <1>3, <1>4 DEF Live, Roomy
  <1>6. /\ \A f \in Exec : f # e => /\ state'[f] = state[f] /\ comp'[f] = comp[f]
                                    /\ jphase'[f] = jphase[f] /\ sphase'[f] = sphase[f]
        /\ state'[e] # "EMPTY"
        /\ sphase'[e] = "active" => comp'[e] # "off"
    <2>1. CASE MarkSent \/ Succeed \/ StoreResult
      <3>1. /\ UNCHANGED <<jphase, sphase, comp>>
            /\ state' = state \/ \E v \in {"SENT", "READY", "COMPLETE"} : state' = [state EXCEPT ![e] = v]
        BY <1>2, <2>1 DEF MarkSent, Succeed, StoreResult, AppendSent, AppendClosing, journalVars,
                          sagaLogVars, slotVars
      <3>2. QED
        BY <1>4, <1>5, <3>1 DEF SlotType, SlotHeld
    <2>2. CASE Finish
      <3>1. /\ UNCHANGED <<sphase, comp, state>>
            /\ jphase' = [jphase EXCEPT ![e] = outcome[e]]
        BY <1>2, <2>2 DEF Finish, AppendFinished, sagaLogVars, slotVars
      <3>2. QED
        BY <1>4, <1>5, <3>1 DEF JournalTypeOK, SlotHeld
    <2>3. CASE Begin
      <3>1. pc' = "idle"
        BY <1>2, <2>3, BeginKeeps
      <3>2. /\ UNCHANGED <<jphase, state>> /\ comp' = [comp EXCEPT ![e] = "READY"]
            /\ sphase' = [sphase EXCEPT ![e] = "active"]
        BY <1>2, <2>3, <3>1 DEF Begin, Goto, LogStarted, journalVars
      <3>3. QED
        BY <1>4, <1>5, <3>2 DEF SagaLogTypeOK, SlotType
    <2>4. CASE MarkReverseSent
      <3>1. /\ UNCHANGED <<jphase, state, sphase>> /\ comp' = [comp EXCEPT ![e] = "SENT"]
        BY <1>2, <2>4 DEF MarkReverseSent, LogSent, journalVars
      <3>2. QED
        BY <1>4, <1>5, <3>1 DEF SlotType
    <2>5. CASE FinishReverse
      <3>1. /\ UNCHANGED <<jphase, state>> /\ comp' = [comp EXCEPT ![e] = "off"]
            /\ sphase' = [sphase EXCEPT ![e] = rout[e]]
        BY <1>2, <2>5 DEF FinishReverse, LogFinished, journalVars
      <3>2. rout[e] # "active"
        BY <1>4 DEF SlotType, Outcome
      <3>3. QED
        BY <1>4, <1>5, <3>1, <3>2 DEF SagaLogTypeOK, SlotType
    <2>6. QED
      BY <2>1, <2>2, <2>3, <2>4, <2>5 DEF Continue
  <1>7. Holds(e) /\ SlotHeld(e)'
    BY <1>5, <1>6 DEF Holds, SlotHeld
  <1>8. QED
    BY <1>4, <1>6, <1>7, OneHeld

\* A kill and a startup give no execution a new entry, and every saga of the log
\* gets a slot before the daemon serves.
LEMMA RestartRoom == ASSUME IInv, Roomy, Crash \/ Open \/ Serve PROVE Roomy'
  <1>1. CASE Crash
    <2>1. /\ pc' \in Off /\ UNCHANGED <<jphase, sphase>>
          /\ state' = [e \in Exec |-> "EMPTY"]
      BY <1>1 DEF Crash, Goto, Off, sagaLogVars
    <2>2. \A e \in Exec : Holds(e)' => Holds(e)
      BY <2>1 DEF Holds
    <2>3. QED
      BY <2>1, <2>2, HeldShrinks
  <1>2. CASE Open
    <2>1. pc' \in Off /\ UNCHANGED <<jphase, sphase, state>>
      BY <1>2 DEF Open, Off, storeVars, journalVars, sagaLogVars, slotVars
    <2>2. \A e \in Exec : Holds(e)' => Holds(e)
      BY <2>1 DEF Holds
    <2>3. QED
      BY <2>1, <2>2, HeldShrinks
  <1>3. CASE Serve
    <2>1. Unfinished = {} /\ UNCHANGED <<jphase, sphase>>
      BY <1>3 DEF Serve, storeVars, journalVars, sagaLogVars
    <2>2. CASE \E e \in InLog : Classify(e) # "idle" /\ pc' = Classify(e) /\ UNCHANGED <<slotVars, floor>>
      <3>1. pc' \in Off /\ state' = state
        BY <2>2, Verdict DEF Off, slotVars
      <3>2. \A e \in Exec : Holds(e)' => Holds(e)
        BY <2>1, <3>1 DEF Holds
      <3>3. QED
        BY <3>1, <3>2, HeldShrinks
    <2>3. CASE /\ state' = [e \in Exec |-> IF e \in InLog THEN "COMPLETE" ELSE "EMPTY"]
               /\ comp' = [e \in Exec |-> IF e \in InLog THEN "READY" ELSE "off"]
      <3>1. \A e \in Exec : Holds(e)' => Holds(e)
        BY <2>1, <2>3 DEF Holds, InLog
      <3>2. \A e \in Exec : SlotHeld(e)'
        BY <2>1, <2>3 DEF SlotHeld, InLog, Unfinished
      <3>3. QED
        BY <3>1, <3>2, HeldShrinks
    <2>4. QED
      BY <1>3, <2>2, <2>3 DEF Serve, Resumable
  <1>4. QED
    BY <1>1, <1>2, <1>3

\* The startup closes executions, and the apps know nothing of tables.
LEMMA OtherRoom ==
  ASSUME IInv, Roomy,
         \/ \E e \in Exec : CloseExecution(e) \/ \E r \in Req : CloseDelivery(e, r)
         \/ \E d \in Invocation : AppRun(d) \/ AppRunLate(d)
         \/ UNCHANGED vars
  PROVE  Roomy'
  <1>1. ASSUME NEW e \in Exec, CloseExecution(e) PROVE Roomy'
    <2>1. /\ pc' \in Off /\ UNCHANGED <<sphase, state>> /\ jphase' = [jphase EXCEPT ![e] = "Unknown"]
      BY <1>1 DEF CloseExecution, AppendFinished, Off, sagaLogVars, slotVars
    <2>2. \A f \in Exec : Holds(f)' => Holds(f)
      BY <2>1, Parts DEF Holds, JournalTypeOK
    <2>3. QED
      BY <2>1, <2>2, HeldShrinks
  <1>2. ASSUME UNCHANGED <<jphase, sphase, state, comp, pc>> PROVE Roomy'
    BY <1>2, HeldShrinks DEF Roomy, Holds, SlotHeld
  <1>3. ASSUME NEW e \in Exec, NEW r \in Req, CloseDelivery(e, r) PROVE Roomy'
    BY <1>2, <1>3 DEF CloseDelivery, AppendClosing, sagaLogVars, slotVars
  <1>4. ASSUME NEW d \in Invocation, AppRun(d) \/ AppRunLate(d) PROVE Roomy'
    BY <1>2, <1>4 DEF AppRun, AppRunLate, storeVars, journalVars, sagaLogVars, slotVars
  <1>5. CASE UNCHANGED vars
    BY <1>2, <1>5 DEF vars, storeVars, journalVars, sagaLogVars, slotVars
  <1>6. QED
    BY <1>1, <1>3, <1>4, <1>5

\* Empty tables have room.
LEMMA InitRoom == Init => Roomy
  <1> SUFFICES ASSUME Init PROVE Roomy
    OBVIOUS
  <1>1. Held = {}
    BY DEF Init, JournalInit, SagaLogInit, NoSlots, Held, Holds
  <1>2. Cardinality(Held) = 0
    BY <1>1, FS_EmptySet
  <1>3. QED
    BY <1>2, SagaAssumption DEF Init, Roomy, Off

\* Every step keeps the invariant.
LEMMA IInvIsInductive == IInv /\ Roomy /\ [Next]_vars => IInv'
  <1> SUFFICES ASSUME IInv, Roomy, [Next]_vars PROVE IInv'
    OBVIOUS
  <1>1. ASSUME NEW e \in Exec,
               \/ Admit(e) \/ Prepare(e) \/ Send(e) \/ Enrol(e)
               \/ SendFails(e) \/ AppFails(e) \/ Reject(e)
        PROVE  IInv'
    BY <1>1, AdmitKeeps, PrepareKeeps, SendKeeps, EnrolKeeps, ForwardFailureKeeps
  <1>2. ASSUME NEW e \in Exec,
               \/ PrepareReverse(e) \/ SendReverseFails(e) \/ ReverseFails(e)
               \/ RejectReverse(e) \/ ReverseSucceeds(e) \/ Return(e)
        PROVE  IInv'
    BY <1>2, PrepareReverseKeeps, ReverseFailureKeeps, ReverseSucceedsKeeps, ReturnKeeps
  <1>3. ASSUME NEW e \in Exec, CloseExecution(e) \/ \E r \in Req : CloseDelivery(e, r) PROVE IInv'
    BY <1>3, CloseExecutionKeeps, CloseDeliveryKeeps
  <1>4. CASE Continue
    <2>1. PICK e \in Exec : cur = e
      BY <1>4, ContinueHasExecution
    <2>2. QED
      BY <1>4, <2>1, MarkSentKeeps, SucceedKeeps, StoreResultKeeps, FinishKeeps, BeginKeeps,
         MarkReverseSentKeeps, FinishReverseKeeps DEF Continue
  <1>5. CASE Crash \/ Open \/ Serve
    BY <1>5, CrashKeeps, OpenKeeps, ServeKeeps
  <1>6. ASSUME NEW d \in Invocation, AppRun(d) \/ AppRunLate(d) PROVE IInv'
    BY <1>6, AppKeeps
  <1>7. CASE UNCHANGED vars
    BY <1>7, StutterKeeps
  <1>8. QED
    BY <1>1, <1>2, <1>3, <1>4, <1>5, <1>6, <1>7 DEF Next, Continue

\* Every step keeps the bound on the tables.
LEMMA RoomIsKept == IInv /\ IInv' /\ Roomy /\ [Next]_vars => Roomy'
  <1> SUFFICES ASSUME IInv, IInv', Roomy, [Next]_vars PROVE Roomy'
    OBVIOUS
  <1>1. ASSUME NEW e \in Exec, Admit(e) \/ Return(e) PROVE Roomy'
    BY <1>1, AdmitRoom, ReturnRoom
  <1>2. ASSUME NEW e \in Exec,
               \/ Prepare(e) \/ Send(e) \/ Enrol(e) \/ SendFails(e) \/ AppFails(e) \/ Reject(e)
               \/ PrepareReverse(e) \/ SendReverseFails(e) \/ ReverseFails(e)
               \/ RejectReverse(e) \/ ReverseSucceeds(e)
        PROVE  Roomy'
    BY <1>2, HandlerRoom
  <1>3. CASE Continue
    BY <1>3, ContinueRoom
  <1>4. CASE Crash \/ Open \/ Serve
    BY <1>4, RestartRoom
  <1>5. CASE \/ \E e \in Exec : CloseExecution(e) \/ \E r \in Req : CloseDelivery(e, r)
             \/ \E d \in Invocation : AppRun(d) \/ AppRunLate(d)
             \/ UNCHANGED vars
    BY <1>5, OtherRoom
  <1>6. QED
    BY <1>1, <1>2, <1>3, <1>4, <1>5 DEF Next, Continue

\* In every reachable state the stores, the slots and the apps agree about every
\* saga, and the tables have room: a startup can rebuild a slot from what a kill
\* leaves.
THEOREM Invariance == Spec => [](IInv /\ Roomy)
  <1>1. Init => IInv /\ Roomy
    BY InitHolds, InitRoom
  <1>2. IInv /\ Roomy /\ [Next]_vars => IInv' /\ Roomy'
    BY IInvIsInductive, RoomIsKept
  <1>3. QED
    BY <1>1, <1>2, PTL DEF Spec

\* The daemon, its stores and the apps stay within their types.
THEOREM TypeCorrect == Spec => []TypeOK
  <1>1. IInv => TypeOK
    BY DEF IInv
  <1>2. QED
    BY <1>1, Invariance, PTL

\* No step and no compensation is sent twice, whatever kills interrupt the saga
\* (hermas_saga_reconcile skips what is durable and stops at what is open).
THEOREM NothingIsSentTwice == Spec => []SentOnce
  <1>1. IInv => SentOnce
    BY DEF IInv, Flow, SentOnce
  <1>2. QED
    BY <1>1, Invariance, PTL

\* Compensations go backwards from a known failure, over steps that were run
\* (hermas_saga_prepare).
THEOREM CompensationGoesBackwards == Spec => []ReverseOrder
  <1>1. ASSUME IInv PROVE ReverseOrder
    <2> SUFFICES ASSUME NEW e \in Exec, NEW i \in Ordinal, sends[<<"rev", e, i>>] > 0
                 PROVE  /\ runs[<<"fwd", e, i>>] = 1
                        /\ i \in Confirmed(e) /\ jphase[e] \in Failure
                        /\ \A j \in Confirmed(e) : j > i => runs[<<"rev", e, j>>] = 1
      BY DEF ReverseOrder
    <2>1. SagaLogTypeOK /\ JournalTypeOK /\ SlotType /\ Forward(e) /\ Reverse(e)
      BY <1>1, Parts
    <2>2. sends[Rev(e, i)] # 0 /\ sphase[e] # "none"
      BY <2>1 DEF Reverse, Rev
    <2>3. /\ sinit[e] \in Nat /\ snext[e] \in Nat
          /\ \A j \in Ordinal : j <= sinit[e] <=> jdel[e][j] = "Success"
      BY <2>1, <2>2, SagaNumbers
    <2>4. jphase[e] \in Failure /\ i <= sinit[e] /\ i >= snext[e]
      BY <2>1, <2>2, <2>3, OrdinalFacts DEF Reverse
    <2>5. i \in Confirmed(e) /\ runs[<<"fwd", e, i>>] = 1
      BY <2>1, <2>3, <2>4 DEF Confirmed, Forward, Fwd
    <2>6. ASSUME NEW j \in Confirmed(e), j > i PROVE runs[<<"rev", e, j>>] = 1
      <3>1. j \in Ordinal /\ j <= sinit[e] /\ snext[e] < j
        BY <2>3, <2>4, <2>6, OrdinalFacts DEF Confirmed
      <3>2. QED
        BY <2>1, <2>2, <3>1 DEF Reverse, Rev
    <2>7. QED
      BY <2>4, <2>5, <2>6
  <1>2. QED
    BY <1>1, Invariance, PTL

\* AppError is told only after a complete rollback (fail_compensation).
THEOREM AppErrorMeansRolledBack == Spec => []RollbackIsProven
  <1>1. IInv => RollbackIsProven
    BY DEF IInv, Good, Told, Rolled, RollbackIsProven, Confirmed, Rev
  <1>2. QED
    BY <1>1, Invariance, PTL

\* Live and resumed drivers write a log that the scan of every startup accepts,
\* however many executions follow each other through the slots: its table of active
\* sagas never overflows (transition, HERMAS_SAGA_LOG_MAX_ACTIVE).
THEOREM SagaLogIsReadable == Spec => []SagaLogReadable
  <1>1. IInv => SagaLogReadable
    BY DEF IInv, SagaLogReadable
  <1>2. QED
    BY <1>1, Invariance, PTL

RefusalStep ==
  /\ pc = "close" /\ pc' = "unsafe" => \E e \in InLog : sdel[e] # "none"
  /\ pc = "close" /\ pc' = "refused" =>
       ~jok \/ \E e \in InLog : sterm[e] # "none" \/ snext[e] = 0
  /\ pc \in {"begin", "idle"} => pc' # "refused"

\* No step of the daemon refuses without the cause that RefusalHasCause names.
LEMMA EveryRefusalHasCause == ASSUME IInv, Roomy, Next PROVE RefusalStep
  <1>1. ASSUME NEW e \in Exec,
               \/ Admit(e) \/ Prepare(e) \/ Send(e) \/ Enrol(e)
               \/ SendFails(e) \/ AppFails(e) \/ Reject(e)
        PROVE  RefusalStep
    BY <1>1 DEF Admit, Prepare, Send, Enrol, SendFails, AppFails, Reject, FailForward, Goto, RefusalStep
  <1>2. ASSUME NEW e \in Exec,
               \/ SendReverseFails(e) \/ ReverseFails(e)
               \/ RejectReverse(e) \/ ReverseSucceeds(e) \/ Return(e)
        PROVE  RefusalStep
    BY <1>2 DEF SendReverseFails, ReverseFails, RejectReverse, ReverseSucceeds, Return, Block, Goto,
                RefusalStep
  <1>3. ASSUME NEW e \in Exec, PrepareReverse(e) PROVE RefusalStep
    <2>1. pc = "idle" /\ pc' = "idle"
      BY <1>3, PrepareReverseKeeps DEF PrepareReverse
    <2>2. QED
      BY <2>1 DEF RefusalStep
  <1>4. ASSUME NEW e \in Exec, CloseExecution(e) \/ \E r \in Req : CloseDelivery(e, r) PROVE RefusalStep
    BY <1>4 DEF CloseExecution, CloseDelivery, RefusalStep
  <1>5. CASE Begin
    <2>1. PICK e \in Exec : cur = e
      BY <1>5, ContinueHasExecution DEF Continue
    <2>2. pc = "begin" /\ pc' = "idle"
      BY <1>5, <2>1, BeginKeeps DEF Begin
    <2>3. QED
      BY <2>2 DEF RefusalStep
  <1>6. CASE MarkSent \/ Succeed \/ StoreResult \/ Finish \/ MarkReverseSent \/ FinishReverse
    BY <1>6 DEF MarkSent, Succeed, StoreResult, Finish, MarkReverseSent, FinishReverse, Goto, RefusalStep
  <1>7. CASE Crash \/ Open
    BY <1>7 DEF Crash, Open, Goto, RefusalStep
  <1>8. CASE Serve
    <2>1. pc = "close"
      BY <1>8 DEF Serve
    <2>2. pc' = "idle" \/ \E e \in InLog : Classify(e) # "idle" /\ pc' = Classify(e)
      BY <1>8 DEF Serve, Resumable
    <2>3. QED
      BY <2>1, <2>2, Verdict DEF RefusalStep
  <1>9. ASSUME NEW d \in Invocation, AppRun(d) \/ AppRunLate(d) PROVE RefusalStep
    BY <1>9 DEF AppRun, AppRunLate, RefusalStep
  <1>10. QED
    BY <1>1, <1>2, <1>3, <1>4, <1>5, <1>6, <1>7, <1>8, <1>9 DEF Next

\* A startup refuses, and asks for an operator, only for the causes it has, and a
\* daemon that serves never misses a token (hermas_saga_begin_live,
\* hermas_saga_recover, hermas_saga_reconcile, hermas_daemon_loop_resume_saga).
THEOREM RefusalsHaveCauses == Spec => RefusalHasCause
  <1>1. IInv /\ Roomy /\ [Next]_vars => [RefusalStep]_vars
    BY EveryRefusalHasCause
  <1>2. QED
    BY <1>1, Invariance, PTL DEF Spec, RefusalHasCause, RefusalStep

FreshStep ==
  \A e \in Exec : sdel[e] = "none" /\ sdel'[e] = "prepared" =>
    sreq'[e] > jhi[e] /\ sreq'[e] > shigh[e]

\* Only the driver's prepare makes a reverse delivery, with the id of its slot.
LEMMA EveryRequestIsFresh == ASSUME IInv, Next PROVE FreshStep
  <1>1. SagaLogTypeOK
    BY TypeParts DEF IInv
  <1>2. ASSUME UNCHANGED sagaLogVars PROVE FreshStep
    BY <1>2 DEF sagaLogVars, FreshStep
  <1>3. ASSUME NEW f \in Exec, NEW v \in {"none", "sent"}, sdel' = [sdel EXCEPT ![f] = v] PROVE FreshStep
    BY <1>1, <1>3 DEF SagaLogTypeOK, FreshStep
  <1>4. ASSUME NEW e \in Exec,
               \/ Admit(e) \/ Prepare(e) \/ Send(e) \/ Enrol(e)
               \/ SendFails(e) \/ AppFails(e) \/ Reject(e) \/ Return(e)
               \/ CloseExecution(e) \/ \E r \in Req : CloseDelivery(e, r)
        PROVE  FreshStep
    BY <1>2, <1>4 DEF Admit, Prepare, Send, Enrol, SendFails, AppFails, Reject, FailForward, Return,
                      CloseExecution, CloseDelivery, storeVars
  <1>5. ASSUME NEW e \in Exec,
               SendReverseFails(e) \/ ReverseFails(e) \/ RejectReverse(e) \/ ReverseSucceeds(e)
        PROVE  FreshStep
    <2>1. sdel' = [sdel EXCEPT ![e] = "none"]
      BY <1>5 DEF SendReverseFails, ReverseFails, RejectReverse, ReverseSucceeds, Block, LogStep
    <2>2. QED
      BY <1>3, <2>1
  <1>6. ASSUME NEW e \in Exec, PrepareReverse(e) PROVE FreshStep
    <2>1. SlotType /\ Live(e)
      BY Parts
    <2>2. pc = "idle" /\ comp[e] = "READY" /\ (UNCHANGED sagaLogVars \/ LogPrepared(e, left[e], nreq[e]))
      BY <1>6 DEF PrepareReverse
    <2>3. CASE LogPrepared(e, left[e], nreq[e])
      <3>1. Where(e) = "idle"
        BY <2>2 DEF Where, Off
      <3>2. nreq[e] > jhi[e] /\ nreq[e] > shigh[e]
        BY <2>1, <2>2, <3>1 DEF Live, AtStep, Ended, Compensating, Driving
      <3>3. \A f \in Exec : /\ f # e => sdel'[f] = sdel[f]
                            /\ f = e => sreq'[f] = nreq[e]
        BY <1>1, <2>3 DEF LogPrepared, SagaLogTypeOK
      <3>4. QED
        BY <3>2, <3>3 DEF FreshStep
    <2>4. QED
      BY <1>2, <2>2, <2>3
  <1>7. CASE Continue
    <2>1. PICK e \in Exec : cur = e
      BY <1>7, ContinueHasExecution
    <2>2. \/ UNCHANGED sagaLogVars \/ sdel' = [sdel EXCEPT ![e] = "none"] \/ sdel' = [sdel EXCEPT ![e] = "sent"]
          \/ sdel' = sdel
      BY <1>7, <2>1 DEF Continue, MarkSent, Succeed, StoreResult, Finish, Begin, MarkReverseSent,
                        FinishReverse, LogStarted, LogSent, LogFinished
    <2>3. QED
      BY <1>2, <1>3, <2>2 DEF FreshStep
  <1>8. CASE Crash \/ Open \/ Serve
    BY <1>2, <1>8 DEF Crash, Open, Serve, storeVars
  <1>9. ASSUME NEW d \in Invocation, AppRun(d) \/ AppRunLate(d) PROVE FreshStep
    BY <1>2, <1>9 DEF AppRun, AppRunLate, storeVars
  <1>10. QED
    BY <1>4, <1>5, <1>6, <1>7, <1>8, <1>9 DEF Next, Continue

\* Request ids of compensations are above every id of the execution's journal and
\* of earlier attempts (hermas_saga_reconcile).
THEOREM ReverseIdsAreFresh == Spec => ReverseRequestsAreFresh
  <1>1. IInv /\ [Next]_vars => [FreshStep]_vars
    BY EveryRequestIsFresh
  <1>2. QED
    BY <1>1, Invariance, PTL DEF Spec, ReverseRequestsAreFresh, FreshStep
=============================================================================
