------------------------------ MODULE SagaLog ------------------------------
(***************************************************************************)
(* The saga attempt log (src/src/saga_log.c, src/src/saga_log_linux.c):    *)
(* what happened while the confirmed steps of a failed saga were           *)
(* compensated in reverse.  As with the journal, the writer checks one     *)
(* record and the scan of the next startup checks that the records follow  *)
(* each other, so the variables are what the scan has accumulated and sok  *)
(* is whether it has accepted every record.                                *)
(***************************************************************************)
EXTENDS Journal

CONSTANTS
  Steps,      \* number of steps of the saga, the ordinal of the last one
  MaxActive   \* HERMAS_SAGA_LOG_MAX_ACTIVE

ASSUME SagaLogAssumption ==
  /\ Steps \in Nat \ {0}
  /\ MaxActive \in Nat \ {0}

VARIABLES
  sok,     \* the scan accepts every record of the log
  sphase,  \* per execution: none, active, or the outcome of Finished
  sorig,   \* the outcome and the ordinal that Started names
  sinit,
  snext,   \* next_ordinal
  sdel,    \* the delivery of that ordinal
  sreq,    \* its request id
  sterm,   \* terminal_outcome of a failed or unknown step
  shigh    \* the largest request id of the execution's records

sagaLogVars == <<sok, sphase, sorig, sinit, snext, sdel, sreq, sterm, shigh>>

Ordinal == 1 .. Steps
Failure == {"AppError", "NotSent"}

SagaLogTypeOK ==
  /\ sok \in BOOLEAN
  /\ sphase \in [Exec -> {"none", "active"} \cup Outcome]
  /\ sorig \in [Exec -> {"none"} \cup Failure]
  /\ sinit \in [Exec -> 0 .. Steps]
  /\ snext \in [Exec -> 0 .. Steps]
  /\ sdel \in [Exec -> {"none", "prepared", "sent"}]
  /\ sreq \in [Exec -> Nat]
  /\ sterm \in [Exec -> {"none"} \cup Outcome]
  /\ shigh \in [Exec -> Nat]

SagaLogInit ==
  /\ sok = TRUE
  /\ sphase = [e \in Exec |-> "none"]
  /\ sorig = [e \in Exec |-> "none"]
  /\ sinit = [e \in Exec |-> 0]
  /\ snext = [e \in Exec |-> 0]
  /\ sdel = [e \in Exec |-> "none"]
  /\ sreq = [e \in Exec |-> 0]
  /\ sterm = [e \in Exec |-> "none"]
  /\ shigh = [e \in Exec |-> 0]

InLog == {e \in Exec : sphase[e] = "active"}

-----------------------------------------------------------------------------
(* One action per record kind (transition).                                *)

\* Mutation of LogStarted: the last entry of the table is never used.
LogStartedSparingOne(e, ordinal, o) ==
  /\ sok' = (sok /\ sphase[e] # "active" /\ Cardinality(InLog) < MaxActive - 1)
  /\ sphase' = [sphase EXCEPT ![e] = "active"]
  /\ sorig' = [sorig EXCEPT ![e] = o]
  /\ sinit' = [sinit EXCEPT ![e] = ordinal]
  /\ snext' = [snext EXCEPT ![e] = ordinal]
  /\ sdel' = [sdel EXCEPT ![e] = "none"]
  /\ sterm' = [sterm EXCEPT ![e] = "none"]
  /\ UNCHANGED <<sreq, shigh>>

\* the first free entry of the table; without one the record is refused
LogStarted(e, ordinal, o) ==
  /\ sok' = (sok /\ sphase[e] # "active" /\ Cardinality(InLog) < MaxActive)
  /\ sphase' = [sphase EXCEPT ![e] = "active"]
  /\ sorig' = [sorig EXCEPT ![e] = o]
  /\ sinit' = [sinit EXCEPT ![e] = ordinal]
  /\ snext' = [snext EXCEPT ![e] = ordinal]
  /\ sdel' = [sdel EXCEPT ![e] = "none"]
  /\ sterm' = [sterm EXCEPT ![e] = "none"]
  /\ UNCHANGED <<sreq, shigh>>

LogPrepared(e, ordinal, r) ==
  /\ sok' = (/\ sok /\ sphase[e] = "active"
             /\ sdel[e] = "none" /\ sterm[e] = "none"
             /\ ordinal = snext[e])
  /\ sdel' = [sdel EXCEPT ![e] = "prepared"]
  /\ sreq' = [sreq EXCEPT ![e] = r]
  /\ shigh' = [shigh EXCEPT ![e] = IF r > @ THEN r ELSE @]
  /\ UNCHANGED <<sphase, sorig, sinit, snext, sterm>>

\* route_matches: same request, same step
RouteMatches(e, ordinal, r) == r = sreq[e] /\ ordinal = snext[e]

LogSent(e, ordinal, r) ==
  /\ sok' = (/\ sok /\ sphase[e] = "active"
             /\ sdel[e] = "prepared" /\ RouteMatches(e, ordinal, r))
  /\ sdel' = [sdel EXCEPT ![e] = "sent"]
  /\ UNCHANGED <<sphase, sorig, sinit, snext, sreq, sterm, shigh>>

StepClosable(e, o) ==
  CASE o \in {"Success", "AppError"} -> sdel[e] = "sent"
    [] o = "NotSent"                 -> sdel[e] = "prepared"
    [] OTHER                         -> sdel[e] # "none"

\* StepSucceeded, StepFailed and StepUnknown
LogStep(e, ordinal, r, o) ==
  /\ sok' = (/\ sok /\ sphase[e] = "active"
             /\ StepClosable(e, o) /\ RouteMatches(e, ordinal, r))
  /\ sdel' = [sdel EXCEPT ![e] = "none"]
  /\ snext' = [snext EXCEPT ![e] = IF o = "Success" THEN @ - 1 ELSE @]
  /\ sterm' = [sterm EXCEPT ![e] = IF o = "Success" THEN @ ELSE o]
  /\ UNCHANGED <<sphase, sorig, sinit, sreq, shigh>>

LogFinished(e, o) ==
  /\ sok' = (/\ sok /\ sphase[e] = "active" /\ sdel[e] = "none"
             /\ \/ sterm[e] = "none" /\ snext[e] = 0 /\ o = "Success"
                \/ sterm[e] # "none" /\ sterm[e] = o)
  /\ sphase' = [sphase EXCEPT ![e] = o]
  /\ UNCHANGED <<sorig, sinit, snext, sdel, sreq, sterm, shigh>>
=============================================================================
