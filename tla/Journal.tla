------------------------------ MODULE Journal ------------------------------
(***************************************************************************)
(* The execution journal (src/src/journal.c, src/src/journal_linux.c).     *)
(*                                                                         *)
(* The journal is an append-only file that is scanned from the start       *)
(* whenever the daemon opens it.  The writer checks the fields of one      *)
(* record; only the scan checks that the records follow each other.  The   *)
(* model keeps, instead of the sequence of records, what the scanner has   *)
(* accumulated when it has read them all, and in jok whether the scanner   *)
(* would have accepted every one of them: scanning is a left fold, so the  *)
(* accumulated value is updated at the append.  A record that the scanner  *)
(* refuses is nevertheless in the file and changes the other variables.    *)
(*                                                                         *)
(* Checksums and the constant workflow and image identities are left out:  *)
(* one writer produces them and they never disagree.  Of the sequence      *)
(* numbers it matters only whether the last record is one the writer has   *)
(* counted.  The route (node, app, action) of a delivery is a function of  *)
(* its request id, which is what identifies the delivery here.             *)
(***************************************************************************)
EXTENDS Integers, FiniteSets

CONSTANTS
  MaxExecId,       \* stands for UINT64_MAX as an execution id, never admitted
  MaxReqId,        \* stands for UINT64_MAX as a request id
  MaxInterrupted,  \* HERMAS_JOURNAL_MAX_INTERRUPTED
  MaxOpen          \* HERMAS_JOURNAL_MAX_OPEN_DELIVERIES

ASSUME JournalAssumption ==
  /\ MaxExecId \in Nat /\ MaxExecId > 1
  /\ MaxReqId \in Nat \ {0}
  /\ MaxInterrupted \in Nat \ {0}
  /\ MaxOpen \in Nat \ {0}

VARIABLES
  jok,     \* the scanner accepts every record of the file
  jtail,   \* how the file ends: in a whole record, in a torn one, or in a
           \* whole record that the writer was told had failed (unsynced)
  jlast,   \* largest_started_id: the largest id of an ExecutionStarted
  jphase,  \* per execution: absent, open, or the outcome of ExecutionFinished
  jdel,    \* per execution and request: the delivery's last record
  jhi,     \* largest_request_id of the execution
  jagg     \* terminal_outcome aggregated from the closing Action facts

journalVars == <<jok, jtail, jlast, jphase, jdel, jhi, jagg>>

Exec == 1 .. (MaxExecId - 1)
Req  == 1 .. MaxReqId

Outcome  == {"Success", "AppError", "NotSent", "Unknown"}
Phase    == {"absent", "open"} \cup Outcome
Delivery == {"none", "prepared", "sent"} \cup Outcome

\* outcome_precedence; an execution without an Action outcome has none.
Precedence(o) ==
  CASE o = "Unknown"  -> 4
    [] o = "AppError" -> 3
    [] o = "NotSent"  -> 2
    [] o = "Success"  -> 1
    [] OTHER          -> 0

Stronger(o, p) == IF Precedence(o) > Precedence(p) THEN o ELSE p

IsOpen(e, r)   == jdel[e][r] \in {"prepared", "sent"}
OpenOf(e)      == {r \in Req : IsOpen(e, r)}
Unfinished     == {e \in Exec : jphase[e] = "open"}

JournalTypeOK ==
  /\ jok \in BOOLEAN
  /\ jtail \in {"whole", "torn", "unsynced"}
  /\ jlast \in 0 .. (MaxExecId - 1)
  /\ jphase \in [Exec -> Phase]
  /\ jdel \in [Exec -> [Req -> Delivery]]
  /\ jhi \in [Exec -> 0 .. MaxReqId]
  /\ jagg \in [Exec -> Outcome \cup {"none"}]

JournalInit ==
  /\ jok = TRUE
  /\ jtail = "whole"
  /\ jlast = 0
  /\ jphase = [e \in Exec |-> "absent"]
  /\ jdel = [e \in Exec |-> [r \in Req |-> "none"]]
  /\ jhi = [e \in Exec |-> 0]
  /\ jagg = [e \in Exec |-> "none"]

-----------------------------------------------------------------------------
(***************************************************************************)
(* One action per record kind: what scan_transition requires of the record *)
(* goes into jok', what it accumulates into the other variables.           *)
(*                                                                         *)
(* The writer counts a record only when it was written and synchronized.   *)
(* After a failed append the file ends in bytes that the writer has not    *)
(* counted, so the record it appends next starts at an odd place or repeats*)
(* a sequence number, and the scan refuses it.                             *)
(***************************************************************************)

Sound == jok /\ jtail = "whole"

AppendStarted(e, tail) ==
  /\ jok' = (/\ Sound
             /\ jphase[e] # "open"
             /\ e > jlast
             /\ Cardinality(Unfinished) < MaxInterrupted)
  /\ jlast' = IF e > jlast THEN e ELSE jlast
  /\ jphase' = [jphase EXCEPT ![e] = "open"]
  /\ jtail' = tail
  /\ UNCHANGED <<jdel, jhi, jagg>>

AppendPrepared(e, r) ==
  /\ jok' = (/\ Sound
             /\ jphase[e] = "open"
             /\ Cardinality(OpenOf(e)) < MaxOpen
             /\ r > jhi[e])
  /\ jdel' = [jdel EXCEPT ![e][r] = "prepared"]
  /\ jhi' = [jhi EXCEPT ![e] = r]
  /\ UNCHANGED <<jtail, jlast, jphase, jagg>>

AppendSent(e, r) ==
  /\ jok' = (Sound /\ jphase[e] = "open" /\ jdel[e][r] = "prepared")
  /\ jdel' = [jdel EXCEPT ![e][r] = "sent"]
  /\ UNCHANGED <<jtail, jlast, jphase, jhi, jagg>>

\* ActionSucceeded, ActionFailed and ActionUnknown close the delivery.
Closable(e, r, o) ==
  CASE o \in {"Success", "AppError"} -> jdel[e][r] = "sent"
    [] o = "NotSent"                 -> jdel[e][r] = "prepared"
    [] OTHER                         -> IsOpen(e, r)

AppendClosing(e, r, o) ==
  /\ jok' = (Sound /\ jphase[e] = "open" /\ Closable(e, r, o))
  /\ jdel' = [jdel EXCEPT ![e][r] = o]
  /\ jagg' = [jagg EXCEPT ![e] = Stronger(o, @)]
  /\ UNCHANGED <<jtail, jlast, jphase, jhi>>

AppendFinished(e, o) ==
  /\ jok' = (/\ Sound
             /\ jphase[e] = "open"
             /\ OpenOf(e) = {}
             /\ IF jagg[e] = "none" THEN o = "Unknown" ELSE o = jagg[e])
  /\ jphase' = [jphase EXCEPT ![e] = o]
  /\ UNCHANGED <<jtail, jlast, jdel, jhi, jagg>>
=============================================================================
