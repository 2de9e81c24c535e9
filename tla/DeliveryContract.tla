-------------------------- MODULE DeliveryContract --------------------------
(***************************************************************************)
(* What Hermas promises about one delivery of an Action, independently of  *)
(* loops, sockets, journals and restarts: the invocation is offered to the *)
(* app at most once, the app runs it at most once and only if it was       *)
(* offered, and the one verdict that is ever recorded is honest - a known  *)
(* result is the result of a run, NotSent means that the app will never    *)
(* see the invocation, and only Unknown says nothing.                      *)
(***************************************************************************)
EXTENDS Integers

CONSTANTS Executions, Requests

VARIABLES
  sends,    \* how often the invocation was handed to the app's socket
  ran,      \* the app ran the Action for this invocation
  verdict   \* the closing fact, or none

contractVars == <<sends, ran, verdict>>

Verdict == {"Success", "AppError", "NotSent", "Unknown"}

Init ==
  /\ sends = [e \in Executions |-> [r \in Requests |-> 0]]
  /\ ran = [e \in Executions |-> [r \in Requests |-> FALSE]]
  /\ verdict = [e \in Executions |-> [r \in Requests |-> "none"]]

Offer(e, r) ==
  /\ sends[e][r] = 0
  /\ verdict[e][r] = "none"
  /\ sends' = [sends EXCEPT ![e][r] = 1]
  /\ UNCHANGED <<ran, verdict>>

Run(e, r) ==
  /\ sends[e][r] = 1
  /\ ~ran[e][r]
  /\ verdict[e][r] \in {"none", "Unknown"}
  /\ ran' = [ran EXCEPT ![e][r] = TRUE]
  /\ UNCHANGED <<sends, verdict>>

Settle(e, r, v) ==
  /\ verdict[e][r] = "none"
  /\ v \in {"Success", "AppError"} => ran[e][r]
  /\ v = "NotSent" => sends[e][r] = 0
  /\ verdict' = [verdict EXCEPT ![e][r] = v]
  /\ UNCHANGED <<sends, ran>>

Next ==
  \E e \in Executions, r \in Requests :
    \/ Offer(e, r)
    \/ Run(e, r)
    \/ \E v \in Verdict : Settle(e, r, v)

Spec == Init /\ [][Next]_contractVars
=============================================================================
