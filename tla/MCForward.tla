----------------------------- MODULE MCForward -----------------------------
EXTENDS ForwardLoop

\* first -> second, which is also the recovery Action of first; one app for both
MCNode       == {"first", "second"}
MCActionOf   == [n \in MCNode |-> "both"]
MCOnSuccess  == [n \in MCNode |-> IF n = "first" THEN {"second"} ELSE {"end"}]
MCOnAppError == [n \in MCNode |-> IF n = "first" THEN {"second"} ELSE {"end"}]
=============================================================================
