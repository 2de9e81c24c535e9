------------------------------ MODULE MCGroup ------------------------------
EXTENDS GroupGraph

To(n)      == [node |-> n, tag |-> 0]
ToTag(n, t) == [node |-> n, tag |-> t]

\* all: fork -> left and right -> join -> sink; only the left result is used
AllNode      == {"fork", "left", "right", "join", "sink", "end"}
AllKind      == [n \in AllNode |-> CASE n = "fork" -> "fork" [] n = "join" -> "join"
                                    [] n = "end" -> "end" [] OTHER -> "action"]
AllActionOf  == [n \in {"left", "right", "sink"} |-> n]
AllInput     == To("fork")
AllOnSuccess == [n \in {"left", "right", "sink"} |->
                   CASE n = "left" -> ToTag("join", 1) [] n = "right" -> ToTag("join", 2)
                     [] OTHER -> To("end")]
AllOnError   == [n \in {"left", "right", "sink"} |-> To("end")]
AllBranch    == [n \in {"fork"} |-> <<To("left"), To("right")>>]
AllJoinOut   == [n \in {"join"} |-> [k \in {1} |-> To("sink")]]
AllJoinSize  == [n \in {"join"} |-> 2]

\* each: a list of at most three items, two at a time, then sink; a list that
\* is not wanted is dispatched to sink at once
EachNode      == {"choose", "each", "item", "collect", "sink", "other", "end"}
EachKind      == [n \in EachNode |-> CASE n \in {"item", "sink", "other"} -> "action"
                    [] n = "choose" -> "dispatch" [] OTHER -> n]
EachActionOf  == [n \in {"item", "sink", "other"} |-> IF n = "item" THEN "item" ELSE "sink"]
EachInput     == To("choose")
EachCase      == [n \in {"choose"} |-> <<To("each"), To("other")>>]
EachOnSuccess == [n \in {"item", "sink", "other"} |->
                    IF n = "item" THEN To("collect") ELSE To("end")]
EachOnError   == [n \in {"item", "sink", "other"} |-> To("end")]
EachTemplate  == [n \in {"each"} |-> To("item")]
EachCollected == [n \in {"each"} |-> To("sink")]
EachTwo       == [n \in {"each"} |-> 2]
EachThree     == [n \in {"each"} |-> 3]

\* The graph of `all` is one that the theorems about such graphs speak of.
ASSUME AllIsOrdered == AllOnly => Ordered /\ ForksEnterActions

\* So is the graph of `each`.
ASSUME EachIsOneRegion == ~AllOnly => OneRegion

Nothing == [n \in {} |-> n]
=============================================================================
