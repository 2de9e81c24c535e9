------------------------------ MODULE MCImage ------------------------------
(* Node tables with the four terminals last; for each place of an edge     *)
(* table, the right record and the wrong ones worth telling apart.         *)
EXTENDS GraphImage

Action       == [kind |-> "action", size |-> 0]
Of(kind, n)  == [kind |-> kind, size |-> n]
Terminals    == [k \in 1 .. 4 |-> Of("terminal", k)]
E(from, source, to, target, tag) ==
  [kind |-> "edge", from |-> from, source |-> source, to |-> to, target |-> target, tag |-> tag]

Input(to, n)         == E("input", 0, to, n, 0)
Success(n, to, m, t) == E("success", n, to, m, t)
\* end: the node of the success terminal
Done(n, end)         == Success(n, "terminal", end, 0)
Failed(n, end)       == E("error", n, "terminal", end + 1, 0)
Lost(n, end)         == <<{E("not_sent", n, "terminal", end + 2, 0)},
                          {E("unknown", n, "terminal", end + 3, 0)}>>
Exit(n, end, success) == <<success, {Failed(n, end)}>> \o Lost(n, end)

\* four Actions in any order, with recovery, cycles and duplicates
Sequential ==
  LET after(n) == {Success(n, "action", m, 0) : m \in (1 .. 4) \ {n}} \cup {Done(n, 5)}
      body(n)  == <<after(n), {Failed(n, 5), E("error", n, "action", (n % 4) + 1, 0)}>> \o Lost(n, 5)
  IN [node   |-> <<Action, Action, Action, Action>> \o Terminals, region |-> <<>>,
      edge   |-> body(1) \o body(2) \o body(3) \o body(4)
                   \o <<{Input("action", n) : n \in 1 .. 4},
                        {Absent, Input("terminal", 5), Done(1, 5), E("unknown", 1, "action", 2, 0)}>>]

Match ==
  [node   |-> <<Of("dispatch", 2), Action, Action>> \o Terminals, region |-> <<>>,
   edge   |-> <<{Input("dispatch", 1), Input("action", 2)},
                {E("case", 1, "action", 2, 0), E("case", 1, "terminal", 4, 0)},
                {E("case", 1, "action", 3, 1), E("case", 1, "action", 2, 1),
                 E("case", 1, "action", 3, 2)}>>
              \o Exit(2, 4, {Done(2, 4), Success(2, "action", 3, 0)})
              \o Exit(3, 4, {Done(3, 4), Success(3, "dispatch", 1, 0)})]

\* fork 1, branches 2 and 3, join 4, then 5; with or without a saga
All(regions, joins(_)) ==
  [node   |-> <<Of("fork", 2), Action, Action, Of("join", 2), Action>> \o Terminals,
   region |-> regions,
   edge   |-> <<{Input("fork", 1)}, {E("branch", 1, "action", 2, 0)},
                {E("branch", 1, "action", 3, 1)}>>
              \o Exit(2, 6, {Success(2, "join", 4, 0)})
              \o Exit(3, 6, {Success(3, "join", 4, 1)} \cup joins(3))
              \o <<{E("output", 4, "action", 5, 0)}, {Absent} \cup joins(4)>>
              \o Exit(5, 6, {Done(5, 6)} \cup joins(5))]
AnyJoin(n) == CASE n = 3 -> {Success(3, "join", 4, 0), Done(3, 6)}
                [] n = 4 -> {E("output", 4, "terminal", 6, 1), E("output", 4, "terminal", 6, 0)}
                [] n = 5 -> {Success(5, "join", 4, 1)}

\* 1, then for each item the template 2, then 3
Each1(bound) == [kind |-> "each", template |-> 2, concurrency |-> 2, bound |-> bound]
ForEach ==
  [node   |-> <<Action, Action, Action>> \o Terminals,
   region |-> <<{Each1(1), Each1(2), [Each1(2) EXCEPT !.template = 4]}, {Absent, Each1(2)}>>,
   edge   |-> <<{Input("action", 1), Input("each", 1)},
                {E("item", 1, "action", 2, 0), E("item", 1, "terminal", 4, 0)},
                {E("collected", 1, "action", 3, 0), E("collected", 1, "action", 3, 1)}>>
              \o Exit(1, 4, {Success(1, "each", 1, 0), Success(1, "each", 2, 0)})
              \o Exit(2, 4, {Success(2, "collect", 1, 0), Done(2, 4)})
              \o Exit(3, 4, {Done(3, 4), Success(3, "action", 2, 0), Success(3, "collect", 1, 0)})]

Step(n, k)  == [kind |-> "step", forward |-> n, ordinal |-> k]
Outcome(n)  == [kind |-> "outcome", forward |-> n]
Deadline(first, count, parent) ==
  [kind |-> "deadline", first |-> first, count |-> count, parent |-> parent]
Steps3 == <<{Step(2, 1)}, {Outcome(2)}, {Step(3, 2)}, {Outcome(3)}, {Step(5, 3)}, {Outcome(5)}>>

\* two Actions in sequence, deadlines and saga records in and out of order
Saga ==
  [node   |-> <<Action, Action>> \o Terminals,
   region |-> <<{Absent, Deadline(1, 6, 0), Deadline(1, 5, 0)},
                {Absent, Deadline(1, 2, 1), Deadline(2, 6, 1), Deadline(2, 1, 2)}>>
              \o [i \in 1 .. 4 |-> {Absent, Step(1, 1), Step(2, 1), Step(1, 2), Step(2, 2),
                                    Outcome(1), Outcome(2)}]
              \o <<{Absent, Deadline(1, 6, 0)}>>,
   edge   |-> <<{Input("action", 1)}>> \o Exit(1, 3, {Success(1, "action", 2, 0)})
              \o Exit(2, 3, {Done(2, 3)})]

BadNodes(node) == [node |-> node, region |-> <<>>, edge |-> <<{Input("action", 1)}>>]

MCFiles ==
  {Sequential, Match, All(<<>>, AnyJoin), All(Steps3, LAMBDA n : {}), ForEach, Saga,
   BadNodes(<<Action>> \o Tail(Terminals)), BadNodes(<<Of("fork", 1)>> \o Terminals),
   BadNodes(<<Action>> \o Terminals \o Terminals)}
=============================================================================
