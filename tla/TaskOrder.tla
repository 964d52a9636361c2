------------------------------ MODULE TaskOrder ------------------------------
(***************************************************************************)
(* The two depth-first searches of TaskController.ts over a graph g that   *)
(* maps every task to its prerequisites: validateNoCycles, which colours   *)
(* the tasks and throws at a cycle, and getTopologicalOrder.               *)
(*                                                                         *)
(* The recursive functions dfs and visit are taken step by step: a.calls   *)
(* are the calls that have not returned, the innermost last, each with the *)
(* prerequisites it has still to look at.  In the code a search goes       *)
(* through its tasks in the order of the maps; here the order is any fixed *)
(* one.                                                                    *)
(***************************************************************************)
EXTENDS Naturals, Sequences, FiniteSets

\* order is what visit has pushed, cycle the path of DependencyCycleError.
Untouched(g) == [calls |-> <<>>, colour |-> [t \in DOMAIN g |-> "WHITE"],
                 order |-> <<>>, cycle |-> <<>>]

\* dfs(u) or visit(u) is called.
Call(g, a, u) == [a EXCEPT !.calls = Append(@, [of |-> u, todo |-> g[u]]),
                           !.colour[u] = "GRAY"]

\* The innermost call returns.
Return(a) ==
    LET n == Len(a.calls)
        u == a.calls[n].of
    IN  [a EXCEPT !.calls = SubSeq(@, 1, n - 1), !.colour[u] = "BLACK",
                  !.order = Append(@, u)]

\* The tasks on the stack from v on, and v again.
CyclePath(calls, v) ==
    LET n == Len(calls)
        from == CHOOSE i \in 1..n : calls[i].of = v
    IN  [i \in 1..n - from + 2 |-> IF i = n - from + 2 THEN v ELSE calls[from + i - 1].of]

\* Faulty variant of Follow: a call that has returned counts as one that has not.
FollowSeen(g, throws, a) ==
    LET n == Len(a.calls)
        v == CHOOSE t \in a.calls[n].todo : TRUE
        rest == [a EXCEPT !.calls[n].todo = @ \ {v}]
    IN  CASE a.colour[v] = "WHITE" -> Call(g, rest, v)
          [] throws /\ a.colour[v] # "WHITE" -> [rest EXCEPT !.cycle = <<v>>]
          [] OTHER -> rest

\* The innermost call looks at its next prerequisite; only dfs throws.
Follow(g, throws, a) ==
    LET n == Len(a.calls)
        v == CHOOSE t \in a.calls[n].todo : TRUE
        rest == [a EXCEPT !.calls[n].todo = @ \ {v}]
    IN  CASE a.colour[v] = "WHITE" -> Call(g, rest, v)
          [] throws /\ a.colour[v] = "GRAY" -> [rest EXCEPT !.cycle = CyclePath(a.calls, v)]
          [] OTHER -> rest

Step(g, throws, a) ==
    LET white == {t \in DOMAIN g : a.colour[t] = "WHITE"}
        n == Len(a.calls)
    IN  CASE a.cycle # <<>>                  -> a
          [] a.cycle = <<>> /\ n = 0         -> IF white = {} THEN a
                                                ELSE Call(g, a, CHOOSE t \in white : TRUE)
          [] a.cycle = <<>> /\ n > 0         -> IF a.calls[n].todo = {} THEN Return(a)
                                                ELSE Follow(g, throws, a)

\* Each task is entered and left once and each prerequisite looked at once, so
\* by then the search is over.
StepsOf(g) == Cardinality(DOMAIN g) * (Cardinality(DOMAIN g) + 2)

Search(g, throws) ==
    LET after[k \in 0..StepsOf(g)] ==
            IF k = 0 THEN Untouched(g) ELSE Step(g, throws, after[k - 1])
    IN  after[StepsOf(g)]

FoundCycle(g) == Search(g, TRUE).cycle
FindsCycle(g) == FoundCycle(g) # <<>>

TopologicalOrder(g) == Search(g, FALSE).order

-----------------------------------------------------------------------------
\* A finite graph has a cycle exactly when some of its nodes each have a
\* successor among themselves.
Cyclic(g) ==
    \E S \in SUBSET DOMAIN g :
        /\ S # {}
        /\ \A t \in S : \E p \in S : p \in g[t]

\* An order of all tasks, each once and after its prerequisites.
IsOrderOf(order, g) ==
    /\ {order[i] : i \in DOMAIN order} = DOMAIN g
    /\ \A i, j \in DOMAIN order : order[i] = order[j] => i = j
    /\ \A i, j \in DOMAIN order : order[i] \in g[order[j]] => i < j

\* A path back to its first task.
IsCycleOf(path, g) ==
    /\ Len(path) > 1 /\ path[1] = path[Len(path)]
    /\ \A i \in 1..Len(path) - 1 : path[i] \in DOMAIN g /\ path[i + 1] \in g[path[i]]
=============================================================================
