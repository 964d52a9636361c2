---------------------------- MODULE Search_proofs ----------------------------
(***************************************************************************)
(* What the searches compute, for every finite graph.                      *)
(*                                                                         *)
(* A search is a step repeated from a first state.  The argument is the    *)
(* one made for state machines: the states of the search keep an           *)
(* invariant, and a measure of what is left to do falls with every step    *)
(* until the search is over.  Iteration is reasoned about with the least   *)
(* counterexample.                                                         *)
(***************************************************************************)
EXTENDS TaskOrder, GraphQuery, FiniteSetTheorems, NaturalsInduction, WellFoundedInduction, TLAPS

LEMMA LeastExists ==
  ASSUME NEW S \in SUBSET Nat, S # {}
  PROVE  \E x \in S : \A y \in S : x <= y
<1>1. PICK x \in S : \A y \in S : <<y, x>> \notin OpToRel(<, Nat)
  BY NatLessThanWellFounded, WFMin
<1>2. ASSUME NEW y \in S PROVE x <= y
  <2>1. x \in Nat /\ y \in Nat
    OBVIOUS
  <2>2. ~(y < x)
    BY <1>1, <2>1 DEF OpToRel
  <2> QED BY <2>1, <2>2
<1> QED BY <1>2

\* What holds at 0 and from each number to the next holds up to N.
LEMMA UpTo ==
  ASSUME NEW N \in Nat, NEW S \in SUBSET Nat, 0 \in S,
         \A n \in 1..N : n - 1 \in S => n \in S
  PROVE  \A n \in 0..N : n \in S
<1> DEFINE Off == {n \in 0..N : n \notin S}
<1> SUFFICES ASSUME Off # {} PROVE FALSE
  OBVIOUS
<1>1. PICK n \in Off : \A m \in Off : n <= m
  <2>1. Off \in SUBSET Nat
    OBVIOUS
  <2> HIDE DEF Off
  <2> QED BY <2>1, LeastExists
<1>2. n \in 1..N /\ n - 1 \in 0..N /\ ~(n <= n - 1)
  BY <1>1
<1>3. n - 1 \in S
  BY <1>1, <1>2
<1> QED BY <1>1, <1>2, <1>3

-----------------------------------------------------------------------------
(***************************************************************************)
(* Iteration.                                                              *)
(***************************************************************************)

\* h is N steps of F from start, within S.
IsRun(h, S, F, start, N) ==
    h \in [0..N -> S] /\ h[0] = start /\ \A n \in 1..N : h[n] = F[h[n - 1]]

\* h takes the steps of F as long as it stays in S.
FollowsIn(h, S, F, start, N) ==
    h[0] = start /\ \A n \in 1..N : h[n - 1] \in S => h[n] = F[h[n - 1]]

\* left falls with every step of F that is not from over, where F stays.
EndsIn(over, left, S, F) ==
    /\ over \in SUBSET S /\ \A s \in over : F[s] = s
    /\ left \in [S -> Nat] /\ \A s \in S \ over : left[F[s]] < left[s]

LEMMA IterationExists ==
  ASSUME NEW S, NEW F \in [S -> S], NEW start \in S, NEW N \in Nat
  PROVE  \E h : IsRun(h, S, F, start, N)
<1> DEFINE Runs(h, k) == h[0] = start /\ \A n \in 1..k : h[n] = F[h[n - 1]]
           Up == {k \in Nat : \E h \in [0..k -> S] : Runs(h, k)}
<1>1. 0 \in Up
  <2>1. [n \in 0..0 |-> start] \in [0..0 -> S]
    OBVIOUS
  <2>2. Runs([n \in 0..0 |-> start], 0)
    OBVIOUS
  <2> QED BY <2>1, <2>2
<1>2. ASSUME NEW k \in 1..N, k - 1 \in Up PROVE k \in Up
  <2>1. PICK h \in [0..k - 1 -> S] : Runs(h, k - 1)
    BY <1>2
  <2> DEFINE more == [n \in 0..k |-> IF n = k THEN F[h[k - 1]] ELSE h[n]]
  <2>2. \A n \in 0..k : n # k => n \in 0..k - 1
    OBVIOUS
  <2>3. h[k - 1] \in S
    BY <2>1
  <2>4. more \in [0..k -> S]
    BY <2>1, <2>2, <2>3
  <2>5. \A n \in 1..k : n - 1 \in 0..k /\ n - 1 # k /\ (n # k => n \in 1..k - 1)
    OBVIOUS
  <2>6. more[0] = start
    BY <2>1
  <2>7. ASSUME NEW n \in 1..k PROVE more[n] = F[more[n - 1]]
    <3>1. more[n - 1] = h[n - 1]
      BY <2>5
    <3>2. CASE n = k
      BY <3>1, <3>2
    <3>3. CASE n # k
      BY <3>1, <3>3, <2>1, <2>5
    <3> QED BY <3>2, <3>3
  <2>8. Runs(more, k)
    BY <2>6, <2>7
  <2>9. k \in Nat
    OBVIOUS
  <2> HIDE DEF more, Runs
  <2> QED BY <2>4, <2>8, <2>9
<1>3. \A k \in 0..N : k \in Up
  <2>1. Up \in SUBSET Nat
    OBVIOUS
  <2> HIDE DEF Up
  <2> QED BY <1>1, <1>2, <2>1, UpTo
<1>4. N \in Up
  <2> HIDE DEF Up
  <2> QED BY <1>3
<1> QED BY <1>4 DEF IsRun

\* While a measure falls with every step of what is not over, enough steps end it.
LEMMA IterationEnds ==
  ASSUME NEW S, NEW F \in [S -> S], NEW start \in S, NEW N \in Nat,
         NEW over, NEW left, EndsIn(over, left, S, F), left[start] <= N,
         NEW h, FollowsIn(h, S, F, start, N)
  PROVE  h[N] \in over
<1> DEFINE Fine == {n \in 0..N : /\ h[n] \in S
                                 /\ h[n] \in over \/ left[h[n]] + n <= left[start]}
<1>0. /\ over \in SUBSET S /\ (\A s \in over : F[s] = s)
      /\ left \in [S -> Nat] /\ (\A s \in S \ over : left[F[s]] < left[s])
      /\ h[0] = start /\ \A n \in 1..N : h[n - 1] \in S => h[n] = F[h[n - 1]]
  BY DEF EndsIn, FollowsIn
<1>1. 0 \in Fine
  BY <1>0, SMT
<1>2. ASSUME NEW n \in 1..N, n - 1 \in Fine PROVE n \in Fine
  <2>1. h[n - 1] \in S /\ h[n] = F[h[n - 1]] /\ h[n] \in S
    BY <1>0, <1>2
  <2>2. CASE h[n - 1] \in over
    BY <1>0, <2>1, <2>2
  <2>3. CASE h[n - 1] \notin over
    <3>1. left[h[n]] < left[h[n - 1]] /\ left[h[n]] \in Nat /\ left[h[n - 1]] \in Nat
      BY <1>0, <2>1, <2>3
    <3>2. left[h[n - 1]] + (n - 1) <= left[start] /\ left[start] \in Nat
      BY <1>0, <1>2, <2>3
    <3> QED BY <2>1, <3>1, <3>2
  <2> QED BY <2>2, <2>3
<1>3. N \in Fine
  <2>1. Fine \in SUBSET Nat
    OBVIOUS
  <2>2. N \in 0..N
    OBVIOUS
  <2> HIDE DEF Fine
  <2> QED BY <1>1, <1>2, <2>1, <2>2, UpTo
<1>4. CASE h[N] \notin over
  <2>1. h[N] \in S /\ left[h[N]] + N <= left[start] /\ left[start] <= N
    BY <1>3, <1>4
  <2>2. left[F[h[N]]] < left[h[N]] /\ left[F[h[N]]] \in Nat /\ left[h[N]] \in Nat
    BY <1>0, <2>1, <1>4
  <2>3. left[start] \in Nat
    BY <1>0
  <2> QED BY <2>1, <2>2, <2>3
<1> QED BY <1>4

-----------------------------------------------------------------------------
(***************************************************************************)
(* The depth-first searches of TaskOrder.                                  *)
(***************************************************************************)

IsGraph(g) == IsFiniteSet(DOMAIN g) /\ \A t \in DOMAIN g : g[t] \subseteq DOMAIN g

Colours == {"WHITE", "GRAY", "BLACK"}
SearchStates(g) ==
    [calls : Seq([of : DOMAIN g, todo : SUBSET DOMAIN g]), colour : [DOMAIN g -> Colours],
     order : Seq(DOMAIN g), cycle : Seq(DOMAIN g)]

\* The calls that have not returned are those of the gray tasks, each called by
\* the one before it.
CallsInv(g, a) ==
    /\ \A i \in 1..Len(a.calls) : a.calls[i].todo \subseteq g[a.calls[i].of]
    /\ \A i, j \in 1..Len(a.calls) : a.calls[i].of = a.calls[j].of => i = j
    /\ \A i \in 1..Len(a.calls) - 1 : a.calls[i + 1].of \in g[a.calls[i].of]
    /\ \A u \in DOMAIN g :
          a.colour[u] = "GRAY" <=> \E i \in 1..Len(a.calls) : a.calls[i].of = u

\* What has been pushed are the black tasks, each once.
PushedInv(g, a) ==
    /\ \A i, j \in 1..Len(a.order) : a.order[i] = a.order[j] => i = j
    /\ \A u \in DOMAIN g : a.colour[u] = "BLACK" <=> \E i \in 1..Len(a.order) : a.order[i] = u

\* As long as no cycle has been met, what a call has looked at is black, but for
\* the task it has called, and what has been pushed comes after its prerequisites.
NoneMet(g, a) ==
    /\ \A i \in 1..Len(a.calls) : \A v \in g[a.calls[i].of] \ a.calls[i].todo :
          a.colour[v] = "BLACK" \/ (i < Len(a.calls) /\ v = a.calls[i + 1].of)
    /\ \A j \in 1..Len(a.order) : \A v \in g[a.order[j]] :
          \E i \in 1..Len(a.order) : i < j /\ a.order[i] = v

CycleInv(g, throws, a) ==
    /\ ~throws => a.cycle = <<>>
    /\ IF a.cycle = <<>> THEN throws \/ ~Cyclic(g) => NoneMet(g, a)
       ELSE IsCycleOf(a.cycle, g)

DfsInv(g, throws, a) ==
    a \in SearchStates(g) /\ CallsInv(g, a) /\ PushedInv(g, a) /\ CycleInv(g, throws, a)

Over(g, a) ==
    a.cycle # <<>> \/ (a.calls = <<>> /\ \A t \in DOMAIN g : a.colour[t] # "WHITE")

-----------------------------------------------------------------------------
\* A path that comes back to its first task shows a cycle.
LEMMA CyclesClose ==
  ASSUME NEW g, NEW path, IsCycleOf(path, g), Len(path) \in Nat
  PROVE  Cyclic(g)
<1> DEFINE S == {path[i] : i \in 1..Len(path) - 1}
<1>1. S \in SUBSET DOMAIN g
  BY DEF IsCycleOf
<1>2. path[1] \in S
  BY DEF IsCycleOf
<1>3. ASSUME NEW t \in S PROVE \E p \in S : p \in g[t]
  <2>1. PICK i \in 1..Len(path) - 1 : t = path[i]
    BY <1>3
  <2>2. path[i + 1] \in g[t]
    BY <2>1 DEF IsCycleOf
  <2>3. CASE i + 1 = Len(path)
    BY <2>2, <2>3, <1>2 DEF IsCycleOf
  <2>4. CASE i + 1 # Len(path)
    <3>1. i + 1 \in 1..Len(path) - 1
      BY <2>1, <2>4
    <3> QED BY <2>2, <3>1
  <2> QED BY <2>3, <2>4
<1> HIDE DEF S
<1> QED BY <1>1, <1>2, <1>3 DEF Cyclic

\* An order after the prerequisites leaves room for no cycle.
LEMMA OrderedIsAcyclic ==
  ASSUME NEW g, NEW order \in Seq(DOMAIN g), IsOrderOf(order, g)
  PROVE  ~Cyclic(g)
<1> SUFFICES ASSUME NEW S \in SUBSET DOMAIN g, S # {},
                    \A t \in S : \E p \in S : p \in g[t]
             PROVE FALSE
  BY DEF Cyclic
<1> DEFINE Spots == {i \in DOMAIN order : order[i] \in S}
<1>1. DOMAIN order = 1..Len(order) /\ Len(order) \in Nat
  OBVIOUS
<1>2. \A t \in S : \E i \in DOMAIN order : order[i] = t
  BY DEF IsOrderOf
<1>3. PICK j \in Spots : \A i \in Spots : j <= i
  <2>1. Spots \in SUBSET Nat /\ Spots # {}
    BY <1>1, <1>2
  <2> HIDE DEF Spots
  <2> QED BY <2>1, LeastExists
<1>4. PICK p \in S : p \in g[order[j]]
  BY <1>3
<1>5. PICK i \in DOMAIN order : order[i] = p
  BY <1>2
<1>6. i < j
  BY <1>3, <1>4, <1>5 DEF IsOrderOf
<1>7. i \in Spots
  BY <1>5
<1> QED BY <1>1, <1>3, <1>6, <1>7

-----------------------------------------------------------------------------
\* What each step does.
Frames(g) == [of : DOMAIN g, todo : SUBSET DOMAIN g]

LEMMA StateFields ==
  ASSUME NEW g, NEW a \in SearchStates(g)
  PROVE  /\ a.calls \in Seq(Frames(g)) /\ Len(a.calls) \in Nat
         /\ a.order \in Seq(DOMAIN g) /\ Len(a.order) \in Nat
         /\ a.colour \in [DOMAIN g -> Colours] /\ a.cycle \in Seq(DOMAIN g)
         /\ \A i \in 1..Len(a.calls) : /\ a.calls[i] \in Frames(g)
                                       /\ a.calls[i].of \in DOMAIN g
                                       /\ a.calls[i].todo \subseteq DOMAIN g
         /\ \A i \in 1..Len(a.order) : a.order[i] \in DOMAIN g
<1> DEFINE calls == a.calls
           order == a.order
<1>1. calls \in Seq(Frames(g)) /\ order \in Seq(DOMAIN g)
  BY DEF SearchStates, Frames
<1>2. a.colour \in [DOMAIN g -> Colours] /\ a.cycle \in Seq(DOMAIN g)
  BY DEF SearchStates
<1> HIDE DEF calls, order
<1>3. Len(calls) \in Nat /\ \A i \in 1..Len(calls) : calls[i] \in Frames(g)
  BY <1>1
<1>4. Len(order) \in Nat /\ \A i \in 1..Len(order) : order[i] \in DOMAIN g
  BY <1>1
<1>5. \A f \in Frames(g) : f.of \in DOMAIN g /\ f.todo \subseteq DOMAIN g
  BY DEF Frames
<1> QED BY <1>1, <1>2, <1>3, <1>4, <1>5 DEF calls, order

LEMMA DfsCallKeeps ==
  ASSUME NEW g, IsGraph(g), NEW throws \in BOOLEAN, NEW a, DfsInv(g, throws, a), a.cycle = <<>>,
         NEW u \in DOMAIN g, a.colour[u] = "WHITE",
         NEW c \in Seq(Frames(g)), Len(c) = Len(a.calls),
         \A i \in 1..Len(c) : c[i].of = a.calls[i].of,
         \A i \in 1..Len(c) : c[i].todo = IF i = Len(c) THEN a.calls[i].todo \ {u}
                                          ELSE a.calls[i].todo,
         Len(c) > 0 => u \in a.calls[Len(c)].todo
  PROVE  DfsInv(g, throws, Call(g, [a EXCEPT !.calls = c], u))
<1> DEFINE b == Call(g, [a EXCEPT !.calls = c], u)
           n == Len(c)
           frame == [of |-> u, todo |-> g[u]]
<1>1. a \in SearchStates(g)
  BY DEF DfsInv
<1>2. frame \in Frames(g)
  BY DEF Frames, IsGraph
<1>3. /\ b.calls = Append(c, frame) /\ b.colour = [a.colour EXCEPT ![u] = "GRAY"]
      /\ b.order = a.order /\ b.cycle = <<>>
      /\ b = [calls |-> b.calls, colour |-> b.colour, order |-> a.order, cycle |-> <<>>]
  <2> DEFINE d == [a EXCEPT !.calls = c]
  <2>1. /\ d.calls = c /\ d.colour = a.colour /\ d.order = a.order /\ d.cycle = <<>>
        /\ d = [calls |-> c, colour |-> a.colour, order |-> a.order, cycle |-> <<>>]
    BY <1>1 DEF SearchStates
  <2> HIDE DEF d
  <2>2. b = [d EXCEPT !.calls = Append(@, frame), !.colour[u] = "GRAY"]
    BY DEF Call, b, d
  <2> HIDE DEF b, frame
  <2>3. b = [calls |-> Append(c, frame), colour |-> [a.colour EXCEPT ![u] = "GRAY"],
             order |-> a.order, cycle |-> <<>>]
    BY <2>1, <2>2
  <2> QED BY <2>3
<1> HIDE DEF b, frame
<1>4. /\ b.calls \in Seq(Frames(g)) /\ n \in Nat /\ Len(b.calls) = n + 1
      /\ \A i \in 1..n : b.calls[i] = c[i]
      /\ b.calls[n + 1] = frame
  BY <1>2, <1>3
<1>14. /\ n = Len(a.calls)
       /\ \A i \in 1..n : c[i].of = a.calls[i].of /\ c[i].todo \subseteq a.calls[i].todo
  OBVIOUS
<1> HIDE DEF n
<1>5. b \in SearchStates(g)
  <2>1. b.colour \in [DOMAIN g -> Colours]
    BY <1>1, <1>3, StateFields DEF Colours
  <2> QED BY <1>1, <1>3, <1>4, <2>1 DEF SearchStates, Frames
<1>6. frame.of = u /\ frame.todo = g[u]
  BY DEF frame
<1>7. /\ \A v \in DOMAIN g : v # u => b.colour[v] = a.colour[v]
      /\ b.colour[u] = "GRAY"
  BY <1>1, <1>3, StateFields
<1>8. \A i \in 1..n + 1 : i = n + 1 \/ i \in 1..n
  BY <1>4
<1>9. \A i \in 1..n : a.calls[i].of # u
  BY <1>1 DEF DfsInv, CallsInv, n
<1>10. CallsInv(g, b)
  <2>1. \A i \in 1..n + 1 : b.calls[i].todo \subseteq g[b.calls[i].of]
    <3>1. \A i \in 1..n : a.calls[i].todo \subseteq g[a.calls[i].of]
      BY <1>14 DEF DfsInv, CallsInv
    <3> TAKE i \in 1..n + 1
    <3>2. CASE i = n + 1
      BY <3>2, <1>4, <1>6
    <3>3. CASE i \in 1..n
      <4>1. b.calls[i] = c[i] /\ c[i].of = a.calls[i].of /\ c[i].todo \subseteq a.calls[i].todo
        BY <3>3, <1>4, <1>14
      <4> QED BY <3>1, <3>3, <4>1
    <3> QED BY <3>2, <3>3, <1>8
  <2>2. \A i, j \in 1..n + 1 : b.calls[i].of = b.calls[j].of => i = j
    <3>1. \A i, j \in 1..n : a.calls[i].of = a.calls[j].of => i = j
      BY <1>14 DEF DfsInv, CallsInv
    <3>2. \A i \in 1..n : b.calls[i].of = a.calls[i].of
      BY <1>4, <1>14
    <3>3. b.calls[n + 1].of = u
      BY <1>4, <1>6
    <3> QED BY <3>1, <3>2, <3>3, <1>8, <1>9
  <2>3. ASSUME NEW i \in 1..n PROVE b.calls[i + 1].of \in g[b.calls[i].of]
    <3>1. CASE i = n
      <4>1. u \in a.calls[n].todo /\ n \in 1..n
        BY <3>1, <1>4 DEF n
      <4>2. u \in g[a.calls[n].of]
        BY <4>1 DEF DfsInv, CallsInv, n
      <4> QED BY <3>1, <4>1, <4>2, <1>4, <1>6 DEF n
    <3>2. CASE i # n
      <4>1. i \in 1..n - 1 /\ i + 1 \in 1..n
        BY <3>2, <1>4
      <4>2. a.calls[i + 1].of \in g[a.calls[i].of]
        BY <4>1, <1>14 DEF DfsInv, CallsInv
      <4> QED BY <4>1, <4>2, <1>4, <1>14
    <3> QED BY <3>1, <3>2
  <2>4. ASSUME NEW v \in DOMAIN g
        PROVE  b.colour[v] = "GRAY" <=> \E i \in 1..n + 1 : b.calls[i].of = v
    <3>1. a.colour[v] = "GRAY" <=> \E i \in 1..n : c[i].of = v
      BY DEF DfsInv, CallsInv, n
    <3>2. n + 1 \in 1..n + 1 /\ \A i \in 1..n : i \in 1..n + 1
      BY <1>4
    <3> QED BY <3>1, <3>2, <1>4, <1>6, <1>7, <1>8
  <2>5. n + 1 - 1 = n
    BY <1>4
  <2> QED BY <2>1, <2>2, <2>3, <2>4, <2>5, <1>4 DEF CallsInv
<1>11. PushedInv(g, b)
  BY <1>3, <1>7 DEF DfsInv, PushedInv
<1>12. ASSUME NoneMet(g, a) PROVE NoneMet(g, b)
  <2>1. ASSUME NEW i \in 1..n + 1, NEW v \in g[b.calls[i].of] \ b.calls[i].todo
        PROVE  b.colour[v] = "BLACK" \/ (i < n + 1 /\ v = b.calls[i + 1].of)
    <3>1. i \in 1..n
      BY <2>1, <1>4, <1>6, <1>8
    <3>2. c[i].of \in DOMAIN g /\ v \in DOMAIN g
      BY <3>1, <2>1, <1>1, <1>4, StateFields DEF IsGraph, n
    <3>3. CASE v = u /\ i = n
      BY <3>3, <1>4, <1>6
    <3>4. CASE ~(v = u /\ i = n)
      <4>1. v \in g[a.calls[i].of] \ a.calls[i].todo
        BY <3>1, <3>4, <2>1, <1>4 DEF n
      <4>2. a.colour[v] = "BLACK" \/ (i < n /\ v = a.calls[i + 1].of)
        BY <4>1, <3>1, <1>12 DEF NoneMet, n
      <4>3. a.colour[v] = "BLACK" => b.colour[v] = "BLACK"
        BY <3>2, <1>7
      <4>4. i < n => i + 1 \in 1..n
        BY <3>1, <1>4
      <4> QED BY <4>2, <4>3, <4>4, <3>1, <1>4 DEF n
    <3> QED BY <3>3, <3>4
  <2> QED BY <2>1, <1>3, <1>4, <1>12 DEF NoneMet
<1>13. CycleInv(g, throws, b)
  BY <1>3, <1>12 DEF DfsInv, CycleInv
<1> QED BY <1>5, <1>10, <1>11, <1>13 DEF DfsInv, b

LEMMA DfsReturnKeeps ==
  ASSUME NEW g, IsGraph(g), NEW throws \in BOOLEAN, NEW a, DfsInv(g, throws, a), a.cycle = <<>>,
         Len(a.calls) > 0, a.calls[Len(a.calls)].todo = {}
  PROVE  DfsInv(g, throws, Return(a))
<1> DEFINE b == Return(a)
           n == Len(a.calls)
           m == Len(a.order)
           u == a.calls[n].of
<1>1. a \in SearchStates(g)
  BY DEF DfsInv
<1>2. n \in Nat /\ n > 0 /\ n \in 1..n /\ u \in DOMAIN g /\ m \in Nat
  BY <1>1, StateFields
<1>3. /\ b.calls = SubSeq(a.calls, 1, n - 1) /\ b.colour = [a.colour EXCEPT ![u] = "BLACK"]
      /\ b.order = Append(a.order, u) /\ b.cycle = <<>>
      /\ b = [calls |-> b.calls, colour |-> b.colour, order |-> b.order, cycle |-> <<>>]
  <2>1. a = [calls |-> a.calls, colour |-> a.colour, order |-> a.order, cycle |-> <<>>]
    BY <1>1 DEF SearchStates
  <2>2. b = [a EXCEPT !.calls = SubSeq(@, 1, n - 1), !.colour[u] = "BLACK",
                      !.order = Append(@, u)]
    BY DEF Return
  <2> HIDE DEF b, n, u
  <2> QED BY <2>1, <2>2
<1> HIDE DEF b
<1>4. /\ b.calls \in Seq(Frames(g)) /\ Len(b.calls) = n - 1
      /\ \A i \in 1..n - 1 : b.calls[i] = a.calls[i]
  <2> DEFINE s == a.calls
  <2>1. s \in Seq(Frames(g)) /\ n - 1 \in 0..Len(s)
    BY <1>1, <1>2, StateFields
  <2>2. b.calls = SubSeq(s, 1, n - 1)
    BY <1>3
  <2> HIDE DEF s, n
  <2>3. SubSeq(s, 1, n - 1) \in Seq(Frames(g)) /\ Len(SubSeq(s, 1, n - 1)) = n - 1
    BY <2>1, <1>2
  <2>4. \A i \in 1..n - 1 : SubSeq(s, 1, n - 1)[i] = s[i]
    BY <2>1, <1>2
  <2> QED BY <2>2, <2>3, <2>4 DEF s
<1>5. /\ b.order \in Seq(DOMAIN g) /\ Len(b.order) = m + 1
      /\ \A i \in 1..m : b.order[i] = a.order[i]
      /\ b.order[m + 1] = u
  BY <1>1, <1>2, <1>3, StateFields
<1> HIDE DEF n, m, u
<1>6. b \in SearchStates(g)
  <2>1. b.colour \in [DOMAIN g -> Colours]
    BY <1>1, <1>2, <1>3, StateFields DEF Colours
  <2> QED BY <1>1, <1>3, <1>4, <1>5, <2>1 DEF SearchStates, Frames
<1>7. /\ \A v \in DOMAIN g : v # u => b.colour[v] = a.colour[v]
      /\ b.colour[u] = "BLACK"
  BY <1>1, <1>2, <1>3, StateFields
<1>8. \A i \in 1..n : i = n \/ i \in 1..n - 1
  BY <1>2
<1>9. /\ \A i, j \in 1..n : a.calls[i].of = a.calls[j].of => i = j
      /\ \A i \in 1..n : a.calls[i].todo \subseteq g[a.calls[i].of]
      /\ \A i \in 1..n - 1 : a.calls[i + 1].of \in g[a.calls[i].of]
      /\ \A v \in DOMAIN g : a.colour[v] = "GRAY" <=> \E i \in 1..n : a.calls[i].of = v
  BY DEF DfsInv, CallsInv, n
<1>10. \A i \in 1..n - 1 : i \in 1..n /\ i # n /\ a.calls[i].of # u
  BY <1>2, <1>9 DEF u
<1>11. a.colour[u] = "GRAY"
  BY <1>2, <1>9 DEF u
<1>12. CallsInv(g, b)
  <2>1. \A i \in 1..n - 1 : b.calls[i].todo \subseteq g[b.calls[i].of]
    BY <1>4, <1>9, <1>10
  <2>2. \A i, j \in 1..n - 1 : b.calls[i].of = b.calls[j].of => i = j
    BY <1>4, <1>9, <1>10
  <2>3. \A i \in 1..n - 1 - 1 : b.calls[i + 1].of \in g[b.calls[i].of]
    <3> TAKE i \in 1..n - 1 - 1
    <3>1. i \in 1..n - 1 /\ i + 1 \in 1..n - 1
      BY <1>2
    <3> QED BY <3>1, <1>4, <1>9
  <2>4. ASSUME NEW v \in DOMAIN g
        PROVE  b.colour[v] = "GRAY" <=> \E i \in 1..n - 1 : b.calls[i].of = v
    <3>1. CASE v = u
      BY <3>1, <1>4, <1>7, <1>10
    <3>2. CASE v # u
      <4>1. b.colour[v] = "GRAY" <=> \E i \in 1..n : a.calls[i].of = v
        BY <3>2, <1>7, <1>9
      <4>2. \A i \in 1..n : a.calls[i].of = v => i \in 1..n - 1
        BY <3>2, <1>8 DEF u
      <4>3. \A i \in 1..n - 1 : b.calls[i].of = a.calls[i].of /\ i \in 1..n
        BY <1>4, <1>10
      <4> QED BY <4>1, <4>2, <4>3
    <3> QED BY <3>1, <3>2
  <2> QED BY <2>1, <2>2, <2>3, <2>4, <1>4 DEF CallsInv
<1>13. \A i \in 1..m + 1 : i = m + 1 \/ i \in 1..m
  BY <1>2
<1>14. /\ \A i, j \in 1..m : a.order[i] = a.order[j] => i = j
       /\ \A v \in DOMAIN g : a.colour[v] = "BLACK" <=> \E i \in 1..m : a.order[i] = v
  BY DEF DfsInv, PushedInv, m
<1>15. \A i \in 1..m : a.order[i] # u /\ i \in 1..m + 1
  BY <1>2, <1>11, <1>14
<1>16. m + 1 \in 1..m + 1
  BY <1>2
<1>17. PushedInv(g, b)
  <2>1. \A i, j \in 1..m + 1 : b.order[i] = b.order[j] => i = j
    BY <1>5, <1>13, <1>14, <1>15
  <2>2. ASSUME NEW v \in DOMAIN g
        PROVE  b.colour[v] = "BLACK" <=> \E i \in 1..m + 1 : b.order[i] = v
    <3>1. CASE v = u
      BY <3>1, <1>5, <1>7, <1>16
    <3>2. CASE v # u
      BY <3>2, <1>5, <1>7, <1>13, <1>14, <1>15
    <3> QED BY <3>1, <3>2
  <2> QED BY <2>1, <2>2, <1>5 DEF PushedInv
<1>18. ASSUME NoneMet(g, a) PROVE NoneMet(g, b)
  <2>1. /\ \A i \in 1..n : \A v \in g[a.calls[i].of] \ a.calls[i].todo :
              a.colour[v] = "BLACK" \/ (i < n /\ v = a.calls[i + 1].of)
        /\ \A j \in 1..m : \A v \in g[a.order[j]] :
              \E i \in 1..m : i < j /\ a.order[i] = v
    BY <1>18 DEF NoneMet, n, m
  <2>2. \A v \in g[u] : a.colour[v] = "BLACK" /\ v \in DOMAIN g
    <3>1. a.calls[n].todo = {} /\ ~(n < n)
      BY <1>2 DEF n
    <3> QED BY <3>1, <2>1, <1>2 DEF u, IsGraph
  <2>3. ASSUME NEW i \in 1..n - 1, NEW v \in g[b.calls[i].of] \ b.calls[i].todo
        PROVE  b.colour[v] = "BLACK" \/ (i < n - 1 /\ v = b.calls[i + 1].of)
    <3>1. a.colour[v] = "BLACK" \/ (i < n /\ v = a.calls[i + 1].of)
      BY <2>1, <2>3, <1>4, <1>10
    <3>2. v \in DOMAIN g
      <4>1. a.calls[i].of \in DOMAIN g
        BY <1>1, <1>10, StateFields DEF n
      <4> QED BY <4>1, <2>3, <1>4 DEF IsGraph
    <3>3. CASE a.colour[v] = "BLACK"
      BY <3>2, <3>3, <1>7
    <3>4. CASE v = a.calls[i + 1].of /\ i + 1 = n
      BY <3>4, <1>7 DEF u
    <3>5. CASE v = a.calls[i + 1].of /\ i + 1 # n
      <4>1. i < n - 1 /\ i + 1 \in 1..n - 1
        BY <3>5, <1>2
      <4> QED BY <3>5, <4>1, <1>4
    <3> QED BY <3>1, <3>3, <3>4, <3>5
  <2>4. ASSUME NEW j \in 1..m + 1, NEW v \in g[b.order[j]]
        PROVE  \E i \in 1..m + 1 : i < j /\ b.order[i] = v
    <3>1. CASE j \in 1..m
      <4>1. PICK i \in 1..m : i < j /\ a.order[i] = v
        BY <3>1, <2>1, <2>4, <1>5
      <4> QED BY <4>1, <1>5, <1>15
    <3>2. CASE j = m + 1
      <4>1. PICK i \in 1..m : a.order[i] = v
        BY <3>2, <2>2, <2>4, <1>5, <1>14
      <4>2. i < j
        BY <3>2, <4>1, <1>2
      <4> QED BY <4>1, <4>2, <1>5, <1>15
    <3> QED BY <3>1, <3>2, <1>13
  <2> QED BY <2>3, <2>4, <1>4, <1>5 DEF NoneMet
<1>19. CycleInv(g, throws, b)
  BY <1>3, <1>18 DEF DfsInv, CycleInv
<1> QED BY <1>6, <1>12, <1>17, <1>19 DEF DfsInv, b

\* The stack from a gray task on, and that task again, are a cycle.
LEMMA StackCloses ==
  ASSUME NEW g, NEW throws \in BOOLEAN, NEW a, DfsInv(g, throws, a), Len(a.calls) > 0,
         NEW v \in DOMAIN g, v \in g[a.calls[Len(a.calls)].of], a.colour[v] = "GRAY"
  PROVE  /\ CyclePath(a.calls, v) \in Seq(DOMAIN g)
         /\ CyclePath(a.calls, v) # <<>>
         /\ IsCycleOf(CyclePath(a.calls, v), g)
<1> DEFINE n == Len(a.calls)
           from == CHOOSE i \in 1..n : a.calls[i].of = v
           last == n - from + 2
           path == [i \in 1..last |-> IF i = last THEN v ELSE a.calls[from + i - 1].of]
<1>1. /\ a \in SearchStates(g) /\ n \in Nat /\ n > 0
      /\ \A i \in 1..n : a.calls[i].of \in DOMAIN g
  BY StateFields DEF DfsInv
<1>2. \E i \in 1..n : a.calls[i].of = v
  BY DEF DfsInv, CallsInv
<1>3. from \in 1..n /\ a.calls[from].of = v
  BY <1>2
<1>4. CyclePath(a.calls, v) = path
  BY DEF CyclePath
<1>5. \A i \in 1..n - 1 : a.calls[i + 1].of \in g[a.calls[i].of]
  BY DEF DfsInv, CallsInv
<1>6. v \in g[a.calls[n].of]
  OBVIOUS
<1> HIDE DEF n, from
<1>7. last \in Nat /\ last > 1
  BY <1>1, <1>3
<1>8. \A i \in 1..last : i # last => from + i - 1 \in 1..n
  BY <1>1, <1>3
<1>9. path \in [1..last -> DOMAIN g]
  BY <1>1, <1>8
<1>10. path \in Seq(DOMAIN g) /\ Len(path) = last /\ path # <<>>
  <2> HIDE DEF path, last
  <2> QED BY <1>7, <1>9
<1>11. path[1] = v /\ path[last] = v
  <2>1. 1 \in 1..last /\ 1 # last /\ from + 1 - 1 = from /\ last \in 1..last
    BY <1>7, <1>3
  <2> QED BY <2>1, <1>3
<1>12. ASSUME NEW i \in 1..last - 1 PROVE path[i + 1] \in g[path[i]]
  <2>1. i \in 1..last /\ i # last /\ i + 1 \in 1..last
    BY <1>7
  <2>2. path[i] = a.calls[from + i - 1].of
    BY <2>1
  <2>3. CASE i + 1 = last
    <3>1. from + i - 1 = n /\ path[i + 1] = v
      BY <2>1, <2>3, <1>1, <1>3
    <3> QED BY <2>2, <3>1, <1>6
  <2>4. CASE i + 1 # last
    <3>1. path[i + 1] = a.calls[(from + i - 1) + 1].of /\ from + i - 1 \in 1..n - 1
      <4>1. from + (i + 1) - 1 = (from + i - 1) + 1 /\ from + i - 1 \in 1..n - 1
        BY <2>1, <2>4, <1>1, <1>3
      <4>2. path[i + 1] = a.calls[from + (i + 1) - 1].of
        BY <2>1, <2>4
      <4> QED BY <4>1, <4>2
    <3> QED BY <2>2, <3>1, <1>5
  <2> QED BY <2>3, <2>4
<1>13. \A i \in 1..last - 1 : path[i] \in DOMAIN g
  <2>1. \A i \in 1..last - 1 : i \in 1..last
    BY <1>7
  <2> HIDE DEF path, last
  <2> QED BY <2>1, <1>9
<1> HIDE DEF path
<1> QED BY <1>4, <1>7, <1>10, <1>11, <1>12, <1>13 DEF IsCycleOf

\* c are the calls of a with the innermost no longer looking at v.
Trimmed(g, a, c, v) ==
    /\ c \in Seq(Frames(g)) /\ Len(c) = Len(a.calls)
    /\ \A i \in 1..Len(c) : c[i].of = a.calls[i].of
    /\ \A i \in 1..Len(c) : c[i].todo = IF i = Len(c) THEN a.calls[i].todo \ {v}
                                        ELSE a.calls[i].todo

LEMMA DfsTrimKeeps ==
  ASSUME NEW g, NEW throws \in BOOLEAN, NEW a, DfsInv(g, throws, a), NEW v, NEW c,
         Trimmed(g, a, c, v), NEW cycle \in Seq(DOMAIN g), NEW b,
         b = [calls |-> c, colour |-> a.colour, order |-> a.order, cycle |-> cycle]
  PROVE  b \in SearchStates(g) /\ CallsInv(g, b) /\ PushedInv(g, b)
<1>1. a \in SearchStates(g) /\ Len(a.calls) \in Nat
  BY StateFields DEF DfsInv
<1>2. b.calls = c /\ b.colour = a.colour /\ b.order = a.order
  OBVIOUS
<1>3. b \in SearchStates(g)
  BY <1>1 DEF SearchStates, Trimmed, Frames
<1>4. CallsInv(g, b)
  <2> DEFINE n == Len(a.calls)
  <2>1. /\ \A i, j \in 1..n : a.calls[i].of = a.calls[j].of => i = j
        /\ \A i \in 1..n : a.calls[i].todo \subseteq g[a.calls[i].of]
        /\ \A i \in 1..n - 1 : a.calls[i + 1].of \in g[a.calls[i].of]
        /\ \A t \in DOMAIN g : a.colour[t] = "GRAY" <=> \E i \in 1..n : a.calls[i].of = t
    BY DEF DfsInv, CallsInv
  <2>2. /\ Len(c) = n
        /\ \A i \in 1..n : c[i].of = a.calls[i].of /\ c[i].todo \subseteq a.calls[i].todo
    BY DEF Trimmed
  <2>3. \A i \in 1..n - 1 : i \in 1..n /\ i + 1 \in 1..n
    BY <1>1
  <2> HIDE DEF n
  <2>4. \A i \in 1..n - 1 : c[i + 1].of \in g[c[i].of]
    BY <2>1, <2>2, <2>3
  <2>5. \A i \in 1..n : c[i].todo \subseteq g[c[i].of]
    <3> TAKE i \in 1..n
    <3> QED BY <2>1, <2>2
  <2>6. \A i, j \in 1..n : c[i].of = c[j].of => i = j
    BY <2>1, <2>2
  <2>7. \A t \in DOMAIN g : a.colour[t] = "GRAY" <=> \E i \in 1..n : c[i].of = t
    BY <2>1, <2>2
  <2> QED BY <2>2, <2>4, <2>5, <2>6, <2>7, <1>2 DEF CallsInv
<1>5. PushedInv(g, b)
  BY <1>2 DEF DfsInv, PushedInv
<1> QED BY <1>3, <1>4, <1>5

\* A task that is white goes to DfsCallKeeps, one that makes dfs throw to
\* DfsThrowKeeps.
LEMMA DfsLookKeeps ==
  ASSUME NEW g, IsGraph(g), NEW throws \in BOOLEAN, NEW a, DfsInv(g, throws, a), a.cycle = <<>>,
         Len(a.calls) > 0, NEW v \in a.calls[Len(a.calls)].todo,
         a.colour[v] # "WHITE", throws => a.colour[v] # "GRAY",
         NEW c, Trimmed(g, a, c, v)
  PROVE  DfsInv(g, throws, [a EXCEPT !.calls = c])
<1> DEFINE b == [a EXCEPT !.calls = c]
           n == Len(a.calls)
<1>1. /\ a \in SearchStates(g) /\ n \in Nat /\ n \in 1..n
      /\ \A i \in 1..n : a.calls[i].of \in DOMAIN g
  BY StateFields DEF DfsInv
<1>2. b = [calls |-> c, colour |-> a.colour, order |-> a.order, cycle |-> <<>>]
  <2>1. a = [calls |-> a.calls, colour |-> a.colour, order |-> a.order, cycle |-> <<>>]
    BY <1>1 DEF SearchStates
  <2> HIDE DEF n
  <2> QED BY <2>1
<1>3. v \in g[a.calls[n].of] /\ v \in DOMAIN g
  <2>1. a.calls[n].todo \subseteq g[a.calls[n].of]
    BY <1>1 DEF DfsInv, CallsInv
  <2> QED BY <2>1, <1>1 DEF IsGraph
<1>4. a.colour[v] = "GRAY" \/ a.colour[v] = "BLACK"
  BY <1>1, <1>3, StateFields DEF Colours
<1>5. (throws \/ ~Cyclic(g)) => a.colour[v] = "BLACK"
  <2>1. CASE a.colour[v] = "GRAY" /\ ~throws
    <3> DEFINE path == CyclePath(a.calls, v)
    <3>1. path \in Seq(DOMAIN g) /\ IsCycleOf(path, g)
      BY <2>1, <1>3, StackCloses
    <3> HIDE DEF path
    <3>2. Len(path) \in Nat
      BY <3>1
    <3>3. Cyclic(g)
      BY <3>1, <3>2, CyclesClose
    <3> QED BY <3>3, <2>1
  <2> QED BY <2>1, <1>4
<1> HIDE DEF b
<1>6. b \in SearchStates(g) /\ CallsInv(g, b) /\ PushedInv(g, b)
  <2>1. <<>> \in Seq(DOMAIN g)
    OBVIOUS
  <2> QED BY <2>1, <1>2, DfsTrimKeeps
<1>7. ASSUME NoneMet(g, a), throws \/ ~Cyclic(g) PROVE NoneMet(g, b)
  <2>1. /\ b.calls = c /\ b.colour = a.colour /\ b.order = a.order
        /\ Len(c) = n /\ \A i \in 1..n : c[i].of = a.calls[i].of
    BY <1>2 DEF Trimmed
  <2>2. /\ \A i \in 1..n : \A t \in g[a.calls[i].of] \ a.calls[i].todo :
              a.colour[t] = "BLACK" \/ (i < n /\ t = a.calls[i + 1].of)
        /\ \A j \in 1..Len(a.order) : \A t \in g[a.order[j]] :
              \E i \in 1..Len(a.order) : i < j /\ a.order[i] = t
    BY <1>7 DEF NoneMet
  <2>3. ASSUME NEW i \in 1..n, NEW t \in g[c[i].of] \ c[i].todo
        PROVE  a.colour[t] = "BLACK" \/ (i < n /\ t = c[i + 1].of)
    <3>1. CASE t = v
      BY <3>1, <1>5, <1>7
    <3>2. CASE t # v
      <4>1. t \in g[a.calls[i].of] \ a.calls[i].todo
        BY <3>2, <2>1, <2>3 DEF Trimmed
      <4>2. i < n => i + 1 \in 1..n
        BY <1>1
      <4> QED BY <4>1, <4>2, <2>1, <2>2
    <3> QED BY <3>1, <3>2
  <2> QED BY <2>1, <2>2, <2>3 DEF NoneMet
<1>8. CycleInv(g, throws, b)
  BY <1>2, <1>7 DEF DfsInv, CycleInv
<1> QED BY <1>6, <1>8 DEF DfsInv, b

LEMMA DfsThrowKeeps ==
  ASSUME NEW g, IsGraph(g), NEW a, DfsInv(g, TRUE, a), a.cycle = <<>>,
         Len(a.calls) > 0, NEW v \in a.calls[Len(a.calls)].todo, a.colour[v] = "GRAY",
         NEW c, Trimmed(g, a, c, v), NEW b,
         b = [calls |-> c, colour |-> a.colour, order |-> a.order,
              cycle |-> CyclePath(a.calls, v)]
  PROVE  DfsInv(g, TRUE, b) /\ b.cycle # <<>>
<1> DEFINE n == Len(a.calls)
           path == CyclePath(a.calls, v)
<1>1. /\ a \in SearchStates(g) /\ n \in Nat /\ n \in 1..n
      /\ \A i \in 1..n : a.calls[i].of \in DOMAIN g
  BY StateFields DEF DfsInv
<1>2. v \in g[a.calls[n].of] /\ v \in DOMAIN g
  <2>1. a.calls[n].todo \subseteq g[a.calls[n].of]
    BY <1>1 DEF DfsInv, CallsInv
  <2> QED BY <2>1, <1>1 DEF IsGraph
<1>3. path \in Seq(DOMAIN g) /\ path # <<>> /\ IsCycleOf(path, g)
  BY <1>2, StackCloses
<1> HIDE DEF path
<1>4. b = [calls |-> c, colour |-> a.colour, order |-> a.order, cycle |-> path]
  BY DEF path
<1>5. b \in SearchStates(g) /\ CallsInv(g, b) /\ PushedInv(g, b)
  BY <1>3, <1>4, DfsTrimKeeps
<1>6. CycleInv(g, TRUE, b) /\ b.cycle # <<>>
  BY <1>3, <1>4 DEF CycleInv
<1> QED BY <1>5, <1>6 DEF DfsInv

-----------------------------------------------------------------------------
\* What is left to do: tasks to enter, tasks to leave, prerequisites to look at.
ToEnter(g, a) == {t \in DOMAIN g : a.colour[t] = "WHITE"}
ToLeave(g, a) == {t \in DOMAIN g : a.colour[t] # "BLACK"}
PairsOf(V) == V \X V
ToLook(g, a) ==
    {e \in PairsOf(DOMAIN g) :
        \/ a.colour[e[1]] = "WHITE" /\ e[2] \in g[e[1]]
        \/ \E i \in 1..Len(a.calls) : a.calls[i].of = e[1] /\ e[2] \in a.calls[i].todo}
DfsLeft(g, a) ==
    Cardinality(ToEnter(g, a)) + Cardinality(ToLeave(g, a)) + Cardinality(ToLook(g, a))

LEMMA Pairs ==
  ASSUME NEW V, IsFiniteSet(V)
  PROVE  /\ IsFiniteSet(PairsOf(V))
         /\ Cardinality(PairsOf(V)) = Cardinality(V) * Cardinality(V)
BY FS_Product DEF PairsOf

LEMMA DfsLeftFalls ==
  ASSUME NEW g, IsGraph(g), NEW a, NEW b,
         ToEnter(g, b) \subseteq ToEnter(g, a), ToLeave(g, b) \subseteq ToLeave(g, a),
         ToLook(g, b) \subseteq ToLook(g, a),
         \/ ToEnter(g, b) # ToEnter(g, a) \/ ToLeave(g, b) # ToLeave(g, a)
         \/ ToLook(g, b) # ToLook(g, a)
  PROVE  DfsLeft(g, a) \in Nat /\ DfsLeft(g, b) \in Nat /\ DfsLeft(g, b) < DfsLeft(g, a)
<1>1. IsFiniteSet(ToEnter(g, a)) /\ IsFiniteSet(ToLeave(g, a))
  BY FS_Subset DEF IsGraph, ToEnter, ToLeave
<1>2. IsFiniteSet(ToLook(g, a))
  <2>1. IsFiniteSet(PairsOf(DOMAIN g))
    BY Pairs DEF IsGraph
  <2>2. ToLook(g, a) \subseteq PairsOf(DOMAIN g)
    BY DEF ToLook
  <2> QED BY <2>1, <2>2, FS_Subset
<1>3. \A S, T : IsFiniteSet(T) /\ S \subseteq T =>
          /\ Cardinality(S) \in Nat /\ Cardinality(T) \in Nat /\ Cardinality(S) <= Cardinality(T)
          /\ S # T => Cardinality(S) < Cardinality(T)
  <2> TAKE S, T
  <2> HAVE IsFiniteSet(T) /\ S \subseteq T
  <2>1. /\ IsFiniteSet(S) /\ Cardinality(S) <= Cardinality(T)
        /\ Cardinality(S) = Cardinality(T) => S = T
    BY FS_Subset
  <2>2. Cardinality(S) \in Nat /\ Cardinality(T) \in Nat
    BY <2>1, FS_CardinalityType
  <2> QED BY <2>1, <2>2
<1> DEFINE e == Cardinality(ToEnter(g, a))
           f == Cardinality(ToEnter(g, b))
           k == Cardinality(ToLeave(g, a))
           l == Cardinality(ToLeave(g, b))
           p == Cardinality(ToLook(g, a))
           q == Cardinality(ToLook(g, b))
<1>4. e \in Nat /\ f \in Nat /\ f <= e /\ (ToEnter(g, b) # ToEnter(g, a) => f < e)
  BY <1>1, <1>3
<1>5. k \in Nat /\ l \in Nat /\ l <= k /\ (ToLeave(g, b) # ToLeave(g, a) => l < k)
  BY <1>1, <1>3
<1>6. p \in Nat /\ q \in Nat /\ q <= p /\ (ToLook(g, b) # ToLook(g, a) => q < p)
  BY <1>2, <1>3
<1>7. f < e \/ l < k \/ q < p
  BY <1>4, <1>5, <1>6
<1>8. DfsLeft(g, a) = e + k + p /\ DfsLeft(g, b) = f + l + q
  BY DEF DfsLeft
<1> HIDE DEF e, f, k, l, p, q
<1> QED BY <1>4, <1>5, <1>6, <1>7, <1>8

LEMMA DfsLeftBounded ==
  ASSUME NEW g, IsGraph(g), NEW a
  PROVE  DfsLeft(g, a) \in Nat /\ DfsLeft(g, a) <= StepsOf(g) /\ StepsOf(g) \in Nat
<1> DEFINE n == Cardinality(DOMAIN g)
<1>1. n \in Nat
  BY FS_CardinalityType DEF IsGraph
<1>2. Cardinality(ToEnter(g, a)) \in Nat /\ Cardinality(ToEnter(g, a)) <= n
  BY FS_Subset, FS_CardinalityType DEF IsGraph, ToEnter
<1>3. Cardinality(ToLeave(g, a)) \in Nat /\ Cardinality(ToLeave(g, a)) <= n
  BY FS_Subset, FS_CardinalityType DEF IsGraph, ToLeave
<1>4. Cardinality(ToLook(g, a)) \in Nat /\ Cardinality(ToLook(g, a)) <= n * n
  <2>1. IsFiniteSet(PairsOf(DOMAIN g)) /\ Cardinality(PairsOf(DOMAIN g)) = n * n
    BY Pairs DEF IsGraph
  <2>2. ToLook(g, a) \subseteq PairsOf(DOMAIN g)
    BY DEF ToLook
  <2> QED BY <2>1, <2>2, FS_Subset, FS_CardinalityType
<1>5. n * (n + 2) = n * n + n + n /\ n * n \in Nat
  BY <1>1
<1> DEFINE sq == n * n
<1>6. sq \in Nat /\ StepsOf(g) = sq + n + n
  BY <1>5 DEF StepsOf
<1>7. Cardinality(ToLook(g, a)) <= sq
  BY <1>4
<1> HIDE DEF n, sq
<1> QED BY <1>1, <1>2, <1>3, <1>4, <1>6, <1>7 DEF DfsLeft

-----------------------------------------------------------------------------
\* The calls of a with the innermost no longer looking at v.
LEMMA Trimming ==
  ASSUME NEW g, NEW a \in SearchStates(g), Len(a.calls) > 0, NEW v
  PROVE  Trimmed(g, a, [a.calls EXCEPT ![Len(a.calls)].todo = @ \ {v}], v)
<1> DEFINE s == a.calls
           n == Len(s)
           c == [s EXCEPT ![n].todo = @ \ {v}]
<1>1. /\ s \in Seq(Frames(g)) /\ n \in Nat /\ n \in 1..n
      /\ \A i \in 1..n : s[i] \in Frames(g)
  BY StateFields
<1>2. s \in [1..n -> Frames(g)] /\ DOMAIN s = 1..n
  BY <1>1
<1> HIDE DEF s, n
<1>3. [s[n] EXCEPT !.todo = @ \ {v}] \in Frames(g)
  BY <1>1 DEF Frames
<1>4. c \in [1..n -> Frames(g)]
  BY <1>1, <1>2, <1>3
<1>5. c \in Seq(Frames(g)) /\ Len(c) = n
  <2> HIDE DEF c
  <2> QED BY <1>1, <1>4
<1>6. ASSUME NEW i \in 1..n
      PROVE  c[i].of = s[i].of /\ c[i].todo = IF i = n THEN s[i].todo \ {v} ELSE s[i].todo
  <2>1. CASE i = n
    <3>1. c[i] = [s[n] EXCEPT !.todo = @ \ {v}]
      BY <2>1, <1>1, <1>2
    <3>2. s[n] \in Frames(g)
      BY <1>1
    <3> QED BY <2>1, <3>1, <3>2 DEF Frames
  <2>2. CASE i # n
    BY <2>2, <1>2
  <2> QED BY <2>1, <2>2
<1>7. Trimmed(g, a, c, v)
  <2> HIDE DEF c
  <2> QED BY <1>5, <1>6 DEF Trimmed, s, n
<1> QED BY <1>7 DEF s, n

\* What a step does, by the state it finds.
LEMMA StepIs ==
  ASSUME NEW g, NEW throws \in BOOLEAN, NEW a \in SearchStates(g)
  PROVE  /\ Over(g, a) => Step(g, throws, a) = a
         /\ ~Over(g, a) =>
               /\ a.cycle = <<>>
               /\ \/ /\ a.calls = <<>>
                     /\ \E u \in DOMAIN g : /\ a.colour[u] = "WHITE"
                                           /\ Step(g, throws, a) = Call(g, a, u)
                  \/ /\ Len(a.calls) > 0 /\ a.calls[Len(a.calls)].todo = {}
                     /\ Step(g, throws, a) = Return(a)
                  \/ /\ Len(a.calls) > 0 /\ a.calls[Len(a.calls)].todo # {}
                     /\ Step(g, throws, a) = Follow(g, throws, a)
<1>1. Len(a.calls) \in Nat /\ (Len(a.calls) = 0 <=> a.calls = <<>>)
  <2>1. PICK s : s = a.calls
    OBVIOUS
  <2>2. s \in Seq(Frames(g))
    BY <2>1, StateFields
  <2> QED BY <2>1, <2>2
<1> DEFINE white == {t \in DOMAIN g : a.colour[t] = "WHITE"}
<1>2. CASE a.cycle # <<>>
  BY <1>2 DEF Step, Over
<1>3. CASE a.cycle = <<>> /\ Len(a.calls) = 0
  <2>1. white # {} => (CHOOSE t \in white : TRUE) \in white
    OBVIOUS
  <2>2. Step(g, throws, a) = IF white = {} THEN a ELSE Call(g, a, CHOOSE t \in white : TRUE)
    BY <1>3 DEF Step
  <2> QED BY <2>1, <2>2, <1>1, <1>3 DEF Over
<1>4. CASE a.cycle = <<>> /\ Len(a.calls) > 0
  <2>1. Step(g, throws, a) = IF a.calls[Len(a.calls)].todo = {} THEN Return(a)
                             ELSE Follow(g, throws, a)
    BY <1>1, <1>4 DEF Step
  <2> QED BY <2>1, <1>1, <1>4 DEF Over
<1> QED BY <1>1, <1>2, <1>3, <1>4

LEMMA StepKeeps ==
  ASSUME NEW g, IsGraph(g), NEW throws \in BOOLEAN, NEW a, DfsInv(g, throws, a)
  PROVE  DfsInv(g, throws, Step(g, throws, a))
<1> DEFINE n == Len(a.calls)
           c(v) == [a.calls EXCEPT ![n].todo = @ \ {v}]
<1>1. a \in SearchStates(g) /\ n \in Nat
  BY StateFields DEF DfsInv
<1>2. CASE Over(g, a)
  BY <1>1, <1>2, StepIs
<1>3. CASE ~Over(g, a)
  <2>1. a.cycle = <<>>
    BY <1>1, <1>3, StepIs
  <2>2. ASSUME a.calls = <<>>, NEW u \in DOMAIN g, a.colour[u] = "WHITE"
        PROVE  DfsInv(g, throws, Call(g, a, u))
    <3> DEFINE none == <<>>
    <3>1. /\ none \in Seq(Frames(g)) /\ Len(none) = 0 /\ a.calls = none
          /\ 1..Len(none) = {} /\ ~(Len(none) > 0)
      BY <2>2
    <3>4. /\ Len(none) = Len(a.calls)
          /\ \A i \in 1..Len(none) : none[i].of = a.calls[i].of
          /\ \A i \in 1..Len(none) : none[i].todo = IF i = Len(none) THEN a.calls[i].todo \ {u}
                                                   ELSE a.calls[i].todo
          /\ Len(none) > 0 => u \in a.calls[Len(none)].todo
      BY <3>1
    <3>2. [a EXCEPT !.calls = <<>>] = a
      BY <1>1, <2>2 DEF SearchStates
    <3> HIDE DEF none
    <3>3. DfsInv(g, throws, Call(g, [a EXCEPT !.calls = none], u))
      <4>1. PICK f : f = none
        OBVIOUS
      <4>2. DfsInv(g, throws, Call(g, [a EXCEPT !.calls = f], u))
        BY <2>1, <2>2, <3>1, <3>4, <4>1, DfsCallKeeps
      <4> QED BY <4>1, <4>2
    <3> QED BY <3>2, <3>3 DEF none
  <2>3. ASSUME n > 0, a.calls[n].todo # {} PROVE DfsInv(g, throws, Follow(g, throws, a))
    <3> DEFINE v == CHOOSE t \in a.calls[n].todo : TRUE
               rest == [a EXCEPT !.calls[n].todo = @ \ {v}]
    <3>1. v \in a.calls[n].todo /\ v \in DOMAIN g
      BY <1>1, <2>3, StateFields
    <3>2. Trimmed(g, a, c(v), v)
      BY <1>1, <2>3, Trimming
    <3>3. rest = [a EXCEPT !.calls = c(v)]
      OBVIOUS
    <3>4. Follow(g, throws, a) =
             CASE a.colour[v] = "WHITE" -> Call(g, rest, v)
               [] throws /\ a.colour[v] = "GRAY" -> [rest EXCEPT !.cycle = CyclePath(a.calls, v)]
               [] OTHER -> rest
      BY DEF Follow
    <3> HIDE DEF v, rest, c, n
    <3>5. CASE a.colour[v] = "WHITE"
      <4>1. Follow(g, throws, a) = Call(g, [a EXCEPT !.calls = c(v)], v)
        BY <3>3, <3>4, <3>5
      <4>2. DfsInv(g, throws, Call(g, [a EXCEPT !.calls = c(v)], v))
        BY <2>1, <2>3, <3>1, <3>2, <3>5, DfsCallKeeps DEF Trimmed, n
      <4> QED BY <4>1, <4>2
    <3>6. CASE throws /\ a.colour[v] = "GRAY"
      <4> DEFINE b == Follow(g, throws, a)
      <4>1. b = [rest EXCEPT !.cycle = CyclePath(a.calls, v)]
        BY <3>4, <3>6
      <4>2. b = [calls |-> c(v), colour |-> a.colour, order |-> a.order,
                 cycle |-> CyclePath(a.calls, v)]
        BY <1>1, <3>3, <4>1 DEF SearchStates
      <4> HIDE DEF b
      <4>3. DfsInv(g, TRUE, b)
        BY <2>1, <2>3, <3>1, <3>2, <3>6, <4>2, DfsThrowKeeps DEF n
      <4> QED BY <4>3, <3>6 DEF b
    <3>7. CASE a.colour[v] # "WHITE" /\ ~(throws /\ a.colour[v] = "GRAY")
      <4>1. Follow(g, throws, a) = [a EXCEPT !.calls = c(v)]
        BY <3>3, <3>4, <3>7
      <4>2. DfsInv(g, throws, [a EXCEPT !.calls = c(v)])
        BY <2>1, <2>3, <3>1, <3>2, <3>7, DfsLookKeeps DEF n
      <4> QED BY <4>1, <4>2
    <3> QED BY <3>5, <3>6, <3>7
  <2>4. ASSUME n > 0, a.calls[n].todo = {} PROVE DfsInv(g, throws, Return(a))
    BY <2>1, <2>4, DfsReturnKeeps
  <2> QED BY <1>1, <1>3, <2>2, <2>3, <2>4, StepIs
<1> QED BY <1>2, <1>3

LEMMA PairParts ==
  ASSUME NEW V
  PROVE  /\ \A e \in PairsOf(V) : e[1] \in V /\ e[2] \in V
         /\ \A x \in V, y \in V : /\ <<x, y>> \in PairsOf(V)
                               /\ <<x, y>>[1] = x /\ <<x, y>>[2] = y
BY DEF PairsOf

LEMMA CallFalls ==
  ASSUME NEW g, IsGraph(g), NEW a \in SearchStates(g), NEW u \in DOMAIN g, a.colour[u] = "WHITE",
         NEW c \in Seq(Frames(g)), Len(c) = Len(a.calls),
         \A i \in 1..Len(c) : c[i].of = a.calls[i].of /\ c[i].todo \subseteq a.calls[i].todo
  PROVE  DfsLeft(g, Call(g, [a EXCEPT !.calls = c], u)) < DfsLeft(g, a)
<1> DEFINE b == Call(g, [a EXCEPT !.calls = c], u)
           frame == [of |-> u, todo |-> g[u]]
           n == Len(c)
<1>1. b.calls = Append(c, frame) /\ b.colour = [a.colour EXCEPT ![u] = "GRAY"]
  <2> DEFINE d == [a EXCEPT !.calls = c]
  <2>1. d.calls = c /\ d.colour = a.colour
    <3>1. a = [calls |-> a.calls, colour |-> a.colour, order |-> a.order, cycle |-> a.cycle]
      BY DEF SearchStates
    <3> QED BY <3>1
  <2>2. d = [calls |-> c, colour |-> a.colour, order |-> a.order, cycle |-> a.cycle]
    <3>1. a = [calls |-> a.calls, colour |-> a.colour, order |-> a.order, cycle |-> a.cycle]
      BY DEF SearchStates
    <3> QED BY <3>1
  <2> HIDE DEF d
  <2>3. b = [d EXCEPT !.calls = Append(@, frame), !.colour[u] = "GRAY"]
    BY DEF Call, b, d
  <2> QED BY <2>1, <2>2, <2>3
<1>2. frame \in Frames(g) /\ frame.of = u /\ frame.todo = g[u]
  BY DEF Frames, IsGraph
<1> HIDE DEF b, frame
<1>3. /\ n \in Nat /\ n = Len(a.calls) /\ Len(b.calls) = n + 1 /\ b.calls[n + 1] = frame
      /\ \A i \in 1..n : b.calls[i] = c[i]
      /\ \A i \in 1..n + 1 : i = n + 1 \/ i \in 1..n
  BY <1>1, <1>2
<1>4. /\ \A t \in DOMAIN g : t # u => b.colour[t] = a.colour[t]
      /\ b.colour[u] = "GRAY"
  BY <1>1, StateFields
<1> HIDE DEF n
<1>5. /\ ToEnter(g, b) \subseteq ToEnter(g, a) /\ ToEnter(g, b) # ToEnter(g, a)
      /\ ToLeave(g, b) \subseteq ToLeave(g, a)
  <2>1. u \in ToEnter(g, a) /\ u \notin ToEnter(g, b)
    BY <1>4 DEF ToEnter
  <2>2. ToEnter(g, b) \subseteq ToEnter(g, a)
    BY <1>4 DEF ToEnter
  <2>3. ToLeave(g, b) \subseteq ToLeave(g, a)
    BY <1>4 DEF ToLeave
  <2> QED BY <2>1, <2>2, <2>3
<1>6. ToLook(g, b) \subseteq ToLook(g, a)
  <2> SUFFICES ASSUME NEW e \in ToLook(g, b) PROVE e \in ToLook(g, a)
    OBVIOUS
  <2>1. e \in PairsOf(DOMAIN g) /\ e[1] \in DOMAIN g
    BY PairParts DEF ToLook
  <2>2. CASE b.colour[e[1]] = "WHITE" /\ e[2] \in g[e[1]]
    BY <2>1, <2>2, <1>4 DEF ToLook
  <2>3. ASSUME NEW i \in 1..n + 1, b.calls[i].of = e[1], e[2] \in b.calls[i].todo
        PROVE  e \in ToLook(g, a)
    <3>1. CASE i = n + 1
      BY <3>1, <2>1, <2>3, <1>2, <1>3 DEF ToLook
    <3>2. CASE i \in 1..n
      <4>1. a.calls[i].of = e[1] /\ e[2] \in a.calls[i].todo
        BY <3>2, <2>3, <1>3 DEF n
      <4> QED BY <4>1, <3>2, <2>1, <1>3 DEF ToLook
    <3> QED BY <3>1, <3>2, <1>3
  <2> QED BY <2>2, <2>3, <1>3 DEF ToLook
<1> QED BY <1>5, <1>6, DfsLeftFalls DEF b

LEMMA ReturnFalls ==
  ASSUME NEW g, IsGraph(g), NEW throws \in BOOLEAN, NEW a, DfsInv(g, throws, a),
         Len(a.calls) > 0
  PROVE  DfsLeft(g, Return(a)) < DfsLeft(g, a)
<1> DEFINE b == Return(a)
           n == Len(a.calls)
           u == a.calls[n].of
<1>1. a \in SearchStates(g) /\ n \in Nat /\ n \in 1..n /\ u \in DOMAIN g
  BY StateFields DEF DfsInv
<1>2. a.colour[u] = "GRAY"
  BY <1>1 DEF DfsInv, CallsInv
<1>3. b.calls = SubSeq(a.calls, 1, n - 1) /\ b.colour = [a.colour EXCEPT ![u] = "BLACK"]
  <2>1. a = [calls |-> a.calls, colour |-> a.colour, order |-> a.order, cycle |-> a.cycle]
    BY <1>1 DEF SearchStates
  <2>2. b = [a EXCEPT !.calls = SubSeq(@, 1, n - 1), !.colour[u] = "BLACK",
                      !.order = Append(@, u)]
    BY DEF Return
  <2> HIDE DEF b, n, u
  <2> QED BY <2>1, <2>2
<1> HIDE DEF b
<1>4. Len(b.calls) = n - 1 /\ \A i \in 1..n - 1 : b.calls[i] = a.calls[i] /\ i \in 1..n
  <2> DEFINE s == a.calls
  <2>1. s \in Seq(Frames(g)) /\ n - 1 \in 0..Len(s) /\ b.calls = SubSeq(s, 1, n - 1)
    BY <1>1, <1>3, StateFields
  <2> HIDE DEF s, n
  <2>2. /\ Len(SubSeq(s, 1, n - 1)) = n - 1
        /\ \A i \in 1..n - 1 : SubSeq(s, 1, n - 1)[i] = s[i]
    BY <2>1, <1>1
  <2>3. \A i \in 1..n - 1 : i \in 1..n
    BY <1>1
  <2> QED BY <2>1, <2>2, <2>3 DEF s
<1>5. /\ \A t \in DOMAIN g : t # u => b.colour[t] = a.colour[t]
      /\ b.colour[u] = "BLACK"
  BY <1>1, <1>3, StateFields
<1> HIDE DEF n, u
<1>6. ToEnter(g, b) \subseteq ToEnter(g, a)
  BY <1>5 DEF ToEnter
<1>7. ToLeave(g, b) \subseteq ToLeave(g, a) /\ ToLeave(g, b) # ToLeave(g, a)
  <2>1. u \in ToLeave(g, a) /\ u \notin ToLeave(g, b)
    BY <1>1, <1>2, <1>5 DEF ToLeave
  <2>2. ToLeave(g, b) \subseteq ToLeave(g, a)
    BY <1>5, <2>1 DEF ToLeave
  <2> QED BY <2>1, <2>2
<1>8. ToLook(g, b) \subseteq ToLook(g, a)
  <2> SUFFICES ASSUME NEW e \in ToLook(g, b) PROVE e \in ToLook(g, a)
    OBVIOUS
  <2>1. e \in PairsOf(DOMAIN g) /\ e[1] \in DOMAIN g
    BY PairParts DEF ToLook
  <2>2. CASE b.colour[e[1]] = "WHITE" /\ e[2] \in g[e[1]]
    BY <2>1, <2>2, <1>5 DEF ToLook
  <2>3. ASSUME NEW i \in 1..n - 1, b.calls[i].of = e[1], e[2] \in b.calls[i].todo
        PROVE  e \in ToLook(g, a)
    BY <2>1, <2>3, <1>4 DEF ToLook, n
  <2> QED BY <2>2, <2>3, <1>4 DEF ToLook
<1> QED BY <1>6, <1>7, <1>8, DfsLeftFalls DEF b

LEMMA TrimFalls ==
  ASSUME NEW g, IsGraph(g), NEW throws \in BOOLEAN, NEW a, DfsInv(g, throws, a),
         Len(a.calls) > 0, NEW v \in a.calls[Len(a.calls)].todo,
         NEW b, b.colour = a.colour, Trimmed(g, a, b.calls, v)
  PROVE  DfsLeft(g, b) < DfsLeft(g, a)
<1> DEFINE n == Len(a.calls)
           u == a.calls[n].of
<1>1. /\ a \in SearchStates(g) /\ n \in Nat /\ n \in 1..n /\ u \in DOMAIN g /\ v \in DOMAIN g
  BY StateFields DEF DfsInv
<1>2. /\ a.colour[u] = "GRAY"
      /\ \A i \in 1..n : a.calls[i].of = u => i = n
  BY <1>1 DEF DfsInv, CallsInv
<1>3. /\ Len(b.calls) = n
      /\ \A i \in 1..n : /\ b.calls[i].of = a.calls[i].of
                        /\ b.calls[i].todo = IF i = n THEN a.calls[i].todo \ {v}
                                             ELSE a.calls[i].todo
  BY DEF Trimmed
<1>4. ToEnter(g, b) = ToEnter(g, a) /\ ToLeave(g, b) = ToLeave(g, a)
  BY DEF ToEnter, ToLeave
<1>5. v \in a.calls[n].todo
  OBVIOUS
<1> HIDE DEF n, u
<1>6. <<u, v>> \in ToLook(g, a)
  <2>1. <<u, v>> \in PairsOf(DOMAIN g) /\ <<u, v>>[1] = u /\ <<u, v>>[2] = v
    BY <1>1, PairParts
  <2> QED BY <2>1, <1>1, <1>5 DEF ToLook, n, u
<1>7. <<u, v>> \notin ToLook(g, b)
  <2>1. <<u, v>>[1] = u /\ <<u, v>>[2] = v
    OBVIOUS
  <2>2. ASSUME NEW i \in 1..n, b.calls[i].of = u, v \in b.calls[i].todo PROVE FALSE
    BY <2>2, <1>2, <1>3
  <2> QED BY <2>1, <2>2, <1>2, <1>3 DEF ToLook
<1>8. ToLook(g, b) \subseteq ToLook(g, a)
  <2> SUFFICES ASSUME NEW e \in ToLook(g, b) PROVE e \in ToLook(g, a)
    OBVIOUS
  <2>1. e \in PairsOf(DOMAIN g)
    BY DEF ToLook
  <2>2. CASE b.colour[e[1]] = "WHITE" /\ e[2] \in g[e[1]]
    BY <2>1, <2>2 DEF ToLook
  <2>3. ASSUME NEW i \in 1..n, b.calls[i].of = e[1], e[2] \in b.calls[i].todo
        PROVE  e \in ToLook(g, a)
    BY <2>1, <2>3, <1>3 DEF ToLook, n
  <2> QED BY <2>2, <2>3, <1>3 DEF ToLook
<1> QED BY <1>4, <1>6, <1>7, <1>8, DfsLeftFalls

LEMMA StepFalls ==
  ASSUME NEW g, IsGraph(g), NEW throws \in BOOLEAN, NEW a, DfsInv(g, throws, a), ~Over(g, a)
  PROVE  DfsLeft(g, Step(g, throws, a)) < DfsLeft(g, a)
<1> DEFINE n == Len(a.calls)
           c(v) == [a.calls EXCEPT ![n].todo = @ \ {v}]
<1>1. a \in SearchStates(g) /\ n \in Nat
  BY StateFields DEF DfsInv
<1>2. ASSUME a.calls = <<>>, NEW u \in DOMAIN g, a.colour[u] = "WHITE"
      PROVE  DfsLeft(g, Call(g, a, u)) < DfsLeft(g, a)
  <2>1. PICK f : f = a.calls
    OBVIOUS
  <2>2. /\ f \in Seq(Frames(g)) /\ Len(f) = Len(a.calls)
        /\ \A i \in 1..Len(f) : f[i].of = a.calls[i].of /\ f[i].todo \subseteq a.calls[i].todo
    BY <1>1, <2>1, StateFields
  <2>3. [a EXCEPT !.calls = f] = a
    BY <1>1, <2>1 DEF SearchStates
  <2>4. DfsLeft(g, Call(g, [a EXCEPT !.calls = f], u)) < DfsLeft(g, a)
    BY <1>1, <1>2, <2>2, CallFalls
  <2> QED BY <2>3, <2>4
<1>3. ASSUME n > 0, a.calls[n].todo # {} PROVE DfsLeft(g, Follow(g, throws, a)) < DfsLeft(g, a)
  <2> DEFINE v == CHOOSE t \in a.calls[n].todo : TRUE
             rest == [a EXCEPT !.calls[n].todo = @ \ {v}]
  <2>1. v \in a.calls[n].todo /\ v \in DOMAIN g
    BY <1>1, <1>3, StateFields
  <2>2. Trimmed(g, a, c(v), v)
    BY <1>1, <1>3, Trimming
  <2>3. rest = [a EXCEPT !.calls = c(v)]
    OBVIOUS
  <2>4. Follow(g, throws, a) =
           CASE a.colour[v] = "WHITE" -> Call(g, rest, v)
             [] throws /\ a.colour[v] = "GRAY" -> [rest EXCEPT !.cycle = CyclePath(a.calls, v)]
             [] OTHER -> rest
    BY DEF Follow
  <2> HIDE DEF v, rest, c, n
  <2>5. rest.calls = c(v) /\ rest.colour = a.colour
        /\ rest = [calls |-> c(v), colour |-> a.colour, order |-> a.order, cycle |-> a.cycle]
    BY <1>1, <2>3 DEF SearchStates
  <2>6. CASE a.colour[v] = "WHITE"
    <3>1. Follow(g, throws, a) = Call(g, [a EXCEPT !.calls = c(v)], v)
      BY <2>3, <2>4, <2>6
    <3>2. /\ c(v) \in Seq(Frames(g)) /\ Len(c(v)) = Len(a.calls)
          /\ \A i \in 1..Len(c(v)) : /\ c(v)[i].of = a.calls[i].of
                                    /\ c(v)[i].todo \subseteq a.calls[i].todo
      BY <2>2 DEF Trimmed
    <3>3. DfsLeft(g, Call(g, [a EXCEPT !.calls = c(v)], v)) < DfsLeft(g, a)
      BY <1>1, <2>1, <2>6, <3>2, CallFalls
    <3> QED BY <3>1, <3>3
  <2>7. CASE a.colour[v] # "WHITE"
    <3> DEFINE b == Follow(g, throws, a)
    <3>1. b.colour = a.colour /\ b.calls = c(v)
      <4>1. CASE throws /\ a.colour[v] = "GRAY"
        <5>1. b = [rest EXCEPT !.cycle = CyclePath(a.calls, v)]
          BY <2>4, <2>7, <4>1
        <5> HIDE DEF b
        <5> QED BY <5>1, <2>5
      <4>2. CASE ~(throws /\ a.colour[v] = "GRAY")
        <5>1. b = rest
          BY <2>4, <2>7, <4>2
        <5> HIDE DEF b
        <5> QED BY <5>1, <2>5
      <4> QED BY <4>1, <4>2
    <3> HIDE DEF b
    <3>2. DfsLeft(g, b) < DfsLeft(g, a)
      BY <3>1, <1>3, <2>1, <2>2, TrimFalls DEF n
    <3> QED BY <3>2 DEF b
  <2> QED BY <2>6, <2>7
<1>4. ASSUME n > 0 PROVE DfsLeft(g, Return(a)) < DfsLeft(g, a)
  BY <1>4, ReturnFalls
<1> QED BY <1>1, <1>2, <1>3, <1>4, StepIs

LEMMA UntouchedFits ==
  ASSUME NEW g, NEW throws \in BOOLEAN
  PROVE  DfsInv(g, throws, Untouched(g))
<1> DEFINE a == Untouched(g)
<1>1. /\ a = [calls |-> <<>>, colour |-> [t \in DOMAIN g |-> "WHITE"], order |-> <<>>,
              cycle |-> <<>>]
      /\ a.calls = <<>> /\ a.order = <<>> /\ a.cycle = <<>>
      /\ a.colour = [t \in DOMAIN g |-> "WHITE"]
  BY DEF Untouched
<1>2. Len(a.calls) = 0 /\ Len(a.order) = 0
  BY <1>1
<1> HIDE DEF a
<1>3. a \in SearchStates(g)
  BY <1>1 DEF SearchStates, Colours
<1>4. CallsInv(g, a) /\ PushedInv(g, a) /\ NoneMet(g, a)
  BY <1>1, <1>2 DEF CallsInv, PushedInv, NoneMet
<1>5. CycleInv(g, throws, a)
  BY <1>1, <1>4 DEF CycleInv
<1> QED BY <1>3, <1>4, <1>5 DEF DfsInv, a

\* A search takes as many steps as StepsOf says, and keeps its invariant.
LEMMA SearchRuns ==
  ASSUME NEW g, IsGraph(g), NEW throws \in BOOLEAN
  PROVE  /\ StepsOf(g) \in Nat
         /\ \E h : /\ h[0] = Untouched(g)
                   /\ \A k \in 1..StepsOf(g) : h[k] = Step(g, throws, h[k - 1])
                   /\ \A k \in 0..StepsOf(g) : DfsInv(g, throws, h[k])
                   /\ Search(g, throws) = h[StepsOf(g)]
<1> DEFINE S == {a \in SearchStates(g) : DfsInv(g, throws, a)}
           F == [a \in S |-> Step(g, throws, a)]
           N == StepsOf(g)
           start == Untouched(g)
           Rec(h) == [k \in 0..N |-> IF k = 0 THEN start ELSE Step(g, throws, h[k - 1])]
           after == CHOOSE h : h = Rec(h)
<1>1. Search(g, throws) = after[N]
  BY DEF Search
<1>2. start \in S /\ N \in Nat
  BY UntouchedFits, DfsLeftBounded DEF DfsInv
<1>3. F \in [S -> S]
  BY StepKeeps DEF DfsInv
<1>4. \A a \in S : F[a] = Step(g, throws, a)
  OBVIOUS
<1>5. PICK h : IsRun(h, S, F, start, N)
  <2> HIDE DEF S, F, N, start
  <2> QED BY <1>2, <1>3, IterationExists
<1>6. after = Rec(after)
  <2>1. h = Rec(h)
    <3>1. \A k \in 0..N : k # 0 => k \in 1..N /\ k - 1 \in 0..N
      BY <1>2
    <3>2. \A k \in 0..N : h[k] = IF k = 0 THEN start ELSE Step(g, throws, h[k - 1])
      <4> HIDE DEF S, F, N, start
      <4> QED BY <1>4, <1>5, <3>1 DEF IsRun
    <3> HIDE DEF S, F, N, start
    <3> QED BY <1>5, <3>2 DEF IsRun
  <2> HIDE DEF Rec
  <2> QED BY <2>1
<1> HIDE DEF after
<1>7. after[0] = start /\ \A k \in 1..N : after[k] = Step(g, throws, after[k - 1])
  <2>1. 0 \in 0..N /\ \A n \in 1..N : n \in 0..N /\ n # 0
    BY <1>2
  <2> HIDE DEF S, F, N, start
  <2> QED BY <1>6, <2>1
<1> DEFINE Fine == {k \in 0..N : DfsInv(g, throws, after[k])}
<1>8. 0 \in Fine /\ Fine \in SUBSET Nat
  BY <1>2, <1>7
<1>9. ASSUME NEW k \in 1..N, k - 1 \in Fine PROVE k \in Fine
  BY <1>7, <1>9, StepKeeps
<1>10. \A k \in 0..N : k \in Fine
  <2> HIDE DEF Fine, N
  <2> QED BY <1>2, <1>8, <1>9, UpTo
<1> QED BY <1>1, <1>2, <1>7, <1>10

\* The number of steps Search takes is enough, for every finite graph.
LEMMA SearchEnds ==
  ASSUME NEW g, IsGraph(g), NEW throws \in BOOLEAN
  PROVE  DfsInv(g, throws, Search(g, throws)) /\ Over(g, Search(g, throws))
<1> DEFINE S == {a \in SearchStates(g) : DfsInv(g, throws, a)}
           F == [a \in S |-> Step(g, throws, a)]
           N == StepsOf(g)
           start == Untouched(g)
           over == {a \in S : Over(g, a)}
           left == [a \in S |-> DfsLeft(g, a)]
<1>1. PICK after : /\ after[0] = start /\ \A k \in 1..N : after[k] = Step(g, throws, after[k - 1])
                   /\ Search(g, throws) = after[N]
  BY SearchRuns
<1>2. start \in S /\ N \in Nat
  BY UntouchedFits, DfsLeftBounded DEF DfsInv
<1>3. F \in [S -> S]
  BY StepKeeps DEF DfsInv
<1>4. \A a \in S : F[a] = Step(g, throws, a)
  OBVIOUS
<1>5. FollowsIn(after, S, F, start, N)
  <2> HIDE DEF S, F, N, start
  <2> QED BY <1>1, <1>4 DEF FollowsIn
<1>6. over \in SUBSET S /\ \A a \in over : F[a] = a
  BY <1>4, StepIs
<1>7. left \in [S -> Nat] /\ left[start] <= N
  BY <1>2, DfsLeftBounded
<1>8. \A a \in S \ over : left[F[a]] < left[a]
  BY <1>3, <1>4, StepFalls
<1>9. EndsIn(over, left, S, F)
  BY <1>6, <1>7, <1>8 DEF EndsIn
<1>10. after[N] \in over
  <2> HIDE DEF S, F, N, start, over, left
  <2> QED BY <1>2, <1>3, <1>5, <1>7, <1>9, IterationEnds
<1> QED BY <1>1, <1>10

LEMMA OverIsOrdered ==
  ASSUME NEW g, NEW a \in SearchStates(g), CallsInv(g, a), PushedInv(g, a), NoneMet(g, a),
         Over(g, a), a.cycle = <<>>
  PROVE  IsOrderOf(a.order, g)
<1>1. a.calls = <<>> /\ Len(a.calls) = 0 /\ \A t \in DOMAIN g : a.colour[t] # "WHITE"
  BY DEF Over
<1>2. \A t \in DOMAIN g : a.colour[t] = "BLACK"
  <2>1. \A t \in DOMAIN g : a.colour[t] # "GRAY"
    BY <1>1 DEF CallsInv
  <2> QED BY <1>1, <2>1, StateFields DEF Colours
<1>3. /\ DOMAIN a.order = 1..Len(a.order) /\ Len(a.order) \in Nat
      /\ \A i \in 1..Len(a.order) : a.order[i] \in DOMAIN g
  <2>1. PICK s : s = a.order
    OBVIOUS
  <2>2. s \in Seq(DOMAIN g)
    BY <2>1, StateFields
  <2> QED BY <2>1, <2>2
<1>4. {a.order[i] : i \in DOMAIN a.order} = DOMAIN g
  <2>1. \A i \in DOMAIN a.order : a.order[i] \in DOMAIN g
    BY <1>3
  <2>2. \A u \in DOMAIN g : \E i \in DOMAIN a.order : a.order[i] = u
    BY <1>2, <1>3 DEF PushedInv
  <2> QED BY <2>1, <2>2
<1>5. \A i, j \in DOMAIN a.order : a.order[i] = a.order[j] => i = j
  BY <1>3 DEF PushedInv
<1>6. ASSUME NEW i \in DOMAIN a.order, NEW j \in DOMAIN a.order, a.order[i] \in g[a.order[j]]
      PROVE  i < j
  <2>1. PICK k \in 1..Len(a.order) : k < j /\ a.order[k] = a.order[i]
    BY <1>3, <1>6 DEF NoneMet
  <2> QED BY <2>1, <1>3, <1>5
<1> QED BY <1>4, <1>5, <1>6 DEF IsOrderOf

\* What dfs reports is a cycle, and it reports one exactly when there is one.
LEMMA FindsEveryCycle ==
  ASSUME NEW g, IsGraph(g)
  PROVE  /\ FindsCycle(g) <=> Cyclic(g)
         /\ FindsCycle(g) => IsCycleOf(FoundCycle(g), g)
<1> DEFINE a == Search(g, TRUE)
<1>1. DfsInv(g, TRUE, a) /\ Over(g, a)
  BY SearchEnds
<1>2. FoundCycle(g) = a.cycle /\ (FindsCycle(g) <=> a.cycle # <<>>)
  BY DEF FoundCycle, FindsCycle
<1> HIDE DEF a
<1>3. a \in SearchStates(g) /\ a.cycle \in Seq(DOMAIN g) /\ a.order \in Seq(DOMAIN g)
  BY <1>1, StateFields DEF DfsInv
<1>4. CASE a.cycle # <<>>
  <2>1. IsCycleOf(a.cycle, g)
    BY <1>1, <1>4 DEF DfsInv, CycleInv
  <2>2. Len(a.cycle) \in Nat
    <3>1. PICK path : path = a.cycle
      OBVIOUS
    <3> QED BY <3>1, <1>3
  <2>3. Cyclic(g)
    BY <2>1, <2>2, CyclesClose
  <2> QED BY <1>2, <1>4, <2>1, <2>3
<1>5. CASE a.cycle = <<>>
  <2>1. IsOrderOf(a.order, g)
    BY <1>1, <1>5, OverIsOrdered DEF DfsInv, CycleInv
  <2>2. ~Cyclic(g)
    BY <1>3, <2>1, OrderedIsAcyclic
  <2> QED BY <1>2, <1>5, <2>2
<1> QED BY <1>4, <1>5

\* getTopologicalOrder lists every task once, after its prerequisites, unless
\* the graph has a cycle.
LEMMA OrdersAcyclic ==
  ASSUME NEW g, IsGraph(g), ~Cyclic(g)
  PROVE  IsOrderOf(TopologicalOrder(g), g)
<1>1. DfsInv(g, FALSE, Search(g, FALSE)) /\ Over(g, Search(g, FALSE))
  BY SearchEnds
<1> QED BY <1>1, OverIsOrdered DEF DfsInv, CycleInv, TopologicalOrder

-----------------------------------------------------------------------------
(***************************************************************************)
(* The searches of GraphQuery.                                             *)
(***************************************************************************)

Members(q) == {q[i] : i \in 1..Len(q)}
OnceEach(q) == \A i, j \in 1..Len(q) : q[i] = q[j] => i = j
Partial(S, T) == UNION {[D -> T] : D \in SUBSET S}

LEMMA Partials ==
  ASSUME NEW S, NEW T, NEW f
  PROVE  f \in Partial(S, T) <=>
           DOMAIN f \subseteq S /\ f = [x \in DOMAIN f |-> f[x]] /\ \A x \in DOMAIN f : f[x] \in T
<1>1. ASSUME f \in Partial(S, T)
      PROVE  DOMAIN f \subseteq S /\ f = [x \in DOMAIN f |-> f[x]] /\ \A x \in DOMAIN f : f[x] \in T
  <2>1. PICK D \in SUBSET S : f \in [D -> T]
    BY <1>1 DEF Partial
  <2> QED BY <2>1
<1>2. ASSUME DOMAIN f \subseteq S, f = [x \in DOMAIN f |-> f[x]], \A x \in DOMAIN f : f[x] \in T
      PROVE  f \in Partial(S, T)
  <2>1. f \in [DOMAIN f -> T]
    BY <1>2
  <2> QED BY <1>2, <2>1 DEF Partial
<1> QED BY <1>1, <1>2

\* A function made from two.
\* g is f with new values, of T, on D.
GivesMore(f, D, T, g) ==
    /\ g = [x \in DOMAIN f \cup D |-> g[x]]
    /\ \A x \in D : g[x] \in T
    /\ \A x \in DOMAIN f \ D : g[x] = f[x]

LEMMA PartialMore ==
  ASSUME NEW S, NEW T, NEW f \in Partial(S, T), NEW D \in SUBSET S, NEW g, GivesMore(f, D, T, g)
  PROVE  g \in Partial(S, T) /\ DOMAIN g = DOMAIN f \cup D
<1>1. DOMAIN g = DOMAIN f \cup D
  BY DEF GivesMore
<1>2. DOMAIN f \subseteq S /\ \A x \in DOMAIN f : f[x] \in T
  BY Partials
<1>3. \A x \in DOMAIN g : g[x] \in T
  BY <1>1, <1>2 DEF GivesMore
<1>4. DOMAIN g \subseteq S /\ g = [x \in DOMAIN g |-> g[x]]
  BY <1>1, <1>2 DEF GivesMore
<1> QED BY <1>1, <1>3, <1>4, Partials

LEMMA SetToSeqIs ==
  ASSUME NEW S, IsFiniteSet(S)
  PROVE  /\ SetToSeq(S) \in Seq(S) /\ Len(SetToSeq(S)) = Cardinality(S)
         /\ Cardinality(S) \in Nat
         /\ OnceEach(SetToSeq(S)) /\ Members(SetToSeq(S)) = S
<1> DEFINE n == Cardinality(S)
           q == SetToSeq(S)
<1>1. n \in Nat /\ IsFiniteSet(1..n) /\ Cardinality(1..n) = n
  BY FS_CardinalityType, FS_Interval
<1>2. PICK f : f \in Bijection(1..n, S)
  BY FS_CardinalityType DEF ExistsBijection
<1>3. f \in [1..n -> S] /\ IsInjective(f)
  BY <1>2 DEF Bijection, Injection, IsInjective
<1>4. q \in [1..n -> S] /\ IsInjective(q)
  BY <1>3 DEF SetToSeq
<1> HIDE DEF q
<1>5. q \in Injection(1..n, S)
  BY <1>4 DEF Injection, IsInjective
<1>6. q \in Surjection(1..n, S)
  BY <1>1, <1>5, FS_Injection
<1>7. q \in Seq(S) /\ Len(q) = n
  BY <1>1, <1>4
<1>8. Members(q) = S
  BY <1>6, <1>7 DEF Surjection, Members
<1>9. OnceEach(q)
  BY <1>4, <1>7 DEF OnceEach, IsInjective
<1> QED BY <1>1, <1>7, <1>8, <1>9 DEF q

LEMMA Concatenation ==
  ASSUME NEW U, NEW s \in Seq(U), NEW r \in Seq(U)
  PROVE  /\ s \o r \in Seq(U) /\ Len(s \o r) = Len(s) + Len(r)
         /\ \A i \in 1..Len(s) + Len(r) : (s \o r)[i] = IF i <= Len(s) THEN s[i] ELSE r[i - Len(s)]
<1>1. Len(s) \in Nat /\ Len(r) \in Nat
  OBVIOUS
<1>2. s \o r \in Seq(U) /\ Len(s \o r) = Len(s) + Len(r)
  OBVIOUS
<1>3. ASSUME NEW i \in 1..Len(s) + Len(r)
      PROVE  (s \o r)[i] = IF i <= Len(s) THEN s[i] ELSE r[i - Len(s)]
  BY <1>1
<1> QED BY <1>2, <1>3

\* The first leaves the queue, and others go to its end.
Queued(q, S) == Tail(q) \o SetToSeq(S)

LEMMA QueueMoves ==
  ASSUME NEW U, IsFiniteSet(U), NEW q \in Seq(U), q # <<>>, OnceEach(q),
         NEW S \in SUBSET U, S \cap Members(q) = {}
  PROVE  /\ Queued(q, S) \in Seq(U) /\ OnceEach(Queued(q, S))
         /\ Len(Queued(q, S)) = Len(q) - 1 + Cardinality(S)
         /\ Members(Queued(q, S)) = (Members(q) \ {Head(q)}) \cup S
         /\ Len(q) \in Nat \ {0} /\ Cardinality(S) \in Nat
         /\ Head(q) = q[1] /\ Head(q) \in Members(q) /\ Head(q) \in U
         /\ \A i \in 1..Len(q) - 1 : Queued(q, S)[i] = q[i + 1] /\ i + 1 \in 1..Len(q)
         /\ \A i \in 1..Len(Queued(q, S)) : i \notin 1..Len(q) - 1 => Queued(q, S)[i] \in S
<1> DEFINE n == Len(q)
           t == Tail(q)
           r == SetToSeq(S)
           x == t \o r
<1>1. IsFiniteSet(S)
  BY FS_Subset
<1>2. r \in Seq(S) /\ Len(r) = Cardinality(S) /\ Cardinality(S) \in Nat /\ OnceEach(r)
      /\ Members(r) = S
  BY <1>1, SetToSeqIs
<1>3. n \in Nat \ {0} /\ Head(q) = q[1] /\ q[1] \in U /\ \A i \in 1..n : q[i] \in U
  OBVIOUS
<1>4. t \in Seq(U) /\ Len(t) = n - 1 /\ \A i \in 1..n - 1 : t[i] = q[i + 1] /\ i + 1 \in 1..n
  OBVIOUS
<1>5. r \in Seq(U) /\ \A i \in 1..Len(r) : r[i] \in S
  BY <1>2
<1> HIDE DEF t, r, n
<1>6. /\ x \in Seq(U) /\ Len(x) = n - 1 + Cardinality(S)
      /\ \A i \in 1..n - 1 : x[i] = t[i]
      /\ \A i \in 1..Len(x) : i \notin 1..n - 1 => x[i] = r[i - (n - 1)] /\ i - (n - 1) \in 1..Len(r)
      /\ \A i \in 1..Len(r) : x[i + (n - 1)] = r[i] /\ i + (n - 1) \in 1..Len(x)
  <2>1. /\ x \in Seq(U) /\ Len(x) = Len(t) + Len(r)
        /\ \A i \in 1..Len(t) + Len(r) : x[i] = IF i <= Len(t) THEN t[i] ELSE r[i - Len(t)]
    BY <1>4, <1>5, Concatenation
  <2>2. Len(r) \in Nat /\ Len(t) = n - 1 /\ n - 1 \in Nat
    BY <1>2, <1>3, <1>4
  <2> HIDE DEF x
  <2>3. \A i \in 1..n - 1 : x[i] = t[i]
    BY <2>1, <2>2
  <2>4. \A i \in 1..Len(x) : i \notin 1..n - 1 =>
            x[i] = r[i - (n - 1)] /\ i - (n - 1) \in 1..Len(r)
    BY <2>1, <2>2
  <2>5. ASSUME NEW i \in 1..Len(r)
        PROVE  x[i + (n - 1)] = r[i] /\ i + (n - 1) \in 1..Len(x)
    <3>1. i + (n - 1) \in 1..Len(x) /\ i + (n - 1) \notin 1..n - 1 /\ (i + (n - 1)) - (n - 1) = i
      BY <2>1, <2>2
    <3> QED BY <3>1, <2>4
  <2> QED BY <1>2, <2>1, <2>2, <2>3, <2>4, <2>5
<1>7. /\ \A i \in 1..n - 1 : x[i] = q[i + 1] /\ i + 1 \in 1..n /\ i \in 1..Len(x)
      /\ \A i \in 1..Len(x) : i \notin 1..n - 1 => x[i] \in S
  BY <1>2, <1>3, <1>4, <1>5, <1>6
<1>8. OnceEach(x)
  <2> SUFFICES ASSUME NEW i \in 1..Len(x), NEW j \in 1..Len(x), x[i] = x[j] PROVE i = j
    BY DEF OnceEach
  <2>1. CASE i \in 1..n - 1 /\ j \in 1..n - 1
    <3>1. i + 1 = j + 1
      BY <2>1, <1>7 DEF OnceEach, n
    <3> QED BY <3>1
  <2>2. CASE i \notin 1..n - 1 /\ j \notin 1..n - 1
    <3>1. i - (n - 1) = j - (n - 1)
      BY <2>2, <1>2, <1>6 DEF OnceEach
    <3> QED BY <3>1, <1>3
  <2>3. ASSUME NEW k \in 1..n - 1, NEW l \in 1..Len(x), l \notin 1..n - 1, x[k] = x[l] PROVE FALSE
    <3>1. x[k] \in Members(q) /\ x[l] \in S
      BY <2>3, <1>7 DEF Members, n
    <3> QED BY <2>3, <3>1
  <2> QED BY <2>1, <2>2, <2>3
<1>9. Members(x) = (Members(q) \ {q[1]}) \cup S
  <2>1. ASSUME NEW i \in 1..Len(x) PROVE x[i] \in (Members(q) \ {q[1]}) \cup S
    <3>1. CASE i \in 1..n - 1
      <4>1. x[i] = q[i + 1] /\ i + 1 \in 1..n /\ i + 1 # 1 /\ 1 \in 1..n
        BY <3>1, <1>3, <1>7
      <4> QED BY <4>1 DEF OnceEach, Members, n
    <3> QED BY <3>1, <1>7
  <2>2. ASSUME NEW v \in Members(q) \ {q[1]} PROVE v \in Members(x)
    <3>1. PICK i \in 1..n : v = q[i] /\ i # 1
      BY DEF Members, n
    <3>2. i - 1 \in 1..n - 1 /\ (i - 1) + 1 = i
      BY <3>1, <1>3
    <3>3. x[i - 1] = v /\ i - 1 \in 1..Len(x)
      BY <3>1, <3>2, <1>7
    <3> QED BY <3>3 DEF Members
  <2>3. ASSUME NEW v \in S PROVE v \in Members(x)
    <3>1. PICK i \in 1..Len(r) : v = r[i]
      BY <1>2 DEF Members
    <3> QED BY <3>1, <1>6 DEF Members
  <2> QED BY <2>1, <2>2, <2>3 DEF Members
<1>10. q[1] \in Members(q)
  BY <1>3 DEF Members, n
<1>11. Queued(q, S) = x
  BY DEF Queued, t, r
<1> HIDE DEF x
<1> QED BY <1>2, <1>3, <1>6, <1>7, <1>8, <1>9, <1>10, <1>11 DEF n


-----------------------------------------------------------------------------
\* The ways on from each node, all within a finite set of nodes.
IsNet(next, E) ==
    /\ IsFiniteSet(DOMAIN next)
    /\ \A u \in DOMAIN next : next[u] \in SUBSET [edge : E, node : DOMAIN next]

SpreadStates(N, E) ==
    [queue : Seq(N), at : Partial(N, Nat), from : Partial(N, [prev : N, edge : E])]

\* Each node but the first was found from another, one step nearer.
SpreadFound(next, within, s, a) ==
    /\ s \in DOMAIN a.at /\ a.at[s] = 0
    /\ DOMAIN a.from = DOMAIN a.at \ {s}
    /\ \A v \in DOMAIN a.from :
          /\ a.from[v].prev \in DOMAIN a.at /\ a.at[a.from[v].prev] \in within
          /\ a.at[v] = a.at[a.from[v].prev] + 1
          /\ Way(a.from[v].edge, v) \in next[a.from[v].prev]

\* The queue holds the last nodes found, by their distance, of which there are two.
SpreadQueue(a) ==
    /\ OnceEach(a.queue) /\ Members(a.queue) \subseteq DOMAIN a.at
    /\ \A i, j \in 1..Len(a.queue) : i <= j => a.at[a.queue[i]] <= a.at[a.queue[j]]
    /\ \A i \in 1..Len(a.queue) : a.at[a.queue[i]] <= a.at[a.queue[1]] + 1
    /\ a.queue # <<>> =>
          \A v \in DOMAIN a.at \ Members(a.queue) : a.at[v] <= a.at[a.queue[1]]

\* From a node that has left the queue all ways on have been taken.
SpreadDone(next, within, targets, a) ==
    \A v \in DOMAIN a.at \ Members(a.queue) :
        /\ v \notin targets
        /\ a.at[v] \in within =>
              \A x \in next[v] : x.node \in DOMAIN a.at /\ a.at[x.node] <= a.at[v] + 1

SpreadInv(next, E, within, targets, s, a) ==
    /\ a \in SpreadStates(DOMAIN next, E)
    /\ SpreadFound(next, within, s, a) /\ SpreadQueue(a) /\ SpreadDone(next, within, targets, a)

SpreadOver(targets, a) == a.queue = <<>> \/ Head(a.queue) \in targets
SpreadLeft(next, a) == Cardinality(DOMAIN next \ DOMAIN a.at) + Len(a.queue)

\* u leaves the queue and fresh nodes are found from it.
Spreads(next, E, a, u, fresh, b) ==
    /\ b = [queue |-> b.queue, at |-> b.at, from |-> b.from]
    /\ b.queue = Queued(a.queue, fresh)
    /\ b.at = [v \in DOMAIN a.at \cup fresh |-> b.at[v]]
    /\ \A v \in DOMAIN a.at : b.at[v] = a.at[v]
    /\ \A v \in fresh : b.at[v] = a.at[u] + 1
    /\ b.from = [v \in DOMAIN a.from \cup fresh |-> b.from[v]]
    /\ \A v \in DOMAIN a.from \ fresh : b.from[v] = a.from[v]
    /\ \A v \in fresh : /\ b.from[v] \in [prev : {u}, edge : E]
                        /\ Way(b.from[v].edge, v) \in next[u]

LEMMA WayParts ==
  ASSUME NEW E, NEW N, NEW x \in [edge : E, node : N]
  PROVE  x = Way(x.edge, x.node) /\ x.edge \in E /\ x.node \in N
BY DEF Way

LEMMA SpreadFields ==
  ASSUME NEW N, NEW E, NEW a \in SpreadStates(N, E)
  PROVE  /\ a.queue \in Seq(N) /\ a.at \in Partial(N, Nat)
         /\ a.from \in Partial(N, [prev : N, edge : E])
         /\ Len(a.queue) \in Nat
         /\ DOMAIN a.at \subseteq N /\ \A v \in DOMAIN a.at : a.at[v] \in Nat
         /\ DOMAIN a.from \subseteq N
         /\ \A v \in DOMAIN a.from : a.from[v].prev \in N /\ a.from[v].edge \in E
<1> DEFINE q == a.queue
           f == a.from
<1>1. q \in Seq(N) /\ a.at \in Partial(N, Nat) /\ f \in Partial(N, [prev : N, edge : E])
  BY DEF SpreadStates
<1> HIDE DEF q, f
<1>2. Len(q) \in Nat
  BY <1>1
<1>3. DOMAIN a.at \subseteq N /\ \A v \in DOMAIN a.at : a.at[v] \in Nat
  BY <1>1, Partials
<1>4. DOMAIN f \subseteq N /\ \A v \in DOMAIN f : f[v] \in [prev : N, edge : E]
  <2> DEFINE T == [prev : N, edge : E]
  <2>1. f \in Partial(N, T)
    BY <1>1
  <2> HIDE DEF T
  <2>2. DOMAIN f \subseteq N /\ \A v \in DOMAIN f : f[v] \in T
    BY <2>1, Partials
  <2> QED BY <2>2 DEF T
<1> QED BY <1>1, <1>2, <1>3, <1>4 DEF q, f

LEMMA SpreadRoundSpreads ==
  ASSUME NEW next, NEW E, IsNet(next, E), NEW within, NEW targets,
         NEW a \in SpreadStates(DOMAIN next, E), ~SpreadOver(targets, a),
         Members(a.queue) \subseteq DOMAIN a.at, OnceEach(a.queue)
  PROVE  \E fresh \in SUBSET (DOMAIN next \ DOMAIN a.at) :
            LET u == Head(a.queue)
            IN  /\ Spreads(next, E, a, u, fresh, SpreadRound(next, within, targets, a))
                /\ fresh # {} => a.at[u] \in within
                /\ a.at[u] \in within => \A x \in next[u] : x.node \in DOMAIN a.at \cup fresh
<1> DEFINE u == Head(a.queue)
           ways == IF a.at[u] \in within THEN next[u] ELSE {}
           fresh == {x.node : x \in ways} \ DOMAIN a.at
           Found(v) == CHOOSE x \in ways : x.node = v
           b == [queue |-> Tail(a.queue) \o SetToSeq(fresh),
                 at |-> [v \in DOMAIN a.at \cup fresh |->
                            IF v \in fresh THEN a.at[u] + 1 ELSE a.at[v]],
                 from |-> [v \in DOMAIN a.from \cup fresh |->
                              IF v \in fresh THEN [prev |-> u, edge |-> Found(v).edge]
                              ELSE a.from[v]]]
<1>1. SpreadRound(next, within, targets, a) = b
  BY DEF SpreadRound, SpreadOver
<1>2. u \in DOMAIN next
  <2>1. PICK q : q = a.queue
    OBVIOUS
  <2>2. q \in Seq(DOMAIN next) /\ q # <<>>
    BY <2>1, SpreadFields DEF SpreadOver
  <2> QED BY <2>1, <2>2
<1> HIDE DEF u
<1>3. \A x \in ways : x \in [edge : E, node : DOMAIN next]
  BY <1>2 DEF IsNet
<1>4. fresh \in SUBSET (DOMAIN next \ DOMAIN a.at) /\ (fresh # {} => a.at[u] \in within)
  BY <1>3
<1>5. a.at[u] \in within => \A x \in next[u] : x.node \in DOMAIN a.at \cup fresh
  OBVIOUS
<1>6. \A v \in fresh : Found(v) \in ways /\ Found(v).node = v
  OBVIOUS
<1>7. \A v \in fresh : Found(v).edge \in E /\ Way(Found(v).edge, v) \in next[u]
  <2> TAKE v \in fresh
  <2>1. Found(v) \in ways /\ Found(v).node = v
    BY <1>6
  <2> HIDE DEF Found
  <2>2. Found(v) \in next[u]
    BY <2>1
  <2>3. Found(v) = Way(Found(v).edge, Found(v).node) /\ Found(v).edge \in E
    BY <2>1, <1>3, WayParts
  <2> QED BY <2>1, <2>2, <2>3
<1> HIDE DEF Found, fresh, ways
<1>8. b.queue = Queued(a.queue, fresh)
  BY DEF Queued
<1>9. Spreads(next, E, a, u, fresh, b)
  <2>1. fresh \cap DOMAIN a.at = {}
    BY <1>4
  <2>2. b.at = [v \in DOMAIN a.at \cup fresh |-> IF v \in fresh THEN a.at[u] + 1 ELSE a.at[v]]
    OBVIOUS
  <2>3. b.from = [v \in DOMAIN a.from \cup fresh |->
                     IF v \in fresh THEN [prev |-> u, edge |-> Found(v).edge] ELSE a.from[v]]
    OBVIOUS
  <2>4. b = [queue |-> b.queue, at |-> b.at, from |-> b.from]
    OBVIOUS
  <2> HIDE DEF b
  <2>5. \A v \in fresh : b.from[v] = [prev |-> u, edge |-> Found(v).edge]
    BY <2>3
  <2>6. \A v \in DOMAIN a.from \ fresh : b.from[v] = a.from[v]
    BY <2>3
  <2> QED BY <1>7, <1>8, <2>1, <2>2, <2>3, <2>4, <2>5, <2>6 DEF Spreads
<1>10. /\ Spreads(next, E, a, u, fresh, SpreadRound(next, within, targets, a))
       /\ fresh \in SUBSET (DOMAIN next \ DOMAIN a.at)
  BY <1>1, <1>4, <1>9
<1> QED BY <1>4, <1>5, <1>10 DEF u

LEMMA SpreadRoundKeeps ==
  ASSUME NEW next, NEW E, IsNet(next, E), NEW within, NEW targets, NEW s, NEW a,
         SpreadInv(next, E, within, targets, s, a), ~SpreadOver(targets, a)
  PROVE  LET b == SpreadRound(next, within, targets, a)
         IN  /\ SpreadInv(next, E, within, targets, s, b)
             /\ SpreadLeft(next, b) < SpreadLeft(next, a)
<1> DEFINE N == DOMAIN next
           u == Head(a.queue)
           b == SpreadRound(next, within, targets, a)
           n == Len(a.queue)
<1>1. a \in SpreadStates(N, E) /\ SpreadFound(next, within, s, a) /\ SpreadQueue(a)
      /\ SpreadDone(next, within, targets, a)
  BY DEF SpreadInv
<1>2. PICK fresh \in SUBSET (N \ DOMAIN a.at) :
         /\ Spreads(next, E, a, u, fresh, b)
         /\ fresh # {} => a.at[u] \in within
         /\ a.at[u] \in within => \A x \in next[u] : x.node \in DOMAIN a.at \cup fresh
  <2>1. Members(a.queue) \subseteq DOMAIN a.at /\ OnceEach(a.queue)
    BY <1>1 DEF SpreadQueue
  <2>2. a \in SpreadStates(DOMAIN next, E)
    BY <1>1
  <2> QED BY <2>1, <2>2, SpreadRoundSpreads
<1>3. a.queue # <<>> /\ u \notin targets
  BY DEF SpreadOver
<1>4. /\ DOMAIN a.at \subseteq N /\ (\A v \in DOMAIN a.at : a.at[v] \in Nat)
      /\ a.queue \in Seq(N)
  BY <1>1, SpreadFields
<1>5. Members(a.queue) \subseteq DOMAIN a.at /\ OnceEach(a.queue)
  BY <1>1 DEF SpreadQueue
<1>6. /\ b.queue \in Seq(N) /\ OnceEach(b.queue)
      /\ Len(b.queue) = n - 1 + Cardinality(fresh)
      /\ Members(b.queue) = (Members(a.queue) \ {u}) \cup fresh
      /\ n \in Nat \ {0} /\ Cardinality(fresh) \in Nat
      /\ u = a.queue[1] /\ u \in Members(a.queue) /\ u \in N
      /\ \A i \in 1..n - 1 : b.queue[i] = a.queue[i + 1] /\ i + 1 \in 1..n
      /\ \A i \in 1..Len(b.queue) : i \notin 1..n - 1 => b.queue[i] \in fresh
  <2>1. IsFiniteSet(N) /\ b.queue = Queued(a.queue, fresh) /\ fresh \in SUBSET N
        /\ fresh \cap Members(a.queue) = {}
    BY <1>2, <1>5 DEF IsNet, Spreads
  <2> DEFINE q == a.queue
  <2>2. q \in Seq(N) /\ q # <<>> /\ OnceEach(q)
    BY <1>3, <1>4, <1>5
  <2> HIDE DEF N, q
  <2> QED BY <2>1, <2>2, QueueMoves DEF u, n, q
<1> HIDE DEF u, b, n
<1>7. u \in DOMAIN a.at /\ a.at[u] \in Nat
  BY <1>4, <1>5, <1>6
<1>8. /\ DOMAIN b.at = DOMAIN a.at \cup fresh
      /\ \A v \in DOMAIN a.at : b.at[v] = a.at[v]
      /\ \A v \in fresh : b.at[v] = a.at[u] + 1
      /\ DOMAIN b.from = DOMAIN a.from \cup fresh
      /\ \A v \in DOMAIN a.from \ fresh : b.from[v] = a.from[v]
      /\ \A v \in fresh : /\ b.from[v] \in [prev : {u}, edge : E]
                          /\ Way(b.from[v].edge, v) \in next[u]
  BY <1>2 DEF Spreads
<1>9. b \in SpreadStates(N, E)
  <2>1. \A v \in fresh : b.at[v] \in Nat
    BY <1>7, <1>8
  <2>2. b.at \in Partial(N, Nat)
    <3>1. b.at = [v \in DOMAIN a.at \cup fresh |-> b.at[v]]
      BY <1>2 DEF Spreads
    <3>2. \A v \in DOMAIN a.at \ fresh : b.at[v] = a.at[v]
      BY <1>8
    <3>3. a.at \in Partial(N, Nat) /\ fresh \in SUBSET N
      BY <1>1, SpreadFields
    <3> DEFINE f == a.at
               g == b.at
    <3> HIDE DEF f, g, N
    <3>4. f \in Partial(N, Nat) /\ GivesMore(f, fresh, Nat, g)
      BY <2>1, <3>1, <3>2, <3>3 DEF f, g, GivesMore
    <3>5. g \in Partial(N, Nat)
      BY <3>3, <3>4, PartialMore
    <3> QED BY <3>5 DEF g
  <2>3. b.from \in Partial(N, [prev : N, edge : E])
    <3>1. b.from = [v \in DOMAIN a.from \cup fresh |-> b.from[v]]
      BY <1>2 DEF Spreads
    <3>2. \A v \in fresh : b.from[v] \in [prev : N, edge : E]
      BY <1>6, <1>8
    <3>3. a.from \in Partial(N, [prev : N, edge : E]) /\ fresh \in SUBSET N
      BY <1>1, SpreadFields
    <3> DEFINE f == a.from
               g == b.from
               T == [prev : N, edge : E]
    <3> HIDE DEF f, g, N, T
    <3>4. f \in Partial(N, T) /\ GivesMore(f, fresh, T, g)
      BY <1>8, <3>1, <3>2, <3>3 DEF f, g, T, GivesMore
    <3>5. g \in Partial(N, T)
      BY <3>3, <3>4, PartialMore
    <3> QED BY <3>5 DEF g, T
  <2>4. b = [queue |-> b.queue, at |-> b.at, from |-> b.from]
    BY <1>2 DEF Spreads
  <2> QED BY <1>6, <2>2, <2>3, <2>4 DEF SpreadStates
<1>10. SpreadFound(next, within, s, b)
  <2>1. s \in DOMAIN a.at /\ a.at[s] = 0 /\ DOMAIN a.from = DOMAIN a.at \ {s}
    BY <1>1 DEF SpreadFound
  <2>2. s \in DOMAIN b.at /\ b.at[s] = 0 /\ DOMAIN b.from = DOMAIN b.at \ {s}
    BY <2>1, <1>8
  <2>3. ASSUME NEW v \in DOMAIN b.from
        PROVE  /\ b.from[v].prev \in DOMAIN b.at /\ b.at[b.from[v].prev] \in within
               /\ b.at[v] = b.at[b.from[v].prev] + 1
               /\ Way(b.from[v].edge, v) \in next[b.from[v].prev]
    <3>1. CASE v \in fresh
      <4>1. b.from[v].prev = u /\ Way(b.from[v].edge, v) \in next[u]
        BY <3>1, <1>8
      <4> QED BY <3>1, <4>1, <1>2, <1>7, <1>8
    <3>2. CASE v \notin fresh
      <4>1. v \in DOMAIN a.from /\ v \in DOMAIN a.at /\ b.from[v] = a.from[v]
        BY <3>2, <1>8, <2>1
      <4>2. /\ a.from[v].prev \in DOMAIN a.at /\ a.at[a.from[v].prev] \in within
            /\ a.at[v] = a.at[a.from[v].prev] + 1
            /\ Way(a.from[v].edge, v) \in next[a.from[v].prev]
        BY <4>1, <1>1 DEF SpreadFound
      <4> QED BY <4>1, <4>2, <1>8
    <3> QED BY <3>1, <3>2
  <2> QED BY <2>2, <2>3 DEF SpreadFound
<1>11. /\ \A v \in DOMAIN a.at : b.at[v] \in Nat /\ b.at[v] = a.at[v]
       /\ \A v \in fresh : b.at[v] = a.at[u] + 1 /\ b.at[v] \in Nat
  BY <1>4, <1>7, <1>8
<1>12. /\ \A i \in 1..n : a.queue[i] \in DOMAIN a.at
       /\ \A i, j \in 1..n : i <= j => a.at[a.queue[i]] <= a.at[a.queue[j]]
       /\ \A i \in 1..n : a.at[a.queue[i]] <= a.at[u] + 1 /\ a.at[u] <= a.at[a.queue[i]]
       /\ \A v \in DOMAIN a.at \ Members(a.queue) : a.at[v] <= a.at[u]
  <2>1. 1 \in 1..n /\ \A i \in 1..n : 1 <= i
    BY <1>6
  <2> QED BY <2>1, <1>1, <1>3, <1>6 DEF SpreadQueue, Members, n
<1>13. SpreadQueue(b)
  <2> DEFINE q == b.queue
             m == Len(b.queue)
  <2>1. m \in Nat /\ \A i \in 1..m : \/ i \in 1..n - 1 /\ q[i] = a.queue[i + 1] /\ i + 1 \in 1..n
                                     \/ i \notin 1..n - 1 /\ q[i] \in fresh
    BY <1>6
  <2> HIDE DEF q, m
  <2>2. \A i \in 1..m : /\ b.at[q[i]] \in Nat
                        /\ a.at[u] <= b.at[q[i]] /\ b.at[q[i]] <= a.at[u] + 1
                        /\ i \notin 1..n - 1 => b.at[q[i]] = a.at[u] + 1
    BY <2>1, <1>7, <1>11, <1>12
  <2>3. ASSUME NEW i \in 1..m, NEW j \in 1..m, i <= j PROVE b.at[q[i]] <= b.at[q[j]]
    <3>1. CASE j \in 1..n - 1
      <4>1. i \in 1..n - 1 /\ i + 1 <= j + 1
        BY <3>1, <2>3, <1>6
      <4>2. q[i] = a.queue[i + 1] /\ i + 1 \in 1..n /\ q[j] = a.queue[j + 1] /\ j + 1 \in 1..n
        BY <3>1, <4>1, <2>1
      <4>3. a.at[a.queue[i + 1]] <= a.at[a.queue[j + 1]]
        BY <4>1, <4>2, <1>12
      <4> QED BY <4>2, <4>3, <1>11, <1>12
    <3>2. CASE j \notin 1..n - 1
      BY <3>2, <2>2
    <3> QED BY <3>1, <3>2
  <2>4. \A i \in 1..m : 1 \in 1..m
    BY <2>1
  <2>5. ASSUME NEW i \in 1..m PROVE b.at[q[i]] <= b.at[q[1]] + 1
    BY <2>2, <2>4, <1>7
  <2>6. ASSUME q # <<>>, NEW v \in DOMAIN b.at \ Members(q) PROVE b.at[v] <= b.at[q[1]]
    <3>1. 1 \in 1..m
      <4>1. q \in Seq(N)
        BY <1>6 DEF q
      <4> QED BY <4>1, <2>6 DEF m, q
    <3>2. v \in DOMAIN a.at /\ (v = u \/ v \notin Members(a.queue))
      BY <2>6, <1>6, <1>8 DEF q
    <3>3. b.at[v] <= a.at[u] /\ b.at[v] \in Nat
      BY <3>2, <1>7, <1>11, <1>12
    <3> QED BY <3>1, <3>3, <2>2, <1>7
  <2>7. Members(q) \subseteq DOMAIN b.at /\ OnceEach(q)
    BY <1>5, <1>6, <1>8 DEF q
  <2> QED BY <2>3, <2>5, <2>6, <2>7 DEF SpreadQueue, q, m
<1>14. SpreadDone(next, within, targets, b)
  <2> SUFFICES ASSUME NEW v \in DOMAIN b.at \ Members(b.queue)
               PROVE  /\ v \notin targets
                      /\ b.at[v] \in within =>
                            \A x \in next[v] : x.node \in DOMAIN b.at /\ b.at[x.node] <= b.at[v] + 1
    BY DEF SpreadDone
  <2>1. v \in DOMAIN a.at /\ (v = u \/ v \notin Members(a.queue)) /\ b.at[v] = a.at[v]
    BY <1>6, <1>8
  <2>2. CASE v = u
    <3>1. ASSUME a.at[u] \in within, NEW x \in next[u]
          PROVE  x.node \in DOMAIN b.at /\ b.at[x.node] <= a.at[u] + 1
      <4>1. x.node \in DOMAIN a.at \cup fresh
        BY <3>1, <1>2
      <4>2. CASE x.node \in fresh
        BY <4>2, <1>7, <1>8
      <4>3. CASE x.node \in DOMAIN a.at /\ x.node \in Members(a.queue)
        <5>1. PICK i \in 1..n : x.node = a.queue[i]
          BY <4>3 DEF Members, n
        <5> QED BY <4>3, <5>1, <1>8, <1>12
      <4>4. CASE x.node \in DOMAIN a.at /\ x.node \notin Members(a.queue)
        <5>1. a.at[x.node] <= a.at[u] /\ a.at[x.node] \in Nat
          BY <4>4, <1>11, <1>12
        <5> QED BY <4>4, <5>1, <1>7, <1>8
      <4> QED BY <4>1, <4>2, <4>3, <4>4
    <3> QED BY <2>1, <2>2, <3>1, <1>3
  <2>3. CASE v \notin Members(a.queue)
    <3>1. /\ v \notin targets
          /\ a.at[v] \in within =>
                \A x \in next[v] : x.node \in DOMAIN a.at /\ a.at[x.node] <= a.at[v] + 1
      BY <2>1, <2>3, <1>1 DEF SpreadDone
    <3> QED BY <2>1, <3>1, <1>8
  <2> QED BY <2>1, <2>2, <2>3
<1>15. SpreadLeft(next, b) < SpreadLeft(next, a)
  <2>1. N \ DOMAIN b.at = (N \ DOMAIN a.at) \ fresh
    BY <1>8
  <2>2. IsFiniteSet(N \ DOMAIN a.at)
    BY FS_Difference DEF IsNet
  <2>3. (N \ DOMAIN a.at) \cap fresh = fresh
    BY <1>2
  <2>4. /\ Cardinality((N \ DOMAIN a.at) \ fresh) = Cardinality(N \ DOMAIN a.at) - Cardinality(fresh)
        /\ Cardinality(N \ DOMAIN a.at) \in Nat
    <3> DEFINE D == N \ DOMAIN a.at
    <3> HIDE DEF D
    <3>1. IsFiniteSet(D) /\ D \cap fresh = fresh
      BY <2>2, <2>3 DEF D
    <3>2. Cardinality(D \ fresh) = Cardinality(D) - Cardinality(D \cap fresh)
      BY <3>1, FS_Difference
    <3>3. Cardinality(D) \in Nat
      BY <3>1, FS_CardinalityType
    <3> QED BY <3>1, <3>2, <3>3 DEF D
  <2>5. Cardinality(N \ DOMAIN b.at) = Cardinality(N \ DOMAIN a.at) - Cardinality(fresh)
    BY <2>1, <2>4
  <2>6. /\ SpreadLeft(next, b) = Cardinality(N \ DOMAIN b.at) + (n - 1 + Cardinality(fresh))
        /\ SpreadLeft(next, a) = Cardinality(N \ DOMAIN a.at) + n
    BY <1>6 DEF SpreadLeft, n
  <2>7. n \in Nat /\ Cardinality(fresh) \in Nat /\ Cardinality(N \ DOMAIN a.at) \in Nat
    BY <1>6, <2>4
  <2> QED BY <2>5, <2>6, <2>7
<1> QED BY <1>9, <1>10, <1>13, <1>14, <1>15 DEF SpreadInv, b


SpreadStart(s) == [queue |-> <<s>>, at |-> [v \in {s} |-> 0], from |-> <<>>]

LEMMA SpreadStarts ==
  ASSUME NEW next, NEW E, IsNet(next, E), NEW within, NEW targets, NEW s \in DOMAIN next
  PROVE  /\ SpreadInv(next, E, within, targets, s, SpreadStart(s))
         /\ SpreadLeft(next, SpreadStart(s)) <= Cardinality(DOMAIN next)
         /\ Cardinality(DOMAIN next) \in Nat
<1> DEFINE a == SpreadStart(s)
           N == DOMAIN next
<1>1. /\ a = [queue |-> a.queue, at |-> a.at, from |-> a.from]
      /\ a.queue = <<s>> /\ a.at = [v \in {s} |-> 0] /\ a.from = <<>>
  BY DEF SpreadStart
<1> HIDE DEF a
<1>2. /\ a.queue \in Seq(N) /\ Len(a.queue) = 1 /\ a.queue[1] = s /\ Members(a.queue) = {s}
      /\ OnceEach(a.queue) /\ a.queue # <<>>
  BY <1>1 DEF Members, OnceEach
<1>3. DOMAIN a.at = {s} /\ a.at[s] = 0 /\ DOMAIN a.from = {}
  BY <1>1
<1>4. a \in SpreadStates(N, E)
  <2>1. a.at \in Partial(N, Nat)
    <3>1. a.at \in [{s} -> Nat] /\ {s} \in SUBSET N
      BY <1>1
    <3> QED BY <3>1 DEF Partial
  <2>2. a.from \in Partial(N, [prev : N, edge : E])
    <3>1. a.from \in [{} -> [prev : N, edge : E]] /\ {} \in SUBSET N
      BY <1>1
    <3> QED BY <3>1 DEF Partial
  <2> QED BY <1>1, <1>2, <2>1, <2>2 DEF SpreadStates
<1>5. SpreadFound(next, within, s, a)
  BY <1>3 DEF SpreadFound
<1>6. SpreadQueue(a)
  <2>1. \A i \in 1..Len(a.queue) : a.queue[i] = s
    BY <1>2
  <2>2. \A i \in 1..Len(a.queue) : a.at[a.queue[i]] <= a.at[a.queue[1]] + 1
    BY <2>1, <1>2, <1>3
  <2>3. \A i, j \in 1..Len(a.queue) : i <= j => a.at[a.queue[i]] <= a.at[a.queue[j]]
    BY <2>1, <1>3
  <2> QED BY <2>2, <2>3, <1>2, <1>3 DEF SpreadQueue
<1>7. SpreadDone(next, within, targets, a)
  BY <1>2, <1>3 DEF SpreadDone
<1>8. SpreadLeft(next, a) <= Cardinality(N) /\ Cardinality(N) \in Nat
  <2>1. IsFiniteSet(N)
    BY DEF IsNet
  <2>2. Cardinality(N \ {s}) = Cardinality(N) - 1 /\ Cardinality(N) \in Nat
    BY <2>1, FS_RemoveElement, FS_CardinalityType
  <2>3. SpreadLeft(next, a) = Cardinality(N \ {s}) + 1
    BY <1>2, <1>3 DEF SpreadLeft
  <2> QED BY <2>2, <2>3
<1> QED BY <1>4, <1>5, <1>6, <1>7, <1>8 DEF SpreadInv, a

LEMMA SpreadLeftTyped ==
  ASSUME NEW next, NEW E, IsNet(next, E), NEW a \in SpreadStates(DOMAIN next, E)
  PROVE  SpreadLeft(next, a) \in Nat
<1>1. IsFiniteSet(DOMAIN next \ DOMAIN a.at)
  BY FS_Difference DEF IsNet
<1>2. Cardinality(DOMAIN next \ DOMAIN a.at) \in Nat
  BY <1>1, FS_CardinalityType
<1> QED BY <1>2, SpreadFields DEF SpreadLeft

\* As many rounds as there are nodes are enough.
LEMMA SpreadEnds ==
  ASSUME NEW next, NEW E, IsNet(next, E), NEW within, NEW targets, NEW s \in DOMAIN next
  PROVE  LET end == Spread(next, within, targets, s)
         IN  SpreadInv(next, E, within, targets, s, end) /\ SpreadOver(targets, end)
<1> DEFINE S == {a \in SpreadStates(DOMAIN next, E) : SpreadInv(next, E, within, targets, s, a)}
           F == [a \in S |-> SpreadRound(next, within, targets, a)]
           N == Cardinality(DOMAIN next)
           start == SpreadStart(s)
           Rec(h) == [k \in 0..N |-> IF k = 0 THEN start
                                     ELSE SpreadRound(next, within, targets, h[k - 1])]
           after == CHOOSE h : h = Rec(h)
           over == {a \in S : SpreadOver(targets, a)}
           left == [a \in S |-> SpreadLeft(next, a)]
<1>1. Spread(next, within, targets, s) = after[N]
  BY DEF Spread, Repeat, SpreadStart
<1>2. start \in S /\ N \in Nat
  BY SpreadStarts DEF SpreadInv
<1>3. \A a \in over : SpreadRound(next, within, targets, a) = a
  BY DEF SpreadRound, SpreadOver
<1>4. F \in [S -> S]
  <2>1. ASSUME NEW a \in S PROVE SpreadRound(next, within, targets, a) \in S
    <3>1. CASE a \in over
      BY <1>3, <3>1
    <3>2. CASE a \notin over
      BY <3>2, SpreadRoundKeeps DEF SpreadInv
    <3> QED BY <3>1, <3>2
  <2> QED BY <2>1
<1>5. \A a \in S : F[a] = SpreadRound(next, within, targets, a)
  OBVIOUS
<1>6. PICK h : IsRun(h, S, F, start, N)
  <2> HIDE DEF S, F, N, start
  <2> QED BY <1>2, <1>4, IterationExists
<1>7. after = Rec(after)
  <2>1. h = Rec(h)
    <3>1. \A k \in 0..N : k # 0 => k \in 1..N /\ k - 1 \in 0..N
      BY <1>2
    <3>2. \A k \in 0..N : h[k] = IF k = 0 THEN start
                                 ELSE SpreadRound(next, within, targets, h[k - 1])
      <4> HIDE DEF S, F, N, start
      <4> QED BY <1>5, <1>6, <3>1 DEF IsRun
    <3> HIDE DEF S, F, N, start
    <3> QED BY <1>6, <3>2 DEF IsRun
  <2> HIDE DEF Rec
  <2> QED BY <2>1
<1> HIDE DEF after
<1>8. FollowsIn(after, S, F, start, N)
  <2>1. 0 \in 0..N /\ \A n \in 1..N : n \in 0..N /\ n # 0
    BY <1>2
  <2> HIDE DEF S, F, N, start
  <2> QED BY <1>5, <1>7, <2>1 DEF FollowsIn
<1>9. over \in SUBSET S /\ \A a \in over : F[a] = a
  BY <1>3, <1>5
<1>10. left \in [S -> Nat] /\ left[start] <= N
  BY <1>2, SpreadStarts, SpreadLeftTyped
<1>11. \A a \in S \ over : left[F[a]] < left[a]
  BY <1>4, <1>5, SpreadRoundKeeps
<1>12. EndsIn(over, left, S, F)
  BY <1>9, <1>10, <1>11 DEF EndsIn
<1>13. after[N] \in over
  <2> HIDE DEF S, F, N, start, over, left
  <2> QED BY <1>2, <1>4, <1>8, <1>10, <1>12, IterationEnds
<1> QED BY <1>1, <1>13

-----------------------------------------------------------------------------
\* p follows the ways from s.
IsWalk(next, s, p) ==
    /\ p \in Seq(DOMAIN next) /\ Len(p) \in Nat \ {0} /\ p[1] = s
    /\ \A i \in 1..Len(p) - 1 : \E x \in next[p[i]] : x.node = p[i + 1]

\* All that a walk comes to has been found, at no more steps than the walk takes,
\* if it is no longer than the search has come.
LEMMA SpreadReaches ==
  ASSUME NEW next, NEW E, IsNet(next, E), NEW within, NEW targets, NEW s, NEW a,
         SpreadInv(next, E, within, targets, s, a),
         NEW p, IsWalk(next, s, p), 0..Len(p) - 2 \subseteq within,
         a.queue = <<>> \/ Len(p) - 1 <= a.at[Head(a.queue)]
  PROVE  \A i \in 1..Len(p) : p[i] \in DOMAIN a.at /\ a.at[p[i]] <= i - 1
<1> DEFINE n == Len(p)
           Fine == {k \in 0..n - 1 : p[k + 1] \in DOMAIN a.at /\ a.at[p[k + 1]] <= k}
<1>1. n \in Nat \ {0} /\ p[1] = s /\ \A i \in 1..n - 1 : \E x \in next[p[i]] : x.node = p[i + 1]
  BY DEF IsWalk
<1>2. /\ a \in SpreadStates(DOMAIN next, E) /\ \A v \in DOMAIN a.at : a.at[v] \in Nat
      /\ SpreadFound(next, within, s, a) /\ SpreadQueue(a) /\ SpreadDone(next, within, targets, a)
  BY SpreadFields DEF SpreadInv
<1> HIDE DEF n
<1>3. 0 \in Fine
  BY <1>1, <1>2 DEF SpreadFound
<1>4. ASSUME NEW k \in 1..n - 1, k - 1 \in Fine PROVE k \in Fine
  <2>1. p[k] \in DOMAIN a.at /\ a.at[p[k]] <= k - 1 /\ a.at[p[k]] \in Nat
    <3>1. (k - 1) + 1 = k
      BY <1>1
    <3> QED BY <1>2, <1>4, <3>1
  <2>2. a.at[p[k]] \in within
    <3>1. a.at[p[k]] \in 0..n - 2
      BY <2>1, <1>1
    <3> QED BY <3>1 DEF n
  <2>3. p[k] \notin Members(a.queue)
    <3> SUFFICES ASSUME p[k] \in Members(a.queue) PROVE FALSE
      OBVIOUS
    <3> DEFINE q == a.queue
    <3>1. PICK i \in 1..Len(q) : p[k] = q[i]
      BY DEF Members
    <3>2. q \in Seq(DOMAIN next) /\ Len(q) \in Nat
      BY <1>2, SpreadFields
    <3> HIDE DEF q
    <3>3. q # <<>> /\ Head(q) = q[1] /\ 1 \in 1..Len(q) /\ 1 <= i
      BY <3>1, <3>2
    <3>4. a.at[q[1]] <= a.at[p[k]] /\ q[1] \in DOMAIN a.at
      BY <3>1, <3>3, <1>2 DEF SpreadQueue, Members, q
    <3>5. n - 1 <= a.at[q[1]] /\ a.at[q[1]] \in Nat
      BY <3>3, <3>4, <1>2 DEF q, n
    <3> QED BY <3>4, <3>5, <2>1, <1>1
  <2>4. PICK x \in next[p[k]] : x.node = p[k + 1]
    BY <1>1
  <2>5. x.node \in DOMAIN a.at /\ a.at[x.node] <= a.at[p[k]] + 1
    BY <2>1, <2>2, <2>3, <1>2 DEF SpreadDone
  <2> QED BY <2>1, <2>4, <2>5, <1>2
<1>5. \A k \in 0..n - 1 : k \in Fine
  <2>1. Fine \in SUBSET Nat /\ n - 1 \in Nat
    BY <1>1
  <2> HIDE DEF Fine
  <2> QED BY <2>1, <1>3, <1>4, UpTo
<1>6. \A i \in 1..n : i - 1 \in 0..n - 1 /\ (i - 1) + 1 = i
  BY <1>1
<1> QED BY <1>5, <1>6 DEF n


-----------------------------------------------------------------------------
(***************************************************************************)
(* The way back from a node to the start.                                  *)
(***************************************************************************)

\* from leads from every node of V back to s, along edges with weights.
IsTree(from, s, V, rank) ==
    /\ IsFiniteSet(V) /\ s \in V /\ DOMAIN from = V \ {s} /\ rank \in [V -> Nat]
    /\ \A v \in DOMAIN from : /\ from[v].prev \in V /\ rank[from[v].prev] < rank[v]
                              /\ from[v].edge.weight \in Nat

\* path is the way from its first node to t.
LeadsTo(from, V, t, path) ==
    /\ path \in Seq(V) /\ Len(path) \in Nat \ {0} /\ path[Len(path)] = t
    /\ \A i \in 1..Len(path) - 1 :
          path[i + 1] \in DOMAIN from /\ from[path[i + 1]].prev = path[i]

\* d is what the weights add up to.
AddsUp(from, V, d) ==
    d \in [V -> Nat] /\ \A v \in DOMAIN from : d[v] = d[from[v].prev] + from[v].edge.weight

BackStates(from, V, t) ==
    {b \in [path : Seq(V), weight : Nat] :
        /\ LeadsTo(from, V, t, b.path)
        /\ \A d \in [V -> Nat] : AddsUp(from, V, d) => b.weight + d[b.path[1]] = d[t]}

BackStep(from, s, b) ==
    IF Head(b.path) \notin DOMAIN from \ {s} THEN b
    ELSE [path |-> <<from[Head(b.path)].prev>> \o b.path,
          weight |-> b.weight + from[Head(b.path)].edge.weight]

BackLeft(from, rank, b) == Cardinality({w \in DOMAIN from : rank[w] <= rank[b.path[1]]})

LEMMA Prepended ==
  ASSUME NEW V, NEW p \in Seq(V), NEW v \in V
  PROVE  /\ <<v>> \o p \in Seq(V) /\ Len(<<v>> \o p) = Len(p) + 1 /\ Len(p) \in Nat
         /\ (<<v>> \o p)[1] = v
         /\ \A i \in 1..Len(p) : (<<v>> \o p)[i + 1] = p[i]
<1>1. <<v>> \in Seq(V) /\ Len(<<v>>) = 1 /\ <<v>>[1] = v /\ Len(p) \in Nat
  OBVIOUS
<1> DEFINE s == <<v>>
<1> HIDE DEF s
<1>2. s \in Seq(V) /\ Len(s) = 1 /\ s[1] = v
  BY <1>1 DEF s
<1>3. /\ s \o p \in Seq(V) /\ Len(s \o p) = Len(s) + Len(p)
      /\ \A i \in 1..Len(s) + Len(p) : (s \o p)[i] = IF i <= Len(s) THEN s[i] ELSE p[i - Len(s)]
  BY <1>2, Concatenation
<1>4. (s \o p)[1] = v /\ \A i \in 1..Len(p) : (s \o p)[i + 1] = p[i]
  BY <1>1, <1>2, <1>3
<1>5. Len(s \o p) = Len(p) + 1
  BY <1>1, <1>2, <1>3
<1> QED BY <1>1, <1>3, <1>4, <1>5 DEF s

LEMMA BackFields ==
  ASSUME NEW from, NEW V, NEW t, NEW b \in BackStates(from, V, t)
  PROVE  /\ b.path \in Seq(V) /\ Len(b.path) \in Nat \ {0} /\ b.weight \in Nat
         /\ Head(b.path) = b.path[1] /\ b.path[1] \in V
<1> DEFINE p == b.path
<1>1. p \in Seq(V) /\ Len(p) \in Nat \ {0} /\ b.weight \in Nat
  BY DEF BackStates, LeadsTo
<1> HIDE DEF p
<1>2. Head(p) = p[1] /\ p[1] \in V
  BY <1>1
<1> QED BY <1>1, <1>2 DEF p

LEMMA BackStepKeeps ==
  ASSUME NEW from, NEW s, NEW V, NEW rank, IsTree(from, s, V, rank), NEW t,
         NEW b \in BackStates(from, V, t), b.path[1] # s
  PROVE  /\ BackStep(from, s, b) \in BackStates(from, V, t)
         /\ BackLeft(from, rank, BackStep(from, s, b)) < BackLeft(from, rank, b)
<1> DEFINE p == b.path
           v == b.path[1]
           u == from[v].prev
           c == BackStep(from, s, b)
           n == Len(b.path)
<1>1. /\ p \in Seq(V) /\ n \in Nat \ {0} /\ b.weight \in Nat /\ Head(p) = v /\ v \in V
      /\ v \in DOMAIN from \ {s}
  BY BackFields DEF IsTree
<1>2. u \in V /\ rank[u] < rank[v] /\ from[v].edge.weight \in Nat
  BY <1>1 DEF IsTree
<1>3. c = [path |-> <<u>> \o p, weight |-> b.weight + from[v].edge.weight]
  BY <1>1 DEF BackStep
<1>4. LeadsTo(from, V, t, p)
  BY DEF BackStates
<1>5. \A d \in [V -> Nat] : AddsUp(from, V, d) => b.weight + d[v] = d[t]
  BY DEF BackStates
<1>12. v = p[1] /\ n = Len(p)
  OBVIOUS
<1> HIDE DEF c, p, u, n, v
<1>6. /\ <<u>> \o p \in Seq(V) /\ Len(<<u>> \o p) = n + 1 /\ (<<u>> \o p)[1] = u
      /\ \A i \in 1..n : (<<u>> \o p)[i + 1] = p[i]
  BY <1>1, <1>2, <1>12, Prepended
<1> DEFINE r == <<u>> \o p
<1> HIDE DEF r
<1>7. c.path = r /\ c.weight = b.weight + from[v].edge.weight /\ c \in [path : Seq(V), weight : Nat]
  BY <1>1, <1>2, <1>3, <1>6 DEF r
<1>8. LeadsTo(from, V, t, r)
  <2>1. r[n + 1] = p[n] /\ p[n] = t /\ Len(r) = n + 1 /\ r[1] = u /\ \A i \in 1..n : r[i + 1] = p[i]
    BY <1>1, <1>4, <1>6, <1>12 DEF LeadsTo, r
  <2>2. ASSUME NEW i \in 1..n PROVE r[i + 1] \in DOMAIN from /\ from[r[i + 1]].prev = r[i]
    <3>1. CASE i = 1
      BY <3>1, <2>1, <1>1, <1>12 DEF u
    <3>2. CASE i # 1
      <4>1. i - 1 \in 1..n - 1 /\ i - 1 \in 1..n /\ (i - 1) + 1 = i
        BY <3>2, <1>1
      <4>2. r[i + 1] = p[i] /\ r[i] = p[i - 1]
        BY <4>1, <2>1
      <4>3. p[i] \in DOMAIN from /\ from[p[i]].prev = p[i - 1]
        BY <4>1, <1>4, <1>12 DEF LeadsTo
      <4> QED BY <4>2, <4>3
    <3> QED BY <3>1, <3>2
  <2>3. Len(r) - 1 = n /\ Len(r) \in Nat \ {0}
    BY <2>1, <1>1
  <2> QED BY <2>1, <2>2, <2>3, <1>6 DEF LeadsTo, r
<1>9. ASSUME NEW d \in [V -> Nat], AddsUp(from, V, d) PROVE c.weight + d[r[1]] = d[t]
  <2>1. d[v] = d[u] + from[v].edge.weight /\ b.weight + d[v] = d[t]
    BY <1>1, <1>5, <1>9 DEF AddsUp, u
  <2>2. d[u] \in Nat /\ r[1] = u
    BY <1>2, <1>6 DEF r
  <2> QED BY <2>1, <2>2, <1>1, <1>2, <1>7
<1>10. c \in BackStates(from, V, t)
  BY <1>7, <1>8, <1>9 DEF BackStates
<1>11. BackLeft(from, rank, c) < BackLeft(from, rank, b)
  <2> DEFINE A == {w \in DOMAIN from : rank[w] <= rank[v]}
             B == {w \in DOMAIN from : rank[w] <= rank[u]}
  <2>1. IsFiniteSet(A)
    <3>1. IsFiniteSet(V) /\ A \in SUBSET V
      BY DEF IsTree
    <3> QED BY <3>1, FS_Subset
  <2>2. rank[u] \in Nat /\ rank[v] \in Nat /\ \A w \in DOMAIN from : rank[w] \in Nat
    BY <1>1, <1>2 DEF IsTree
  <2>3. B \in SUBSET A /\ v \in A /\ v \notin B
    BY <1>1, <1>2, <2>2
  <2> HIDE DEF A, B
  <2>4. B # A /\ Cardinality(A) \in Nat /\ IsFiniteSet(B)
    BY <2>1, <2>3, FS_CardinalityType, FS_Subset
  <2>5. Cardinality(B) \in Nat /\ Cardinality(B) <= Cardinality(A) /\ Cardinality(B) # Cardinality(A)
    BY <2>1, <2>3, <2>4, FS_CardinalityType, FS_Subset
  <2>6. BackLeft(from, rank, c) = Cardinality(B) /\ BackLeft(from, rank, b) = Cardinality(A)
    BY <1>6, <1>7, <1>12 DEF BackLeft, A, B, r, p
  <2> QED BY <2>4, <2>5, <2>6
<1> QED BY <1>10, <1>11 DEF c

\* PathBack returns the way from s to t, and its weight.
LEMMA PathBackLeads ==
  ASSUME NEW from, NEW s, NEW V, NEW rank, IsTree(from, s, V, rank), NEW t \in V
  PROVE  LET b == PathBack(from, s, t)
         IN  b \in BackStates(from, V, t) /\ b.path[1] = s
<1> DEFINE S == BackStates(from, V, t)
           F == [b \in S |-> BackStep(from, s, b)]
           N == Cardinality(DOMAIN from)
           start == [path |-> <<t>>, weight |-> 0]
           Back(b) ==
               LET v == Head(b.path)
               IN  IF v \notin DOMAIN from \ {s} THEN b
                   ELSE [path |-> <<from[v].prev>> \o b.path,
                         weight |-> b.weight + from[v].edge.weight]
           Rec(h) == [k \in 0..N |-> IF k = 0 THEN start ELSE Back(h[k - 1])]
           after == CHOOSE h : h = Rec(h)
           over == {b \in S : b.path[1] = s}
           left == [b \in S |-> BackLeft(from, rank, b)]
<1>1. PathBack(from, s, t) = after[N]
  BY DEF PathBack, Repeat
<1>2. start \in S
  <2>1. <<t>> \in Seq(V) /\ Len(<<t>>) = 1 /\ <<t>>[1] = t
    OBVIOUS
  <2>2. LeadsTo(from, V, t, <<t>>)
    BY <2>1 DEF LeadsTo
  <2>3. \A d \in [V -> Nat] : 0 + d[<<t>>[1]] = d[t]
    BY <2>1
  <2> QED BY <2>1, <2>2, <2>3 DEF BackStates
<1>3. IsFiniteSet(DOMAIN from) /\ N \in Nat
  <2>1. IsFiniteSet(V) /\ DOMAIN from \in SUBSET V
    BY DEF IsTree
  <2> QED BY <2>1, FS_Subset, FS_CardinalityType
<1>4. \A b \in over : BackStep(from, s, b) = b
  BY BackFields DEF BackStep
<1>5. F \in [S -> S]
  BY <1>4, BackStepKeeps
<1>6. \A b : BackStep(from, s, b) = Back(b)
  BY DEF BackStep
<1>7. \A b \in S : F[b] = Back(b)
  BY <1>6
<1> HIDE DEF Back
<1>8. PICK h : IsRun(h, S, F, start, N)
  <2> HIDE DEF S, F, N, start
  <2> QED BY <1>2, <1>3, <1>5, IterationExists
<1>9. after = Rec(after)
  <2>1. h = Rec(h)
    <3>1. \A k \in 0..N : k # 0 => k \in 1..N /\ k - 1 \in 0..N
      BY <1>3
    <3>2. \A k \in 0..N : h[k] = IF k = 0 THEN start ELSE Back(h[k - 1])
      <4> HIDE DEF S, F, N, start
      <4> QED BY <1>7, <1>8, <3>1 DEF IsRun
    <3> HIDE DEF S, F, N, start
    <3> QED BY <1>8, <3>2 DEF IsRun
  <2> HIDE DEF Rec
  <2> QED BY <2>1
<1> HIDE DEF after
<1>10. FollowsIn(after, S, F, start, N)
  <2>1. 0 \in 0..N /\ \A n \in 1..N : n \in 0..N /\ n # 0
    BY <1>3
  <2> HIDE DEF S, F, N, start
  <2> QED BY <1>7, <1>9, <2>1 DEF FollowsIn
<1>11. over \in SUBSET S /\ \A b \in over : F[b] = b
  BY <1>4, <1>5
<1>12. left \in [S -> Nat] /\ left[start] <= N
  <2>1. ASSUME NEW b \in S PROVE BackLeft(from, rank, b) \in Nat /\ BackLeft(from, rank, b) <= N
    <3> DEFINE A == {w \in DOMAIN from : rank[w] <= rank[b.path[1]]}
    <3>1. A \in SUBSET DOMAIN from
      OBVIOUS
    <3> HIDE DEF A
    <3>2. Cardinality(A) \in Nat /\ Cardinality(A) <= N
      BY <3>1, <1>3, FS_Subset, FS_CardinalityType
    <3> QED BY <3>2 DEF BackLeft, A
  <2> QED BY <2>1, <1>2
<1>13. \A b \in S \ over : left[F[b]] < left[b]
  BY <1>5, BackStepKeeps
<1>14. EndsIn(over, left, S, F)
  BY <1>11, <1>12, <1>13 DEF EndsIn
<1>15. after[N] \in over
  <2> HIDE DEF S, F, N, start, over, left
  <2> QED BY <1>2, <1>3, <1>5, <1>10, <1>12, <1>14, IterationEnds
<1> QED BY <1>1, <1>15

-----------------------------------------------------------------------------
Rises(rank, p) == \A i \in 1..Len(p) - 1 : rank[p[i]] < rank[p[i + 1]]

\* Along the way ranks rise, so no node is met twice.
LEMMA RisingIsInjective ==
  ASSUME NEW V, NEW rank \in [V -> Nat], NEW p \in Seq(V), Rises(rank, p)
  PROVE  OnceEach(p)
<1> DEFINE n == Len(p)
<1>1. n \in Nat /\ \A i \in 1..n : p[i] \in V /\ rank[p[i]] \in Nat
  OBVIOUS
<1>2. ASSUME NEW i \in 1..n, NEW j \in 1..n, i < j PROVE rank[p[i]] < rank[p[j]]
  <2> DEFINE Fine == {k \in 0..j - i : k # 0 => rank[p[i]] < rank[p[i + k]]}
  <2>1. ASSUME NEW k \in 1..j - i, k - 1 \in Fine PROVE k \in Fine
    <3>1. i + (k - 1) \in 1..n - 1 /\ (i + (k - 1)) + 1 = i + k /\ i + k \in 1..n
          /\ i + (k - 1) \in 1..n
      BY <1>1
    <3>2. rank[p[i + (k - 1)]] < rank[p[i + k]]
      BY <3>1 DEF Rises
    <3>3. rank[p[i]] <= rank[p[i + (k - 1)]]
      BY <2>1, <1>1
    <3> QED BY <3>1, <3>2, <3>3, <1>1
  <2>2. 0 \in Fine /\ Fine \in SUBSET Nat /\ j - i \in Nat /\ j - i \in 0..j - i /\ j - i # 0
        /\ i + (j - i) = j
    BY <1>1, <1>2
  <2>3. j - i \in Fine
    <3> HIDE DEF Fine
    <3> QED BY <2>1, <2>2, UpTo
  <2> QED BY <2>2, <2>3
<1>3. \A i, j \in 1..n : i < j \/ j < i \/ i = j
  BY <1>1
<1> QED BY <1>1, <1>2, <1>3 DEF OnceEach

\* A sequence without repetition is no longer than the set is large.
LEMMA NoLonger ==
  ASSUME NEW V, IsFiniteSet(V), NEW p \in Seq(V), OnceEach(p)
  PROVE  Len(p) \in Nat /\ Len(p) <= Cardinality(V) /\ Cardinality(V) \in Nat
<1>1. Len(p) \in Nat /\ p \in [1..Len(p) -> V]
  OBVIOUS
<1>2. p \in Injection(1..Len(p), V)
  BY <1>1 DEF Injection, IsInjective, OnceEach
<1>3. Cardinality(1..Len(p)) = Len(p)
  BY <1>1, FS_Interval
<1> QED BY <1>1, <1>2, <1>3, FS_Injection, FS_CardinalityType

\* The way back to the start is a walk of as many steps as the node is away.
LEMMA SpreadPath ==
  ASSUME NEW next, NEW E, IsNet(next, E), \A e \in E : e.weight \in Nat,
         NEW within, NEW targets, NEW s, NEW a,
         SpreadInv(next, E, within, targets, s, a), NEW v \in DOMAIN a.at
  PROVE  LET p == PathBack(a.from, s, v).path
         IN  /\ IsWalk(next, s, p) /\ OnceEach(p)
             /\ p[Len(p)] = v /\ Len(p) = a.at[v] + 1
<1> DEFINE b == PathBack(a.from, s, v)
           p == b.path
           V == DOMAIN a.at
           n == Len(p)
<1>1. /\ a \in SpreadStates(DOMAIN next, E) /\ SpreadFound(next, within, s, a)
      /\ V \subseteq DOMAIN next /\ a.at \in [V -> Nat]
      /\ DOMAIN a.from \subseteq DOMAIN next
      /\ \A w \in DOMAIN a.from : a.from[w].edge \in E
  <2>1. a \in SpreadStates(DOMAIN next, E) /\ SpreadFound(next, within, s, a)
    BY DEF SpreadInv
  <2>2. a.at = [w \in V |-> a.at[w]] /\ \A w \in V : a.at[w] \in Nat
    <3> DEFINE f == a.at
    <3>1. f \in Partial(DOMAIN next, Nat)
      BY <2>1, SpreadFields
    <3> HIDE DEF f
    <3>2. f = [w \in DOMAIN f |-> f[w]] /\ \A w \in DOMAIN f : f[w] \in Nat
      BY <3>1, Partials
    <3> QED BY <3>2 DEF f
  <2>3. V \subseteq DOMAIN next /\ DOMAIN a.from \subseteq DOMAIN next
        /\ \A w \in DOMAIN a.from : a.from[w].edge \in E
    BY <2>1, SpreadFields
  <2> QED BY <2>1, <2>2, <2>3
<1>2. IsTree(a.from, s, V, a.at)
  <2>1. IsFiniteSet(V)
    BY <1>1, FS_Subset DEF IsNet
  <2>2. s \in V /\ DOMAIN a.from = V \ {s} /\ a.at \in [V -> Nat]
    BY <1>1 DEF SpreadFound
  <2>3. \A w \in DOMAIN a.from : a.from[w].prev \in V /\ a.at[a.from[w].prev] < a.at[w]
    BY <1>1 DEF SpreadFound
  <2>4. \A w \in DOMAIN a.from : a.from[w].edge.weight \in Nat
    BY <1>1
  <2> QED BY <2>1, <2>2, <2>3, <2>4 DEF IsTree
<1>3. b \in BackStates(a.from, V, v) /\ p[1] = s
  BY <1>2, PathBackLeads
<1> HIDE DEF b
<1>4. /\ p \in Seq(V) /\ n \in Nat \ {0} /\ p[n] = v
      /\ \A i \in 1..n - 1 : p[i + 1] \in DOMAIN a.from /\ a.from[p[i + 1]].prev = p[i]
  BY <1>3 DEF BackStates, LeadsTo
<1> HIDE DEF p, n
<1>5. ASSUME NEW i \in 1..n - 1
      PROVE  /\ \E x \in next[p[i]] : x.node = p[i + 1]
             /\ a.at[p[i + 1]] = a.at[p[i]] + 1
  <2> DEFINE w == p[i + 1]
  <2>2. w \in DOMAIN a.from /\ a.from[w].prev = p[i]
    BY <1>4
  <2> HIDE DEF w
  <2>3. Way(a.from[w].edge, w) \in next[a.from[w].prev] /\ a.at[w] = a.at[a.from[w].prev] + 1
    BY <1>1, <2>2 DEF SpreadFound
  <2>1. Way(a.from[p[i + 1]].edge, p[i + 1]) \in next[p[i]] /\ a.at[p[i + 1]] = a.at[p[i]] + 1
    BY <2>2, <2>3 DEF w
  <2> QED BY <2>1 DEF Way
<1>6. p \in Seq(DOMAIN next) /\ \A i \in 1..n : p[i] \in V
  BY <1>1, <1>4 DEF n
<1>7. IsWalk(next, s, p)
  BY <1>3, <1>4, <1>5, <1>6 DEF IsWalk, n, p
<1>8. OnceEach(p)
  <2>1. \A i \in 1..n - 1 : i \in 1..n /\ i + 1 \in 1..n
    BY <1>4
  <2>2. Rises(a.at, p)
    BY <2>1, <1>1, <1>5, <1>6 DEF Rises, n
  <2> QED BY <2>2, <1>1, <1>4, RisingIsInjective
<1>9. n = a.at[v] + 1
  <2> DEFINE Fine == {i \in 0..n - 1 : a.at[p[i + 1]] = i}
  <2>1. 0 \in Fine
    BY <1>1, <1>3, <1>4 DEF SpreadFound, p
  <2>2. ASSUME NEW i \in 1..n - 1, i - 1 \in Fine PROVE i \in Fine
    <3>1. (i - 1) + 1 = i /\ i \in Nat
      BY <1>4
    <3> QED BY <3>1, <2>2, <1>5
  <2>3. n - 1 \in Fine
    <3>1. Fine \in SUBSET Nat /\ n - 1 \in Nat /\ n - 1 \in 0..n - 1
      BY <1>4
    <3> HIDE DEF Fine
    <3> QED BY <3>1, <2>1, <2>2, UpTo
  <2>4. (n - 1) + 1 = n
    BY <1>4
  <2> QED BY <2>3, <2>4, <1>4
<1> QED BY <1>4, <1>7, <1>8, <1>9 DEF b, p, n


-----------------------------------------------------------------------------
(***************************************************************************)
(* The search for a path of the least weight.                              *)
(***************************************************************************)

\* Ways on from a finite set of nodes, along edges with weights; they may lead out
\* of the set.
IsWeighted(next, nodes, E) ==
    /\ IsFiniteSet(nodes) /\ DOMAIN next = nodes
    /\ \A e \in E : e.weight \in Nat
    /\ \A u \in nodes : \A x \in next[u] : x = Way(x.edge, x.node) /\ x.edge \in E

SettleStates(nodes, E) ==
    [unvisited : SUBSET nodes, at : Partial(nodes, Nat),
     from : Partial(nodes, [prev : nodes, edge : E])]

\* Each node but the first has its distance by way of a visited one.
SettleFound(next, nodes, s, a) ==
    /\ s \in DOMAIN a.at /\ a.at[s] = 0
    /\ DOMAIN a.from = DOMAIN a.at \ {s}
    /\ \A v \in DOMAIN a.from :
          /\ a.from[v].prev \in DOMAIN a.at \ a.unvisited
          /\ a.at[v] = a.at[a.from[v].prev] + a.from[v].edge.weight
          /\ Way(a.from[v].edge, v) \in next[a.from[v].prev]

\* What has been visited is no farther than what has not, and nothing is nearer by
\* way of it.
SettleDone(next, nodes, t, a) ==
    /\ t \in a.unvisited
    /\ \A v \in nodes \ a.unvisited :
          /\ v \in DOMAIN a.at
          /\ \A w \in a.unvisited \cap DOMAIN a.at : a.at[v] <= a.at[w]
          /\ \A x \in next[v] : x.node \in nodes =>
                x.node \in DOMAIN a.at /\ a.at[x.node] <= a.at[v] + x.edge.weight

\* The k-th visit has the rank k.
RankedBy(nodes, a, rank, k) ==
    /\ \A v \in nodes \ a.unvisited : rank[v] < k
    /\ \A v \in a.unvisited : rank[v] = k
    /\ \A v \in DOMAIN a.from : rank[a.from[v].prev] < rank[v]

SettleRanked(nodes, a) == \E rank \in [nodes -> Nat], k \in Nat : RankedBy(nodes, a, rank, k)

SettleInv(next, nodes, E, s, t, a) ==
    /\ a \in SettleStates(nodes, E)
    /\ SettleFound(next, nodes, s, a) /\ SettleDone(next, nodes, t, a) /\ SettleRanked(nodes, a)

Near(a) == a.unvisited \cap DOMAIN a.at
Nearest(a) == CHOOSE n \in Near(a) : \A m \in Near(a) : a.at[n] <= a.at[m]
SettleOver(t, a) == Near(a) = {} \/ Nearest(a) = t

\* u is visited, and of nearer what was found or found again.
Settles(next, E, a, u, nearer, b) ==
    /\ b = [unvisited |-> a.unvisited \ {u}, at |-> b.at, from |-> b.from]
    /\ b.at = [v \in DOMAIN a.at \cup nearer |-> b.at[v]]
    /\ b.from = [v \in DOMAIN a.from \cup nearer |-> b.from[v]]
    /\ \A v \in DOMAIN a.at \ nearer : b.at[v] = a.at[v]
    /\ \A v \in DOMAIN a.from \ nearer : b.from[v] = a.from[v]
    /\ \A v \in nearer : /\ b.from[v] \in [prev : {u}, edge : E]
                         /\ Way(b.from[v].edge, v) \in next[u]
                         /\ b.at[v] = a.at[u] + b.from[v].edge.weight
                         /\ v \in DOMAIN a.at => b.at[v] < a.at[v]

LEMMA SettleFields ==
  ASSUME NEW N, NEW E, NEW a \in SettleStates(N, E)
  PROVE  /\ a.unvisited \subseteq N /\ a.at \in Partial(N, Nat)
         /\ a.from \in Partial(N, [prev : N, edge : E])
         /\ DOMAIN a.at \subseteq N /\ \A v \in DOMAIN a.at : a.at[v] \in Nat
         /\ DOMAIN a.from \subseteq N
         /\ \A v \in DOMAIN a.from : a.from[v].prev \in N /\ a.from[v].edge \in E
<1> DEFINE f == a.from
           T == [prev : N, edge : E]
<1>1. a.unvisited \subseteq N /\ a.at \in Partial(N, Nat) /\ f \in Partial(N, T)
  BY DEF SettleStates
<1>2. \A x \in T : x.prev \in N /\ x.edge \in E
  OBVIOUS
<1> HIDE DEF f, T
<1>3. DOMAIN a.at \subseteq N /\ \A v \in DOMAIN a.at : a.at[v] \in Nat
  BY <1>1, Partials
<1>4. DOMAIN f \subseteq N /\ \A v \in DOMAIN f : f[v] \in T
  BY <1>1, Partials
<1> QED BY <1>1, <1>2, <1>3, <1>4 DEF f, T

LEMMA NearestIs ==
  ASSUME NEW N, NEW E, NEW a \in SettleStates(N, E), Near(a) # {}
  PROVE  /\ Nearest(a) \in Near(a) /\ Nearest(a) \in N
         /\ \A m \in Near(a) : a.at[Nearest(a)] <= a.at[m]
<1> DEFINE D == {a.at[v] : v \in Near(a)}
<1>1. D \in SUBSET Nat /\ D # {}
  <2>1. \A v \in Near(a) : a.at[v] \in Nat
    BY SettleFields DEF Near
  <2> QED BY <2>1
<1>2. PICK d \in D : \A e \in D : d <= e
  <2> HIDE DEF D
  <2> QED BY <1>1, LeastExists
<1>3. PICK n \in Near(a) : d = a.at[n]
  BY <1>2
<1>4. \A m \in Near(a) : a.at[n] <= a.at[m]
  BY <1>2, <1>3
<1>5. Nearest(a) \in Near(a) /\ \A m \in Near(a) : a.at[Nearest(a)] <= a.at[m]
  BY <1>4 DEF Nearest
<1> QED BY <1>5, SettleFields DEF Near

LEMMA SettleRoundSettles ==
  ASSUME NEW next, NEW nodes, NEW E, IsWeighted(next, nodes, E), NEW s, NEW t \in nodes, NEW a,
         SettleInv(next, nodes, E, s, t, a), ~SettleOver(t, a)
  PROVE  \E nearer \in SUBSET (a.unvisited \ {Nearest(a)}) :
            LET u == Nearest(a)
                b == SettleRound(next, t, a)
            IN  /\ Settles(next, E, a, u, nearer, b)
                /\ \A x \in next[u] : x.node \in a.unvisited \ {u} =>
                      \/ x.node \in nearer /\ b.at[x.node] <= a.at[u] + x.edge.weight
                      \/ x.node \in DOMAIN a.at /\ a.at[x.node] <= a.at[u] + x.edge.weight
<1> DEFINE near == a.unvisited \cap DOMAIN a.at
           u == CHOOSE n \in near : \A m \in near : a.at[n] <= a.at[m]
           Alt(x) == a.at[u] + x.edge.weight
           better == {x \in next[u] : /\ x.node \in a.unvisited \ {u}
                                      /\ x.node \in DOMAIN a.at => Alt(x) < a.at[x.node]}
           nearer == {x.node : x \in better}
           Best(v) == CHOOSE x \in better :
                         x.node = v /\ \A y \in better : y.node = v => Alt(x) <= Alt(y)
           b == [unvisited |-> a.unvisited \ {u},
                 at |-> [v \in DOMAIN a.at \cup nearer |->
                            IF v \in nearer THEN Alt(Best(v)) ELSE a.at[v]],
                 from |-> [v \in DOMAIN a.from \cup nearer |->
                              IF v \in nearer THEN [prev |-> u, edge |-> Best(v).edge]
                              ELSE a.from[v]]]
<1>1. a \in SettleStates(nodes, E)
  BY DEF SettleInv
<1>2. near = Near(a) /\ u = Nearest(a)
  BY DEF Near, Nearest
<1>3. SettleRound(next, t, a) = b
  BY <1>2 DEF SettleRound, SettleOver
<1> HIDE DEF u, near
<1>4. u \in near /\ u \in nodes /\ a.at[u] \in Nat /\ u \in DOMAIN a.at /\ u \in a.unvisited
  BY <1>1, <1>2, NearestIs, SettleFields DEF SettleOver, near
<1>5. \A x \in next[u] : x = Way(x.edge, x.node) /\ x.edge \in E /\ Alt(x) \in Nat
  BY <1>4 DEF IsWeighted
<1>6. nearer \in SUBSET (a.unvisited \ {u})
  OBVIOUS
<1>7. \A x \in better : x \in next[u] /\ x.node \in nearer /\ Alt(x) \in Nat
                        /\ (x.node \in DOMAIN a.at => Alt(x) < a.at[x.node])
  BY <1>5
<1>8. \A v \in nearer : \E x \in better : x.node = v
  OBVIOUS
<1>14. \A x \in next[u] : x.node \in a.unvisited \ {u} =>
          x \in better \/ (x.node \in DOMAIN a.at /\ ~(Alt(x) < a.at[x.node]))
  OBVIOUS
<1> HIDE DEF better, nearer
<1>9. ASSUME NEW v \in nearer
      PROVE  /\ Best(v) \in better /\ Best(v).node = v
             /\ \A y \in better : y.node = v => Alt(Best(v)) <= Alt(y)
  <2> DEFINE D == {Alt(x) : x \in {y \in better : y.node = v}}
  <2>1. D \in SUBSET Nat /\ D # {}
    BY <1>7, <1>8
  <2>2. PICK d \in D : \A e \in D : d <= e
    <3> HIDE DEF D
    <3> QED BY <2>1, LeastExists
  <2>3. PICK x \in better : x.node = v /\ d = Alt(x)
    BY <2>2
  <2>4. \A y \in better : y.node = v => Alt(x) <= Alt(y)
    BY <2>2, <2>3
  <2> HIDE DEF Alt
  <2>5. \E z \in better : z.node = v /\ \A y \in better : y.node = v => Alt(z) <= Alt(y)
    BY <2>3, <2>4
  <2> QED BY <2>5
<1>10. \A v \in nearer : /\ Best(v) \in next[u] /\ Way(Best(v).edge, v) = Best(v)
                         /\ Best(v).edge \in E
                         /\ v \in DOMAIN a.at => Alt(Best(v)) < a.at[v]
  <2> TAKE v \in nearer
  <2> HIDE DEF Best, Alt
  <2>1. Best(v) \in better /\ Best(v).node = v
    BY <1>9
  <2> QED BY <2>1, <1>5, <1>7
<1> HIDE DEF Best
<1>11. Settles(next, E, a, u, nearer, b)
  <2>1. b = [unvisited |-> a.unvisited \ {u}, at |-> b.at, from |-> b.from]
    OBVIOUS
  <2>2. /\ b.at = [v \in DOMAIN a.at \cup nearer |->
                      IF v \in nearer THEN Alt(Best(v)) ELSE a.at[v]]
        /\ b.from = [v \in DOMAIN a.from \cup nearer |->
                        IF v \in nearer THEN [prev |-> u, edge |-> Best(v).edge] ELSE a.from[v]]
    OBVIOUS
  <2> HIDE DEF b
  <2>3. /\ \A v \in DOMAIN a.at \ nearer : b.at[v] = a.at[v]
        /\ \A v \in DOMAIN a.from \ nearer : b.from[v] = a.from[v]
        /\ \A v \in nearer : b.at[v] = Alt(Best(v)) /\ b.from[v] = [prev |-> u, edge |-> Best(v).edge]
    BY <2>2
  <2>4. ASSUME NEW v \in nearer
        PROVE  /\ b.from[v] \in [prev : {u}, edge : E]
               /\ Way(b.from[v].edge, v) \in next[u]
               /\ b.at[v] = a.at[u] + b.from[v].edge.weight
               /\ v \in DOMAIN a.at => b.at[v] < a.at[v]
    <3>1. b.at[v] = Alt(Best(v)) /\ b.from[v] = [prev |-> u, edge |-> Best(v).edge]
      BY <2>3
    <3>2. /\ Way(Best(v).edge, v) \in next[u] /\ Best(v).edge \in E
          /\ v \in DOMAIN a.at => Alt(Best(v)) < a.at[v]
      BY <1>10
    <3>3. b.from[v].edge = Best(v).edge /\ b.from[v].prev = u
      BY <3>1
    <3>4. Alt(Best(v)) = a.at[u] + Best(v).edge.weight
      OBVIOUS
    <3> HIDE DEF Alt
    <3> QED BY <3>1, <3>2, <3>3, <3>4
  <2> QED BY <2>1, <2>2, <2>3, <2>4 DEF Settles
<1>12. ASSUME NEW x \in next[u], x.node \in a.unvisited \ {u}
       PROVE  \/ x.node \in nearer /\ b.at[x.node] <= a.at[u] + x.edge.weight
              \/ x.node \in DOMAIN a.at /\ a.at[x.node] <= a.at[u] + x.edge.weight
  <2>1. CASE x \in better
    <3>1. x.node \in nearer
      BY <2>1, <1>7
    <3>2. b.at[x.node] = Alt(Best(x.node))
      BY <3>1
    <3>3. Alt(Best(x.node)) <= Alt(x)
      BY <2>1, <3>1, <1>9
    <3> QED BY <3>1, <3>2, <3>3
  <2>2. CASE x \notin better
    <3>1. x.node \in DOMAIN a.at /\ ~(Alt(x) < a.at[x.node])
      BY <2>2, <1>12, <1>14
    <3>2. a.at[x.node] \in Nat /\ Alt(x) \in Nat
      BY <3>1, <1>1, <1>5, SettleFields
    <3> QED BY <3>1, <3>2
  <2> QED BY <2>1, <2>2
<1> HIDE DEF b, Alt
<1> QED BY <1>2, <1>3, <1>6, <1>11, <1>12

LEMMA SettleRoundKeeps ==
  ASSUME NEW next, NEW nodes, NEW E, IsWeighted(next, nodes, E), NEW s, NEW t \in nodes, NEW a,
         SettleInv(next, nodes, E, s, t, a), ~SettleOver(t, a)
  PROVE  LET b == SettleRound(next, t, a)
         IN  /\ SettleInv(next, nodes, E, s, t, b)
             /\ Cardinality(b.unvisited) < Cardinality(a.unvisited)
<1> DEFINE u == Nearest(a)
           b == SettleRound(next, t, a)
<1>1. a \in SettleStates(nodes, E) /\ SettleFound(next, nodes, s, a)
      /\ SettleDone(next, nodes, t, a) /\ SettleRanked(nodes, a)
  BY DEF SettleInv
<1>2. PICK nearer \in SUBSET (a.unvisited \ {u}) :
         /\ Settles(next, E, a, u, nearer, b)
         /\ \A x \in next[u] : x.node \in a.unvisited \ {u} =>
               \/ x.node \in nearer /\ b.at[x.node] <= a.at[u] + x.edge.weight
               \/ x.node \in DOMAIN a.at /\ a.at[x.node] <= a.at[u] + x.edge.weight
  BY SettleRoundSettles
<1>3. /\ u \in a.unvisited /\ u \in DOMAIN a.at /\ u \in nodes /\ u # t /\ a.at[u] \in Nat
      /\ \A m \in a.unvisited \cap DOMAIN a.at : a.at[u] <= a.at[m]
  BY <1>1, NearestIs, SettleFields DEF SettleOver, Near
<1>4. /\ a.unvisited \subseteq nodes /\ DOMAIN a.at \subseteq nodes /\ DOMAIN a.from \subseteq nodes
      /\ \A v \in DOMAIN a.at : a.at[v] \in Nat
  BY <1>1, SettleFields
<1> HIDE DEF u, b
<1>5. /\ b.unvisited = a.unvisited \ {u}
      /\ DOMAIN b.at = DOMAIN a.at \cup nearer /\ DOMAIN b.from = DOMAIN a.from \cup nearer
      /\ \A v \in DOMAIN a.at \ nearer : b.at[v] = a.at[v]
      /\ \A v \in DOMAIN a.from \ nearer : b.from[v] = a.from[v]
      /\ \A v \in nearer : /\ b.from[v] \in [prev : {u}, edge : E]
                           /\ b.from[v].prev = u /\ b.from[v].edge \in E
                           /\ Way(b.from[v].edge, v) \in next[u]
                           /\ b.at[v] = a.at[u] + b.from[v].edge.weight
                           /\ v \in DOMAIN a.at => b.at[v] < a.at[v]
  <2>1. b.unvisited = a.unvisited \ {u}
    BY <1>2 DEF Settles
  <2>2. DOMAIN b.at = DOMAIN a.at \cup nearer /\ DOMAIN b.from = DOMAIN a.from \cup nearer
    BY <1>2 DEF Settles
  <2>3. \A x \in [prev : {u}, edge : E] : x.prev = u /\ x.edge \in E
    OBVIOUS
  <2>4. /\ \A v \in DOMAIN a.at \ nearer : b.at[v] = a.at[v]
        /\ \A v \in DOMAIN a.from \ nearer : b.from[v] = a.from[v]
        /\ \A v \in nearer : /\ b.from[v] \in [prev : {u}, edge : E]
                             /\ Way(b.from[v].edge, v) \in next[u]
                             /\ b.at[v] = a.at[u] + b.from[v].edge.weight
                             /\ v \in DOMAIN a.at => b.at[v] < a.at[v]
    BY <1>2 DEF Settles
  <2> QED BY <2>1, <2>2, <2>3, <2>4
<1>6. \A v \in nearer : b.from[v].edge.weight \in Nat /\ b.at[v] \in Nat /\ a.at[u] <= b.at[v]
  BY <1>3, <1>5 DEF IsWeighted
<1>7. /\ \A v \in DOMAIN a.at : b.at[v] \in Nat /\ b.at[v] <= a.at[v]
      /\ \A v \in nodes \ b.unvisited : v \in DOMAIN a.at /\ b.at[v] = a.at[v] /\ v \notin nearer
  <2>1. \A v \in DOMAIN a.at : b.at[v] \in Nat /\ b.at[v] <= a.at[v]
    BY <1>4, <1>5, <1>6
  <2>2. \A v \in nodes \ b.unvisited : v = u \/ v \notin a.unvisited
    BY <1>5
  <2>3. \A v \in nodes \ a.unvisited : v \in DOMAIN a.at
    BY <1>1 DEF SettleDone
  <2> QED BY <2>1, <2>2, <2>3, <1>2, <1>3, <1>5
<1>8. b \in SettleStates(nodes, E)
  <2> DEFINE T == [prev : nodes, edge : E]
             f == a.at
             g == b.at
             ff == a.from
             gg == b.from
  <2>1. nearer \in SUBSET nodes /\ b.unvisited \in SUBSET nodes
    BY <1>4, <1>5
  <2>2. \A v \in nearer : gg[v] \in T
    BY <1>3, <1>5
  <2>3. /\ f \in Partial(nodes, Nat) /\ ff \in Partial(nodes, T)
        /\ g = [v \in DOMAIN f \cup nearer |-> g[v]] /\ (\A v \in DOMAIN f \ nearer : g[v] = f[v])
        /\ gg = [v \in DOMAIN ff \cup nearer |-> gg[v]]
        /\ (\A v \in DOMAIN ff \ nearer : gg[v] = ff[v])
        /\ b = [unvisited |-> b.unvisited, at |-> g, from |-> gg]
    BY <1>1, <1>2, <1>5, SettleFields DEF Settles
  <2>4. \A v \in nearer : g[v] \in Nat
    BY <1>6
  <2> HIDE DEF T, f, g, ff, gg
  <2>5. g \in Partial(nodes, Nat)
    <3>1. f \in Partial(nodes, Nat) /\ nearer \in SUBSET nodes /\ GivesMore(f, nearer, Nat, g)
      BY <2>1, <2>3, <2>4 DEF GivesMore
    <3> QED BY <3>1, PartialMore
  <2>6. gg \in Partial(nodes, T)
    <3>1. ff \in Partial(nodes, T) /\ nearer \in SUBSET nodes /\ GivesMore(ff, nearer, T, gg)
      BY <2>1, <2>2, <2>3 DEF GivesMore
    <3> QED BY <3>1, PartialMore
  <2> QED BY <2>1, <2>3, <2>5, <2>6 DEF SettleStates, T
<1>9. SettleFound(next, nodes, s, b)
  <2>1. s \in DOMAIN a.at /\ a.at[s] = 0 /\ DOMAIN a.from = DOMAIN a.at \ {s}
    BY <1>1 DEF SettleFound
  <2>2. s \notin nearer
    <3> SUFFICES ASSUME s \in nearer PROVE FALSE
      OBVIOUS
    <3>1. b.at[s] < 0 /\ b.at[s] \in Nat
      BY <2>1, <1>5, <1>6
    <3> QED BY <3>1
  <2>3. ASSUME NEW v \in DOMAIN b.from
        PROVE  /\ b.from[v].prev \in DOMAIN b.at \ b.unvisited
               /\ b.at[v] = b.at[b.from[v].prev] + b.from[v].edge.weight
               /\ Way(b.from[v].edge, v) \in next[b.from[v].prev]
    <3>1. CASE v \in nearer
      <4>1. u \in DOMAIN b.at \ b.unvisited /\ b.at[u] = a.at[u]
        BY <1>2, <1>3, <1>5
      <4>2. b.from[v].prev = u
        BY <3>1, <1>5
      <4> QED BY <3>1, <4>1, <4>2, <1>5
    <3>2. CASE v \notin nearer
      <4>1. v \in DOMAIN a.from /\ v \in DOMAIN a.at /\ b.from[v] = a.from[v] /\ b.at[v] = a.at[v]
        BY <3>2, <1>5, <2>1
      <4>2. /\ a.from[v].prev \in DOMAIN a.at \ a.unvisited
            /\ a.at[v] = a.at[a.from[v].prev] + a.from[v].edge.weight
            /\ Way(a.from[v].edge, v) \in next[a.from[v].prev]
        BY <4>1, <1>1 DEF SettleFound
      <4>3. a.from[v].prev \notin nearer
        BY <4>2, <1>2
      <4>4. a.from[v].prev \in DOMAIN b.at \ b.unvisited /\ b.at[a.from[v].prev] = a.at[a.from[v].prev]
        BY <4>2, <4>3, <1>5
      <4> QED BY <4>1, <4>2, <4>4
    <3> QED BY <3>1, <3>2
  <2> QED BY <2>1, <2>2, <2>3, <1>5 DEF SettleFound
<1>10. SettleDone(next, nodes, t, b)
  <2>1. t \in b.unvisited
    BY <1>1, <1>3, <1>5 DEF SettleDone
  <2>2. ASSUME NEW v \in nodes \ b.unvisited
        PROVE  /\ v \in DOMAIN b.at
               /\ \A w \in b.unvisited \cap DOMAIN b.at : b.at[v] <= b.at[w]
               /\ \A x \in next[v] : x.node \in nodes =>
                     x.node \in DOMAIN b.at /\ b.at[x.node] <= b.at[v] + x.edge.weight
    <3>1. v \in DOMAIN a.at /\ b.at[v] = a.at[v] /\ v \in DOMAIN b.at
      BY <1>5, <1>7
    <3>2. a.at[v] <= a.at[u] /\ a.at[v] \in Nat
      <4>1. CASE v = u
        BY <4>1, <1>3
      <4>2. CASE v # u
        <5>1. v \in nodes \ a.unvisited /\ u \in a.unvisited \cap DOMAIN a.at
          BY <4>2, <1>3, <1>5
        <5> QED BY <5>1, <1>1, <1>4 DEF SettleDone
      <4> QED BY <4>1, <4>2
    <3>3. ASSUME NEW w \in b.unvisited \cap DOMAIN b.at PROVE b.at[v] <= b.at[w]
      <4>1. CASE w \in nearer
        BY <4>1, <3>1, <3>2, <1>3, <1>6
      <4>2. CASE w \notin nearer
        <5>1. w \in a.unvisited \cap DOMAIN a.at /\ b.at[w] = a.at[w] /\ a.at[w] \in Nat
          BY <4>2, <1>4, <1>5
        <5> QED BY <5>1, <3>1, <3>2, <1>3
      <4> QED BY <4>1, <4>2
    <3>4. ASSUME NEW x \in next[v], x.node \in nodes
          PROVE  x.node \in DOMAIN b.at /\ b.at[x.node] <= a.at[v] + x.edge.weight
      <4>1. x.edge.weight \in Nat
        BY DEF IsWeighted
      <4>2. ASSUME x.node \in DOMAIN a.at, a.at[x.node] <= a.at[v] + x.edge.weight
            PROVE  x.node \in DOMAIN b.at /\ b.at[x.node] <= a.at[v] + x.edge.weight
        <5>1. b.at[x.node] \in Nat /\ b.at[x.node] <= a.at[x.node] /\ a.at[x.node] \in Nat
          BY <4>2, <1>4, <1>7
        <5> QED BY <4>1, <4>2, <5>1, <3>2, <1>5
      <4>3. CASE v = u
        <5>1. CASE x.node \in a.unvisited \ {u}
          BY <4>2, <4>3, <5>1, <1>2, <1>5
        <5>2. CASE x.node = u
          BY <4>1, <4>2, <4>3, <5>2, <1>3
        <5>3. CASE x.node \notin a.unvisited
          <6>1. x.node \in DOMAIN a.at /\ a.at[x.node] <= a.at[u] /\ a.at[x.node] \in Nat
            BY <5>3, <3>4, <1>1, <1>3, <1>4 DEF SettleDone
          <6> QED BY <6>1, <4>1, <4>2, <4>3, <1>3
        <5> QED BY <5>1, <5>2, <5>3
      <4>4. CASE v # u
        <5>1. v \in nodes \ a.unvisited
          BY <4>4, <1>5
        <5>2. x.node \in DOMAIN a.at /\ a.at[x.node] <= a.at[v] + x.edge.weight
          BY <5>1, <3>4, <1>1 DEF SettleDone
        <5> QED BY <5>2, <4>2
      <4> QED BY <4>3, <4>4
    <3> QED BY <3>1, <3>3, <3>4
  <2> QED BY <2>1, <2>2 DEF SettleDone
<1>11. SettleRanked(nodes, b)
  <2>1. PICK rank \in [nodes -> Nat], k \in Nat : RankedBy(nodes, a, rank, k)
    BY <1>1 DEF SettleRanked
  <2> DEFINE more == [v \in nodes |-> IF v \in b.unvisited THEN k + 1 ELSE rank[v]]
  <2>2. more \in [nodes -> Nat] /\ k + 1 \in Nat
    OBVIOUS
  <2>3. /\ \A v \in nodes \ b.unvisited : more[v] = rank[v] /\ rank[v] < k + 1 /\ rank[v] \in Nat
        /\ \A v \in b.unvisited : more[v] = k + 1 /\ v \in nodes
    <3>1. \A v \in nodes \ b.unvisited : v \in nodes \ a.unvisited \/ v = u
      BY <1>5
    <3>2. rank[u] = k /\ \A v \in nodes \ a.unvisited : rank[v] < k /\ rank[v] \in Nat
      BY <2>1, <1>3 DEF RankedBy
    <3> QED BY <3>1, <3>2, <1>4, <1>5
  <2> HIDE DEF more
  <2>4. ASSUME NEW v \in DOMAIN b.from PROVE more[b.from[v].prev] < more[v]
    <3>1. CASE v \in nearer
      <4>1. b.from[v].prev = u /\ v \in b.unvisited /\ u \in nodes \ b.unvisited
        BY <3>1, <1>2, <1>3, <1>5
      <4> QED BY <4>1, <2>3
    <3>2. CASE v \notin nearer
      <4>1. v \in DOMAIN a.from /\ b.from[v] = a.from[v]
        BY <3>2, <1>5
      <4> DEFINE p == a.from[v].prev
      <4>2. p \in nodes \ a.unvisited /\ p \in nodes \ b.unvisited
        BY <4>1, <1>1, <1>4, <1>5 DEF SettleFound
      <4>3. rank[p] < rank[v] /\ v \in nodes /\ rank[v] \in Nat /\ rank[p] \in Nat
        BY <4>1, <4>2, <2>1, <1>4 DEF RankedBy
      <4> HIDE DEF p
      <4>4. more[p] = rank[p] /\ rank[p] < k + 1
        BY <4>2, <2>3
      <4>5. CASE v \in b.unvisited
        BY <4>1, <4>4, <4>5, <2>3 DEF p
      <4>6. CASE v \notin b.unvisited
        BY <4>1, <4>3, <4>4, <4>6, <2>3 DEF p
      <4> QED BY <4>5, <4>6
    <3> QED BY <3>1, <3>2
  <2>5. RankedBy(nodes, b, more, k + 1)
    BY <2>3, <2>4 DEF RankedBy
  <2> QED BY <2>2, <2>5 DEF SettleRanked
<1>12. Cardinality(b.unvisited) < Cardinality(a.unvisited)
  <2>1. IsFiniteSet(a.unvisited)
    BY <1>4, FS_Subset DEF IsWeighted
  <2>2. Cardinality(a.unvisited) \in Nat
        /\ Cardinality(a.unvisited \ {u}) = Cardinality(a.unvisited) - 1
    BY <2>1, <1>3, FS_RemoveElement, FS_CardinalityType
  <2> QED BY <2>2, <1>5
<1> QED BY <1>8, <1>9, <1>10, <1>11, <1>12 DEF SettleInv, b


SettleStart(nodes, s) == [unvisited |-> nodes, at |-> [v \in {s} |-> 0], from |-> <<>>]

LEMMA SettleStarts ==
  ASSUME NEW next, NEW nodes, NEW E, IsWeighted(next, nodes, E), NEW s \in nodes, NEW t \in nodes
  PROVE  SettleInv(next, nodes, E, s, t, SettleStart(nodes, s))
<1> DEFINE a == SettleStart(nodes, s)
<1>1. /\ a = [unvisited |-> a.unvisited, at |-> a.at, from |-> a.from]
      /\ a.unvisited = nodes /\ a.at = [v \in {s} |-> 0] /\ a.from = <<>>
  BY DEF SettleStart
<1> HIDE DEF a
<1>2. DOMAIN a.at = {s} /\ a.at[s] = 0 /\ DOMAIN a.from = {}
  BY <1>1
<1>3. a \in SettleStates(nodes, E)
  <2>1. a.at \in Partial(nodes, Nat)
    <3>1. a.at \in [{s} -> Nat] /\ {s} \in SUBSET nodes
      BY <1>1
    <3> QED BY <3>1 DEF Partial
  <2>2. a.from \in Partial(nodes, [prev : nodes, edge : E])
    <3>1. a.from \in [{} -> [prev : nodes, edge : E]] /\ {} \in SUBSET nodes
      BY <1>1
    <3> QED BY <3>1 DEF Partial
  <2> QED BY <1>1, <2>1, <2>2 DEF SettleStates
<1>4. SettleFound(next, nodes, s, a)
  BY <1>2 DEF SettleFound
<1>5. SettleDone(next, nodes, t, a)
  BY <1>1, <1>2 DEF SettleDone
<1>6. SettleRanked(nodes, a)
  <2>1. PICK rank : rank = [v \in nodes |-> 0]
    OBVIOUS
  <2>2. rank \in [nodes -> Nat] /\ RankedBy(nodes, a, rank, 0)
    BY <2>1, <1>1, <1>2 DEF RankedBy
  <2> QED BY <2>2 DEF SettleRanked
<1> QED BY <1>3, <1>4, <1>5, <1>6 DEF SettleInv, a

\* As many rounds as there are nodes are enough.
LEMMA SettleEnds ==
  ASSUME NEW next, NEW nodes, NEW E, IsWeighted(next, nodes, E), NEW s \in nodes, NEW t \in nodes
  PROVE  LET end == Settle(next, nodes, s, t)
         IN  SettleInv(next, nodes, E, s, t, end) /\ SettleOver(t, end)
<1> DEFINE S == {a \in SettleStates(nodes, E) : SettleInv(next, nodes, E, s, t, a)}
           F == [a \in S |-> SettleRound(next, t, a)]
           N == Cardinality(nodes)
           start == SettleStart(nodes, s)
           Rec(h) == [k \in 0..N |-> IF k = 0 THEN start ELSE SettleRound(next, t, h[k - 1])]
           after == CHOOSE h : h = Rec(h)
           over == {a \in S : SettleOver(t, a)}
           left == [a \in S |-> Cardinality(a.unvisited)]
<1>1. Settle(next, nodes, s, t) = after[N]
  BY DEF Settle, Repeat, SettleStart
<1>2. start \in S /\ N \in Nat /\ IsFiniteSet(nodes)
  BY SettleStarts, FS_CardinalityType DEF SettleInv, IsWeighted
<1>3. \A a \in over : SettleRound(next, t, a) = a
  BY DEF SettleRound, SettleOver, Near, Nearest
<1>4. F \in [S -> S]
  <2>1. ASSUME NEW a \in S PROVE SettleRound(next, t, a) \in S
    <3>1. CASE a \in over
      BY <1>3, <3>1
    <3>2. CASE a \notin over
      BY <3>2, SettleRoundKeeps DEF SettleInv
    <3> QED BY <3>1, <3>2
  <2> QED BY <2>1
<1>5. \A a \in S : F[a] = SettleRound(next, t, a)
  OBVIOUS
<1>6. PICK h : IsRun(h, S, F, start, N)
  <2> HIDE DEF S, F, N, start
  <2> QED BY <1>2, <1>4, IterationExists
<1>7. after = Rec(after)
  <2>1. h = Rec(h)
    <3>1. \A k \in 0..N : k # 0 => k \in 1..N /\ k - 1 \in 0..N
      BY <1>2
    <3>2. \A k \in 0..N : h[k] = IF k = 0 THEN start ELSE SettleRound(next, t, h[k - 1])
      <4> HIDE DEF S, F, N, start
      <4> QED BY <1>5, <1>6, <3>1 DEF IsRun
    <3> HIDE DEF S, F, N, start
    <3> QED BY <1>6, <3>2 DEF IsRun
  <2> HIDE DEF Rec
  <2> QED BY <2>1
<1> HIDE DEF after
<1>8. FollowsIn(after, S, F, start, N)
  <2>1. 0 \in 0..N /\ \A n \in 1..N : n \in 0..N /\ n # 0
    BY <1>2
  <2> HIDE DEF S, F, N, start
  <2> QED BY <1>5, <1>7, <2>1 DEF FollowsIn
<1>9. over \in SUBSET S /\ \A a \in over : F[a] = a
  BY <1>3, <1>5
<1>10. left \in [S -> Nat] /\ left[start] <= N
  <2>1. ASSUME NEW a \in S PROVE Cardinality(a.unvisited) \in Nat /\ Cardinality(a.unvisited) <= N
    <3>1. a.unvisited \in SUBSET nodes
      BY SettleFields
    <3> QED BY <3>1, <1>2, FS_Subset, FS_CardinalityType
  <2> QED BY <2>1, <1>2
<1>11. \A a \in S \ over : left[F[a]] < left[a]
  BY <1>4, <1>5, SettleRoundKeeps
<1>12. EndsIn(over, left, S, F)
  BY <1>9, <1>10, <1>11 DEF EndsIn
<1>13. after[N] \in over
  <2> HIDE DEF S, F, N, start, over, left
  <2> QED BY <1>2, <1>4, <1>8, <1>10, <1>12, IterationEnds
<1> QED BY <1>1, <1>13

-----------------------------------------------------------------------------
\* tot are the running totals of c.
IsTotal(n, c, tot) ==
    /\ c \in [1..n -> Nat] /\ tot \in [1..n -> Nat]
    /\ tot[1] = 0 /\ \A i \in 2..n : tot[i] = tot[i - 1] + c[i]

LEMMA TotalsExist ==
  ASSUME NEW n \in Nat \ {0}, NEW c \in [1..n -> Nat]
  PROVE  \E tot : IsTotal(n, c, tot)
<1> DEFINE S == [at : Nat, sum : Nat]
           F == [x \in S |-> [at |-> x.at + 1,
                              sum |-> x.sum + IF x.at + 1 \in 1..n THEN c[x.at + 1] ELSE 0]]
           start == [at |-> 1, sum |-> 0]
<1>1. F \in [S -> S] /\ start \in S /\ n - 1 \in Nat
  OBVIOUS
<1>2. \A x \in S : /\ F[x].at = x.at + 1 /\ x.at \in Nat /\ x.sum \in Nat
                   /\ x.at + 1 \in 1..n => F[x].sum = x.sum + c[x.at + 1]
  OBVIOUS
<1>3. start.at = 1 /\ start.sum = 0
  OBVIOUS
<1> HIDE DEF S, F, start
<1>4. PICK h : IsRun(h, S, F, start, n - 1)
  BY <1>1, IterationExists
<1>5. h[0] = start /\ (\A k \in 0..n - 1 : h[k] \in S) /\ \A k \in 1..n - 1 : h[k] = F[h[k - 1]]
  BY <1>4 DEF IsRun
<1>6. \A k \in 0..n - 1 : h[k].at = k + 1
  <2> DEFINE Fine == {k \in 0..n - 1 : h[k].at = k + 1}
  <2>1. 0 \in Fine /\ Fine \in SUBSET Nat
    BY <1>3, <1>5
  <2>2. ASSUME NEW k \in 1..n - 1, k - 1 \in Fine PROVE k \in Fine
    <3>1. h[k] = F[h[k - 1]] /\ h[k - 1] \in S /\ h[k - 1].at = (k - 1) + 1
      BY <2>2, <1>5
    <3>2. h[k].at = ((k - 1) + 1) + 1
      BY <3>1, <1>2
    <3> QED BY <3>2
  <2>3. \A k \in 0..n - 1 : k \in Fine
    <3> HIDE DEF Fine
    <3> QED BY <1>1, <2>1, <2>2, UpTo
  <2> QED BY <2>3
<1> DEFINE tot == [i \in 1..n |-> h[i - 1].sum]
<1>7. \A i \in 1..n : i - 1 \in 0..n - 1
  OBVIOUS
<1>8. tot \in [1..n -> Nat] /\ tot[1] = 0
  BY <1>2, <1>3, <1>5, <1>7
<1>9. ASSUME NEW i \in 2..n PROVE tot[i] = tot[i - 1] + c[i]
  <2>1. i - 1 \in 1..n - 1 /\ i \in 1..n /\ i - 1 \in 1..n /\ (i - 1) - 1 \in 0..n - 1
    OBVIOUS
  <2> DEFINE x == h[(i - 1) - 1]
  <2>2. h[i - 1] = F[x] /\ x \in S /\ x.at = i - 1
    BY <2>1, <1>5, <1>6
  <2>3. x.at + 1 = i
    BY <2>2
  <2>4. h[i - 1].sum = x.sum + c[i]
    BY <2>1, <2>2, <2>3, <1>2
  <2> QED BY <2>1, <2>4
<1> HIDE DEF tot
<1> QED BY <1>8, <1>9 DEF IsTotal

\* c are the least weights along p.
IsCosted(next, p, c) ==
    \A i \in 2..Len(p) :
        /\ \E x \in next[p[i - 1]] : x.node = p[i] /\ x.edge.weight = c[i]
        /\ \A x \in next[p[i - 1]] : x.node = p[i] => c[i] <= x.edge.weight

\* When the search is over, no way to t is shorter than the distance of t.
LEMMA SettleReaches ==
  ASSUME NEW next, NEW nodes, NEW E, IsWeighted(next, nodes, E), NEW s \in nodes, NEW t \in nodes,
         NEW a, SettleInv(next, nodes, E, s, t, a), SettleOver(t, a),
         NEW p \in Seq(nodes), Len(p) \in Nat \ {0}, p[1] = s, p[Len(p)] = t,
         NEW c, NEW tot, IsTotal(Len(p), c, tot), IsCosted(next, p, c)
  PROVE  t \in DOMAIN a.at /\ a.at[t] <= tot[Len(p)]
<1> DEFINE n == Len(p)
           There(d) == t \in DOMAIN a.at /\ a.at[t] <= d
           Fine == {k \in 0..n - 1 :
                       \/ There(tot[k + 1])
                       \/ /\ p[k + 1] \notin a.unvisited
                          /\ p[k + 1] \in DOMAIN a.at /\ a.at[p[k + 1]] <= tot[k + 1]}
<1>1. /\ n \in Nat \ {0} /\ \A i \in 1..n : p[i] \in nodes
      /\ c \in [1..n -> Nat] /\ tot \in [1..n -> Nat] /\ tot[1] = 0
      /\ \A i \in 2..n : tot[i] = tot[i - 1] + c[i]
      /\ IsCosted(next, p, c)
  BY DEF IsTotal
<1>2. a \in SettleStates(nodes, E) /\ SettleFound(next, nodes, s, a) /\ SettleDone(next, nodes, t, a)
      /\ \A v \in DOMAIN a.at : a.at[v] \in Nat
  BY SettleFields DEF SettleInv
<1>3. ASSUME NEW v \in DOMAIN a.at \cap a.unvisited
      PROVE  t \in DOMAIN a.at /\ a.at[t] <= a.at[v] /\ a.at[t] \in Nat
  <2>1. Near(a) # {}
    BY DEF Near
  <2>2. Nearest(a) = t
    BY <2>1 DEF SettleOver
  <2>3. t \in Near(a) /\ \A m \in Near(a) : a.at[t] <= a.at[m]
    BY <1>2, <2>1, <2>2, NearestIs
  <2> QED BY <1>2, <2>3 DEF Near
<1> HIDE DEF n
<1>4. 0 \in Fine
  <2>1. p[0 + 1] = s /\ tot[0 + 1] = 0 /\ s \in DOMAIN a.at /\ a.at[s] = 0
    BY <1>1, <1>2 DEF SettleFound
  <2>2. CASE s \in a.unvisited
    BY <2>1, <2>2, <1>1, <1>3
  <2>3. CASE s \notin a.unvisited
    BY <2>1, <2>3, <1>1
  <2> QED BY <2>2, <2>3
<1>5. ASSUME NEW k \in 1..n - 1, k - 1 \in Fine PROVE k \in Fine
  <2>1. /\ (k - 1) + 1 = k /\ k + 1 \in 2..n /\ (k + 1) - 1 = k /\ k \in 1..n /\ k + 1 \in 1..n
    BY <1>1
  <2>2. tot[k + 1] = tot[k] + c[k + 1] /\ c[k + 1] \in Nat /\ tot[k] \in Nat /\ tot[k + 1] \in Nat
    BY <1>1, <2>1
  <2>3. CASE There(tot[k])
    BY <2>2, <2>3, <1>2
  <2>4. CASE p[k] \notin a.unvisited /\ p[k] \in DOMAIN a.at /\ a.at[p[k]] <= tot[k]
    <3>1. PICK x \in next[p[k]] : x.node = p[k + 1] /\ x.edge.weight = c[k + 1]
      BY <2>1, <1>1 DEF IsCosted, n
    <3>2. p[k] \in nodes \ a.unvisited /\ p[k + 1] \in nodes
      BY <2>1, <2>4, <1>1
    <3>3. p[k + 1] \in DOMAIN a.at /\ a.at[p[k + 1]] <= a.at[p[k]] + c[k + 1]
      BY <3>1, <3>2, <1>2 DEF SettleDone
    <3>4. a.at[p[k + 1]] <= tot[k + 1] /\ a.at[p[k + 1]] \in Nat
      <4> DEFINE d == a.at[p[k]]
                 e == a.at[p[k + 1]]
                 w == c[k + 1]
                 m == tot[k]
                 o == tot[k + 1]
      <4>1. d \in Nat /\ e \in Nat
        BY <2>4, <3>3, <1>2
      <4>2. o = m + w /\ w \in Nat /\ m \in Nat /\ d <= m /\ e <= d + w
        BY <2>2, <2>4, <3>3
      <4> HIDE DEF d, e, w, m, o
      <4>3. e <= o
        BY <4>1, <4>2
      <4> QED BY <4>1, <4>3 DEF e, o
    <3>5. CASE p[k + 1] \in a.unvisited
      <4>1. There(tot[k + 1])
        BY <3>3, <3>4, <3>5, <2>2, <1>3
      <4> QED BY <4>1, <2>1
    <3>6. CASE p[k + 1] \notin a.unvisited
      BY <3>3, <3>4, <3>6, <2>1
    <3> QED BY <3>5, <3>6
  <2> QED BY <2>1, <2>3, <2>4, <1>5
<1>6. n - 1 \in Fine
  <2>1. Fine \in SUBSET Nat /\ n - 1 \in Nat /\ n - 1 \in 0..n - 1
    BY <1>1
  <2> HIDE DEF Fine
  <2> QED BY <2>1, <1>4, <1>5, UpTo
<1>7. (n - 1) + 1 = n /\ p[n] = t /\ t \in a.unvisited
  BY <1>1, <1>2 DEF SettleDone, n
<1> QED BY <1>6, <1>7 DEF n

\* The way back to s is a way of that distance.
LEMMA SettlePath ==
  ASSUME NEW next, NEW nodes, NEW E, IsWeighted(next, nodes, E), NEW s \in nodes, NEW t \in nodes,
         NEW a, SettleInv(next, nodes, E, s, t, a), t \in DOMAIN a.at
  PROVE  LET b == PathBack(a.from, s, t)
             p == b.path
         IN  /\ p \in Seq(nodes) /\ Len(p) \in Nat \ {0} /\ p[1] = s /\ p[Len(p)] = t
             /\ Len(p) <= Cardinality(nodes)
             /\ OnceEach(p)
             /\ \A i \in 1..Len(p) - 1 : \E x \in next[p[i]] : x.node = p[i + 1]
             /\ b.weight = a.at[t]
             /\ \A c, tot : IsTotal(Len(p), c, tot) /\ IsCosted(next, p, c) =>
                               tot[Len(p)] <= a.at[t]
<1> DEFINE b == PathBack(a.from, s, t)
           p == b.path
           V == DOMAIN a.at
           n == Len(p)
<1>1. /\ a \in SettleStates(nodes, E) /\ SettleFound(next, nodes, s, a)
      /\ DOMAIN a.at \subseteq nodes /\ a.at \in [V -> Nat] /\ DOMAIN a.from \subseteq nodes
      /\ \A v \in DOMAIN a.from : a.from[v].edge \in E
  <2>1. a \in SettleStates(nodes, E) /\ SettleFound(next, nodes, s, a)
    BY DEF SettleInv
  <2>2. a.at = [v \in DOMAIN a.at |-> a.at[v]] /\ \A v \in DOMAIN a.at : a.at[v] \in Nat
    <3> DEFINE f == a.at
    <3>1. f \in Partial(nodes, Nat)
      BY <2>1, SettleFields
    <3> HIDE DEF f
    <3>2. f = [v \in DOMAIN f |-> f[v]] /\ \A v \in DOMAIN f : f[v] \in Nat
      BY <3>1, Partials
    <3> QED BY <3>2 DEF f
  <2>3. DOMAIN a.at \subseteq nodes /\ DOMAIN a.from \subseteq nodes
        /\ \A v \in DOMAIN a.from : a.from[v].edge \in E
    BY <2>1, SettleFields
  <2> QED BY <2>1, <2>2, <2>3
<1>2. PICK ranks \in [nodes -> Nat], k \in Nat : RankedBy(nodes, a, ranks, k)
  BY DEF SettleInv, SettleRanked
<1>3. PICK rank : rank = [v \in V |-> ranks[v]]
  OBVIOUS
<1>4. IsTree(a.from, s, V, rank)
  <2>1. IsFiniteSet(V)
    BY <1>1, FS_Subset DEF IsWeighted
  <2>2. s \in V /\ DOMAIN a.from = V \ {s} /\ rank \in [V -> Nat]
    BY <1>1, <1>2, <1>3 DEF SettleFound
  <2>3. \A v \in DOMAIN a.from : a.from[v].prev \in V /\ rank[a.from[v].prev] < rank[v]
    BY <1>1, <1>2, <1>3 DEF SettleFound, RankedBy
  <2>4. \A v \in DOMAIN a.from : a.from[v].edge.weight \in Nat
    BY <1>1 DEF IsWeighted
  <2> QED BY <2>1, <2>2, <2>3, <2>4 DEF IsTree
<1>5. b \in BackStates(a.from, V, t) /\ p[1] = s
  BY <1>4, PathBackLeads
<1> HIDE DEF b
<1>6. /\ p \in Seq(V) /\ n \in Nat \ {0} /\ p[n] = t
      /\ \A i \in 1..n - 1 : p[i + 1] \in DOMAIN a.from /\ a.from[p[i + 1]].prev = p[i]
  BY <1>5 DEF BackStates, LeadsTo
<1>7. AddsUp(a.from, V, a.at)
  BY <1>1 DEF AddsUp, SettleFound
<1>8. b.weight = a.at[t]
  <2>1. b.weight + a.at[s] = a.at[t] /\ b.weight \in Nat
    BY <1>1, <1>5, <1>7 DEF BackStates
  <2>2. a.at[s] = 0
    BY <1>1 DEF SettleFound
  <2> QED BY <2>1, <2>2
<1> HIDE DEF p, n
<1>9. /\ p \in Seq(nodes)
      /\ \A i \in 1..n : p[i] \in V
  BY <1>1, <1>6 DEF n
<1>10. OnceEach(p)
  <2>1. Rises(rank, p)
    BY <1>4, <1>6 DEF IsTree, Rises, n
  <2>2. rank \in [V -> Nat] /\ p \in Seq(V)
    BY <1>4, <1>6 DEF IsTree
  <2> HIDE DEF V
  <2> QED BY <2>1, <2>2, RisingIsInjective
<1>11. n <= Cardinality(nodes)
  BY <1>9, <1>10, NoLonger DEF IsWeighted, n
<1>12. ASSUME NEW i \in 1..n - 1
       PROVE  /\ Way(a.from[p[i + 1]].edge, p[i + 1]) \in next[p[i]]
              /\ a.at[p[i + 1]] = a.at[p[i]] + a.from[p[i + 1]].edge.weight
  BY <1>1, <1>6 DEF SettleFound
<1>13. \A i \in 1..n - 1 : \E x \in next[p[i]] : x.node = p[i + 1]
  BY <1>12 DEF Way
<1>14. ASSUME NEW c, NEW tot, IsTotal(n, c, tot), IsCosted(next, p, c) PROVE tot[n] <= a.at[t]
  <2> DEFINE Fine == {i \in 0..n - 1 : tot[i + 1] <= a.at[p[i + 1]]}
  <2>1. /\ c \in [1..n -> Nat] /\ tot \in [1..n -> Nat] /\ tot[1] = 0
        /\ \A i \in 2..n : tot[i] = tot[i - 1] + c[i]
    BY <1>14 DEF IsTotal
  <2>2. 0 \in Fine
    BY <2>1, <1>5, <1>1, <1>6 DEF SettleFound, p
  <2>3. ASSUME NEW i \in 1..n - 1, i - 1 \in Fine PROVE i \in Fine
    <3>1. (i - 1) + 1 = i /\ i + 1 \in 2..n /\ (i + 1) - 1 = i /\ i \in 1..n /\ i + 1 \in 1..n
      BY <1>6
    <3>2. tot[i + 1] = tot[i] + c[i + 1] /\ tot[i] \in Nat /\ c[i + 1] \in Nat /\ tot[i] <= a.at[p[i]]
      BY <2>1, <2>3, <3>1
    <3> DEFINE x == Way(a.from[p[i + 1]].edge, p[i + 1])
    <3>3. x \in next[p[i]] /\ x.node = p[i + 1] /\ x.edge = a.from[p[i + 1]].edge
      BY <1>12 DEF Way
    <3>4. c[i + 1] <= x.edge.weight
      BY <1>14, <3>1, <3>3 DEF IsCosted, n
    <3>5. x.edge.weight \in Nat /\ a.at[p[i]] \in Nat
      BY <3>1, <3>3, <1>1, <1>4, <1>6, <1>9 DEF IsTree
    <3> HIDE DEF x
    <3>6. tot[i + 1] <= a.at[p[i + 1]]
      BY <3>2, <3>3, <3>4, <3>5, <1>12
    <3> QED BY <3>6, <1>6
  <2>4. n - 1 \in Fine
    <3>1. Fine \in SUBSET Nat /\ n - 1 \in Nat /\ n - 1 \in 0..n - 1
      BY <1>6
    <3> HIDE DEF Fine
    <3> QED BY <3>1, <2>2, <2>3, UpTo
  <2>5. (n - 1) + 1 = n
    BY <1>6
  <2> QED BY <2>4, <2>5, <1>6
<1> QED BY <1>5, <1>6, <1>8, <1>9, <1>10, <1>11, <1>13, <1>14 DEF b, p, n


-----------------------------------------------------------------------------
(***************************************************************************)
(* The order of topologicalSort.                                           *)
(***************************************************************************)

\* The edges of g lie between its nodes, and a node has its own in its table.
IsPlan(g, nodes, edges) ==
    /\ IsFiniteSet(nodes) /\ IsFiniteSet(edges)
    /\ nodes = g.nodes /\ edges = {g.edges[e] : e \in DOMAIN g.edges}
    /\ \A r \in edges : r.source \in nodes /\ r.target \in nodes
    /\ \A u \in nodes : OutEdges(g, u) \subseteq edges
    /\ \A u, v \in nodes : u # v =>
          {r \in OutEdges(g, u) : r.target = v} = {r \in edges : r.source = u /\ r.target = v}

\* The edges into v from what is not in D.
Owing(edges, v, D) == {r \in edges : r.target = v /\ r.source \notin D}

DrainStates(nodes) == [queue : Seq(nodes), degree : [nodes -> Int], sorted : Seq(nodes)]

\* A node counts its edges from what is not in the order yet, and is in the queue
\* when there are none.
DrainCounts(nodes, edges, a) ==
    /\ \A v \in nodes \ (Members(a.queue) \cup Members(a.sorted)) :
          a.degree[v] = Cardinality(Owing(edges, v, Members(a.sorted))) /\ a.degree[v] >= 1
    /\ \A v \in Members(a.queue) \cup Members(a.sorted) : a.degree[v] <= 0
    /\ \A v \in Members(a.queue) : Owing(edges, v, Members(a.sorted)) = {}

DrainOrders(edges, a) ==
    \A j \in 1..Len(a.sorted) : \A r \in edges : r.target = a.sorted[j] =>
        \E i \in 1..Len(a.sorted) : i < j /\ a.sorted[i] = r.source

DrainInv(nodes, edges, a) ==
    /\ a \in DrainStates(nodes)
    /\ OnceEach(a.queue) /\ OnceEach(a.sorted) /\ Members(a.queue) \cap Members(a.sorted) = {}
    /\ DrainCounts(nodes, edges, a) /\ DrainOrders(edges, a)

DrainLeft(nodes, a) == Cardinality(nodes \ Members(a.sorted))

Counted(g, u, v) == Cardinality({r \in OutEdges(g, u) : r.target = v})
Ready(g, nodes, a, u) == {v \in nodes : a.degree[v] \in 1..Counted(g, u, v)}

LEMMA DrainFields ==
  ASSUME NEW nodes, NEW a \in DrainStates(nodes)
  PROVE  /\ a.queue \in Seq(nodes) /\ a.sorted \in Seq(nodes) /\ a.degree \in [nodes -> Int]
         /\ Len(a.queue) \in Nat /\ Len(a.sorted) \in Nat
         /\ \A i \in 1..Len(a.sorted) : a.sorted[i] \in nodes
         /\ \A i \in 1..Len(a.queue) : a.queue[i] \in nodes
         /\ Members(a.queue) \subseteq nodes /\ Members(a.sorted) \subseteq nodes
<1>1. PICK q, d : q = a.queue /\ d = a.sorted
  OBVIOUS
<1>2. q \in Seq(nodes) /\ d \in Seq(nodes) /\ a.degree \in [nodes -> Int]
  BY <1>1 DEF DrainStates
<1>3. /\ Len(q) \in Nat /\ Len(d) \in Nat
      /\ \A i \in 1..Len(d) : d[i] \in nodes
      /\ \A i \in 1..Len(q) : q[i] \in nodes
  BY <1>2
<1> QED BY <1>1, <1>2, <1>3 DEF Members

LEMMA Appended ==
  ASSUME NEW V, NEW p \in Seq(V), NEW v \in V
  PROVE  /\ Append(p, v) \in Seq(V) /\ Len(Append(p, v)) = Len(p) + 1 /\ Len(p) \in Nat
         /\ \A i \in 1..Len(p) : Append(p, v)[i] = p[i]
         /\ Append(p, v)[Len(p) + 1] = v
         /\ Members(Append(p, v)) = Members(p) \cup {v}
<1>1. /\ Append(p, v) \in Seq(V) /\ Len(Append(p, v)) = Len(p) + 1 /\ Len(p) \in Nat
      /\ \A i \in 1..Len(p) : Append(p, v)[i] = p[i]
      /\ Append(p, v)[Len(p) + 1] = v
  OBVIOUS
<1> DEFINE q == Append(p, v)
<1> HIDE DEF q
<1>2. \A i \in 1..Len(q) : i \in 1..Len(p) \/ i = Len(p) + 1
  BY <1>1 DEF q
<1>3. \A i \in 1..Len(p) : i \in 1..Len(q)
  BY <1>1 DEF q
<1>4. Len(p) + 1 \in 1..Len(q)
  BY <1>1 DEF q
<1>5. Members(q) = Members(p) \cup {v}
  BY <1>1, <1>2, <1>3, <1>4 DEF Members, q
<1> QED BY <1>1, <1>5 DEF q

\* What is counted off v is what it no longer owes.
LEMMA CountedOff ==
  ASSUME NEW g, NEW nodes, NEW edges, IsPlan(g, nodes, edges),
         NEW D, NEW u \in nodes, u \notin D, NEW v \in nodes, v # u
  PROVE  /\ Counted(g, u, v) \in Nat
         /\ Cardinality(Owing(edges, v, D)) \in Nat
         /\ Cardinality(Owing(edges, v, D \cup {u}))
              = Cardinality(Owing(edges, v, D)) - Counted(g, u, v)
         /\ Cardinality(Owing(edges, v, D \cup {u})) \in Nat
         /\ Cardinality(Owing(edges, v, D \cup {u})) = 0 => Owing(edges, v, D \cup {u}) = {}
<1> DEFINE O == Owing(edges, v, D)
           C == {r \in edges : r.source = u /\ r.target = v}
<1>1. {r \in OutEdges(g, u) : r.target = v} = C
  BY DEF IsPlan
<1>2. Owing(edges, v, D \cup {u}) = O \ C /\ O \cap C = C /\ O \subseteq edges
  BY DEF Owing
<1>3. IsFiniteSet(O) /\ IsFiniteSet(O \ C) /\ IsFiniteSet(C)
  BY <1>2, FS_Subset DEF IsPlan
<1>4. Counted(g, u, v) = Cardinality(C)
  BY <1>1 DEF Counted
<1> HIDE DEF O, C
<1>5. Cardinality(O \ C) = Cardinality(O) - Cardinality(O \cap C)
  BY <1>3, FS_Difference
<1>6. Cardinality(O \ C) \in Nat /\ Cardinality(O) \in Nat /\ Cardinality(C) \in Nat
      /\ (Cardinality(O \ C) = 0 => O \ C = {})
  BY <1>3, FS_CardinalityType, FS_EmptySet
<1> QED BY <1>2, <1>4, <1>5, <1>6 DEF O

LEMMA DrainRoundIs ==
  ASSUME NEW g, NEW nodes, NEW edges, IsPlan(g, nodes, edges), NEW a \in DrainStates(nodes)
  PROVE  DrainRound(g, a) =
           IF a.queue = <<>> THEN a
           ELSE LET u == Head(a.queue)
                IN  [queue |-> Queued(a.queue, Ready(g, nodes, a, u)),
                     degree |-> [v \in nodes |-> a.degree[v] - Counted(g, u, v)],
                     sorted |-> Append(a.sorted, u)]
<1>1. DOMAIN a.degree = nodes
  BY DrainFields
<1> QED BY <1>1 DEF DrainRound, Queued, Ready, Counted

LEMMA DrainRoundKeeps ==
  ASSUME NEW g, NEW nodes, NEW edges, IsPlan(g, nodes, edges),
         NEW a, DrainInv(nodes, edges, a), a.queue # <<>>
  PROVE  LET b == DrainRound(g, a)
         IN  DrainInv(nodes, edges, b) /\ DrainLeft(nodes, b) < DrainLeft(nodes, a)
<1> DEFINE u == Head(a.queue)
           b == DrainRound(g, a)
           S == Ready(g, nodes, a, u)
           D == Members(a.sorted)
           Q == Members(a.queue)
           n == Len(a.sorted)
<1>1. /\ a \in DrainStates(nodes) /\ OnceEach(a.queue) /\ OnceEach(a.sorted) /\ Q \cap D = {}
      /\ DrainCounts(nodes, edges, a) /\ DrainOrders(edges, a)
  BY DEF DrainInv
<1>2. /\ a.queue \in Seq(nodes) /\ a.sorted \in Seq(nodes) /\ a.degree \in [nodes -> Int]
      /\ n \in Nat /\ D \subseteq nodes /\ Q \subseteq nodes
  BY <1>1, DrainFields
<1>3. IsFiniteSet(nodes) /\ S \in SUBSET nodes
  BY DEF IsPlan, Ready
<1>4. /\ \A v \in nodes \ (Q \cup D) :
            a.degree[v] = Cardinality(Owing(edges, v, D)) /\ a.degree[v] >= 1
      /\ \A v \in Q \cup D : a.degree[v] <= 0 /\ a.degree[v] \in Int
      /\ \A v \in Q : Owing(edges, v, D) = {}
  BY <1>1, <1>2 DEF DrainCounts
<1>5. S \cap (Q \cup D) = {}
  BY <1>4 DEF Ready
<1>6. /\ Queued(a.queue, S) \in Seq(nodes) /\ OnceEach(Queued(a.queue, S))
      /\ Members(Queued(a.queue, S)) = (Q \ {u}) \cup S
      /\ u \in Q /\ u \in nodes
  <2> DEFINE q == a.queue
  <2>1. q \in Seq(nodes) /\ q # <<>> /\ OnceEach(q) /\ S \cap Members(q) = {} /\ S \in SUBSET nodes
    BY <1>1, <1>2, <1>3, <1>5
  <2> HIDE DEF q, S
  <2>2. /\ Queued(q, S) \in Seq(nodes) /\ OnceEach(Queued(q, S))
        /\ Members(Queued(q, S)) = (Members(q) \ {Head(q)}) \cup S
        /\ Head(q) \in Members(q) /\ Head(q) \in nodes
    BY <2>1, <1>3, QueueMoves
  <2> QED BY <2>2 DEF q
<1>7. /\ b = [queue |-> Queued(a.queue, S),
              degree |-> [v \in nodes |-> a.degree[v] - Counted(g, u, v)],
              sorted |-> Append(a.sorted, u)]
  BY <1>1, DrainRoundIs
<1> HIDE DEF u, b, S
<1>8. /\ b.queue = Queued(a.queue, S) /\ b.sorted = Append(a.sorted, u)
      /\ b.degree = [v \in nodes |-> a.degree[v] - Counted(g, u, v)]
      /\ Members(b.queue) = (Q \ {u}) \cup S
  BY <1>6, <1>7
<1>9. /\ b.sorted \in Seq(nodes) /\ Len(b.sorted) = n + 1
      /\ \A i \in 1..n : b.sorted[i] = a.sorted[i]
      /\ b.sorted[n + 1] = u
      /\ Members(b.sorted) = D \cup {u}
  BY <1>2, <1>6, <1>8, Appended
<1>10. u \notin D
  BY <1>1, <1>6
<1>11. /\ \A v \in nodes : v # u =>
            /\ Counted(g, u, v) \in Nat
            /\ Cardinality(Owing(edges, v, D)) \in Nat
            /\ Cardinality(Owing(edges, v, D \cup {u}))
                 = Cardinality(Owing(edges, v, D)) - Counted(g, u, v)
            /\ Cardinality(Owing(edges, v, D \cup {u})) \in Nat
            /\ Cardinality(Owing(edges, v, D \cup {u})) = 0 => Owing(edges, v, D \cup {u}) = {}
  <2> HIDE DEF D
  <2> QED BY <1>6, <1>10, CountedOff
<1>12. Counted(g, u, u) \in Nat
  <2>1. IsFiniteSet({r \in OutEdges(g, u) : r.target = u})
    <3>1. {r \in OutEdges(g, u) : r.target = u} \subseteq edges
      BY <1>6 DEF IsPlan
    <3> QED BY <3>1, FS_Subset DEF IsPlan
  <2> QED BY <2>1, FS_CardinalityType DEF Counted
<1>13. \A v \in nodes : Counted(g, u, v) \in Nat /\ a.degree[v] \in Int
  BY <1>2, <1>11, <1>12
<1>20. \A v \in nodes : b.degree[v] = a.degree[v] - Counted(g, u, v) /\ b.degree[v] \in Int
  BY <1>8, <1>13
<1>14. b \in DrainStates(nodes)
  <2>1. b.degree \in [nodes -> Int]
    BY <1>8, <1>13
  <2> QED BY <1>6, <1>7, <1>9, <2>1 DEF DrainStates
<1>15. OnceEach(b.queue) /\ Members(b.queue) \cap Members(b.sorted) = {}
  BY <1>1, <1>5, <1>6, <1>8, <1>9
<1>16. OnceEach(b.sorted)
  <2>1. \A i \in 1..n : a.sorted[i] \in D
    BY DEF Members
  <2>2. \A i \in 1..n + 1 : i \in 1..n \/ i = n + 1
    BY <1>2
  <2>3. \A i, j \in 1..n : a.sorted[i] = a.sorted[j] => i = j
    BY <1>1 DEF OnceEach
  <2> QED BY <2>1, <2>2, <2>3, <1>9, <1>10 DEF OnceEach
<1>17. DrainCounts(nodes, edges, b)
  <2>1. ASSUME NEW v \in nodes, v \notin Members(b.queue) \cup Members(b.sorted)
        PROVE  b.degree[v] = Cardinality(Owing(edges, v, D \cup {u})) /\ b.degree[v] >= 1
    <3>1. v \notin Q \cup D /\ v \notin S /\ v # u
      BY <2>1, <1>8, <1>9
    <3>2. a.degree[v] = Cardinality(Owing(edges, v, D)) /\ a.degree[v] >= 1
      BY <3>1, <1>4
    <3>3. b.degree[v] = Cardinality(Owing(edges, v, D \cup {u})) /\ b.degree[v] \in Int
      BY <3>1, <3>2, <1>11, <1>20
    <3>4. ~(a.degree[v] \in 1..Counted(g, u, v))
      BY <3>1 DEF S, Ready
    <3>5. a.degree[v] > Counted(g, u, v)
      BY <3>2, <3>4, <1>13
    <3> QED BY <3>3, <3>5, <1>13, <1>20
  <2>2. ASSUME NEW v \in Members(b.queue) \cup Members(b.sorted)
        PROVE  b.degree[v] <= 0
    <3>1. CASE v \in Q \cup D
      <4>1. v \in nodes /\ a.degree[v] <= 0
        BY <3>1, <1>2, <1>4
      <4> QED BY <4>1, <1>13, <1>20
    <3>2. CASE v \in S
      <4>1. v \in nodes /\ a.degree[v] \in 1..Counted(g, u, v)
        BY <3>2 DEF S, Ready
      <4> QED BY <4>1, <1>13, <1>20
    <3> QED BY <2>2, <3>1, <3>2, <1>6, <1>8, <1>9
  <2>3. ASSUME NEW v \in Members(b.queue)
        PROVE  Owing(edges, v, D \cup {u}) = {}
    <3>1. CASE v \in Q
      BY <3>1, <1>4 DEF Owing
    <3>2. CASE v \in S
      <4>1. v \in nodes /\ a.degree[v] \in 1..Counted(g, u, v) /\ v \notin Q \cup D /\ v # u
        BY <3>2, <1>5, <1>6 DEF S, Ready
      <4>2. a.degree[v] = Cardinality(Owing(edges, v, D))
        BY <4>1, <1>4
      <4>3. Cardinality(Owing(edges, v, D \cup {u})) = 0
        <5>1. PICK c, o, m : c = Counted(g, u, v) /\ o = Cardinality(Owing(edges, v, D))
                             /\ m = Cardinality(Owing(edges, v, D \cup {u}))
          OBVIOUS
        <5>2. c \in Nat /\ o \in Nat /\ m \in Nat /\ m = o - c /\ o \in 1..c
          BY <4>1, <4>2, <5>1, <1>11
        <5> QED BY <5>1, <5>2
      <4> QED BY <4>1, <4>3, <1>11
    <3> QED BY <2>3, <3>1, <3>2, <1>8
  <2> QED BY <2>1, <2>2, <2>3, <1>9 DEF DrainCounts
<1>18. DrainOrders(edges, b)
  <2> SUFFICES ASSUME NEW j \in 1..n + 1, NEW r \in edges, r.target = b.sorted[j]
               PROVE  \E i \in 1..n + 1 : i < j /\ b.sorted[i] = r.source
    BY <1>9 DEF DrainOrders
  <2>1. CASE j = n + 1
    <3>1. r \notin Owing(edges, u, D)
      BY <1>4, <1>6
    <3>2. r.source \in D
      BY <2>1, <3>1, <1>9 DEF Owing
    <3>3. PICK i \in 1..n : a.sorted[i] = r.source
      BY <3>2 DEF Members
    <3>4. b.sorted[i] = a.sorted[i]
      BY <3>3, <1>9
    <3>5. i \in 1..n + 1 /\ i < j
      <4>1. n \in Nat /\ i \in 1..n /\ j = n + 1
        BY <2>1, <1>2
      <4> HIDE DEF n
      <4> QED BY <4>1
    <3> QED BY <3>3, <3>4, <3>5
  <2>2. CASE j # n + 1
    <3>1. j \in 1..n /\ r.target = a.sorted[j]
      BY <2>2, <1>2, <1>9
    <3>2. PICK i \in 1..n : i < j /\ a.sorted[i] = r.source
      BY <3>1, <1>1 DEF DrainOrders
    <3>3. b.sorted[i] = r.source
      BY <3>2, <1>9
    <3>4. i \in 1..n + 1
      <4>1. n \in Nat /\ i \in 1..n
        BY <1>2
      <4> HIDE DEF n
      <4> QED BY <4>1
    <3> QED BY <3>2, <3>3, <3>4
  <2> QED BY <2>1, <2>2
<1>19. DrainLeft(nodes, b) < DrainLeft(nodes, a)
  <2>1. nodes \ Members(b.sorted) = (nodes \ D) \ {u} /\ u \in nodes \ D
    BY <1>6, <1>9, <1>10
  <2>2. IsFiniteSet(nodes \ D)
    BY <1>3, FS_Difference
  <2> DEFINE W == nodes \ D
  <2> HIDE DEF W
  <2>3. Cardinality(W \ {u}) = Cardinality(W) - 1 /\ Cardinality(W) \in Nat
    BY <2>1, <2>2, FS_RemoveElement, FS_CardinalityType DEF W
  <2>4. nodes \ Members(b.sorted) = W \ {u} /\ W = nodes \ Members(a.sorted)
    BY <2>1 DEF W
  <2>5. DrainLeft(nodes, b) = Cardinality(W \ {u}) /\ DrainLeft(nodes, a) = Cardinality(W)
    BY <2>4 DEF DrainLeft
  <2> QED BY <2>3, <2>5
<1> QED BY <1>14, <1>15, <1>16, <1>17, <1>18, <1>19 DEF DrainInv, b


DrainStart(edges, nodes) ==
    LET degree == [n \in nodes |-> Cardinality({r \in edges : r.target = n})]
    IN  [queue |-> SetToSeq({n \in nodes : degree[n] = 0}), degree |-> degree, sorted |-> <<>>]

LEMMA DrainStarts ==
  ASSUME NEW g, NEW nodes, NEW edges, IsPlan(g, nodes, edges)
  PROVE  DrainInv(nodes, edges, DrainStart(edges, nodes))
<1> DEFINE degree == [n \in nodes |-> Cardinality({r \in edges : r.target = n})]
           S == {n \in nodes : degree[n] = 0}
           a == DrainStart(edges, nodes)
<1>1. /\ a = [queue |-> a.queue, degree |-> a.degree, sorted |-> a.sorted]
      /\ a.queue = SetToSeq(S) /\ a.degree = degree /\ a.sorted = <<>>
  BY DEF DrainStart
<1>2. \A v \in nodes : /\ degree[v] = Cardinality(Owing(edges, v, {}))
                       /\ degree[v] \in Nat
                       /\ degree[v] = 0 => Owing(edges, v, {}) = {}
  <2> TAKE v \in nodes
  <2>1. {r \in edges : r.target = v} = Owing(edges, v, {})
    BY DEF Owing
  <2>2. IsFiniteSet(Owing(edges, v, {}))
    BY FS_Subset DEF IsPlan, Owing
  <2> QED BY <2>1, <2>2, FS_CardinalityType, FS_EmptySet
<1> HIDE DEF a, degree
<1>3. SetToSeq(S) \in Seq(S) /\ OnceEach(SetToSeq(S)) /\ Members(SetToSeq(S)) = S
  <2>1. IsFiniteSet(S)
    BY FS_Subset DEF IsPlan
  <2> QED BY <2>1, SetToSeqIs
<1>4. a.queue \in Seq(nodes) /\ OnceEach(a.queue) /\ Members(a.queue) = S
  <2>1. \A q \in Seq(S) : q \in Seq(nodes)
    OBVIOUS
  <2> QED BY <2>1, <1>1, <1>3
<1>5. a.sorted \in Seq(nodes) /\ Len(a.sorted) = 0 /\ Members(a.sorted) = {} /\ OnceEach(a.sorted)
  BY <1>1 DEF Members, OnceEach
<1>6. a \in DrainStates(nodes)
  <2>1. a.degree \in [nodes -> Int]
    BY <1>1, <1>2 DEF degree
  <2> QED BY <2>1, <1>1, <1>4, <1>5 DEF DrainStates
<1>7. DrainCounts(nodes, edges, a)
  <2>1. \A v \in nodes : v \in S <=> degree[v] = 0
    OBVIOUS
  <2>2. \A v \in nodes \ S : degree[v] = Cardinality(Owing(edges, v, {})) /\ degree[v] >= 1
    BY <1>2, <2>1
  <2>3. \A v \in S : v \in nodes /\ degree[v] = 0 /\ Owing(edges, v, {}) = {}
    BY <1>2
  <2>4. Members(a.queue) = S /\ Members(a.sorted) = {} /\ a.degree = degree
    BY <1>1, <1>4, <1>5
  <2> HIDE DEF S
  <2>5. \A v \in nodes \ (S \cup {}) : a.degree[v] = Cardinality(Owing(edges, v, {})) /\ a.degree[v] >= 1
    BY <2>2, <2>4
  <2>6. \A v \in S \cup {} : a.degree[v] <= 0
    BY <2>3, <2>4
  <2> QED BY <2>3, <2>4, <2>5, <2>6 DEF DrainCounts
<1>8. DrainOrders(edges, a)
  BY <1>5 DEF DrainOrders
<1> QED BY <1>4, <1>5, <1>6, <1>7, <1>8 DEF DrainInv, a

\* As many rounds as there are nodes are enough.
LEMMA DrainEnds ==
  ASSUME NEW g, NEW nodes, NEW edges, IsPlan(g, nodes, edges)
  PROVE  LET end == Drain(g, edges, nodes)
         IN  DrainInv(nodes, edges, end) /\ end.queue = <<>>
<1> DEFINE S == {a \in DrainStates(nodes) : DrainInv(nodes, edges, a)}
           F == [a \in S |-> DrainRound(g, a)]
           N == Cardinality(nodes)
           start == DrainStart(edges, nodes)
           Rec(h) == [k \in 0..N |-> IF k = 0 THEN start ELSE DrainRound(g, h[k - 1])]
           after == CHOOSE h : h = Rec(h)
           over == {a \in S : a.queue = <<>>}
           left == [a \in S |-> DrainLeft(nodes, a)]
<1>1. Drain(g, edges, nodes) = after[N]
  BY DEF Drain, Repeat, DrainStart
<1>2. start \in S /\ N \in Nat
  <2>1. IsFiniteSet(nodes)
    BY DEF IsPlan
  <2>2. DrainInv(nodes, edges, start)
    BY DrainStarts
  <2> QED BY <2>1, <2>2, FS_CardinalityType DEF DrainInv
<1>3. \A a \in over : DrainRound(g, a) = a
  BY DEF DrainRound
<1>4. F \in [S -> S]
  <2>1. ASSUME NEW a \in S PROVE DrainRound(g, a) \in S
    <3>1. CASE a \in over
      BY <1>3, <3>1
    <3>2. CASE a \notin over
      BY <3>2, DrainRoundKeeps DEF DrainInv
    <3> QED BY <3>1, <3>2
  <2> QED BY <2>1
<1>5. \A a \in S : F[a] = DrainRound(g, a)
  OBVIOUS
<1>6. PICK h : IsRun(h, S, F, start, N)
  <2> HIDE DEF S, F, N, start
  <2> QED BY <1>2, <1>4, IterationExists
<1>7. after = Rec(after)
  <2>1. h = Rec(h)
    <3>1. \A k \in 0..N : k # 0 => k \in 1..N /\ k - 1 \in 0..N
      BY <1>2
    <3>2. \A k \in 0..N : h[k] = IF k = 0 THEN start ELSE DrainRound(g, h[k - 1])
      <4> HIDE DEF S, F, N, start
      <4> QED BY <1>5, <1>6, <3>1 DEF IsRun
    <3> HIDE DEF S, F, N, start
    <3> QED BY <1>6, <3>2 DEF IsRun
  <2> HIDE DEF Rec
  <2> QED BY <2>1
<1> HIDE DEF after
<1>8. FollowsIn(after, S, F, start, N)
  <2>1. 0 \in 0..N /\ \A n \in 1..N : n \in 0..N /\ n # 0
    BY <1>2
  <2> HIDE DEF S, F, N, start
  <2> QED BY <1>5, <1>7, <2>1 DEF FollowsIn
<1>9. over \in SUBSET S /\ \A a \in over : F[a] = a
  BY <1>3, <1>5
<1>10. left \in [S -> Nat] /\ left[start] <= N
  <2>1. ASSUME NEW a \in S PROVE DrainLeft(nodes, a) \in Nat /\ DrainLeft(nodes, a) <= N
    <3>1. IsFiniteSet(nodes) /\ nodes \ Members(a.sorted) \in SUBSET nodes
      BY DEF IsPlan
    <3> QED BY <3>1, FS_Subset, FS_CardinalityType DEF DrainLeft
  <2> QED BY <2>1, <1>2
<1>11. \A a \in S \ over : left[F[a]] < left[a]
  BY <1>4, <1>5, DrainRoundKeeps
<1>12. EndsIn(over, left, S, F)
  BY <1>9, <1>10, <1>11 DEF EndsIn
<1>13. after[N] \in over
  <2> HIDE DEF S, F, N, start, over, left
  <2> QED BY <1>2, <1>4, <1>8, <1>10, <1>12, IterationEnds
<1> QED BY <1>1, <1>13

\* What each node waits for.
Sources(nodes, edges) == [v \in nodes |-> {r.source : r \in {x \in edges : x.target = v}}]

\* topologicalSort answers null exactly when there is a cycle, and an order that
\* respects every edge otherwise.
LEMMA SortsAcyclic ==
  ASSUME NEW g, NEW nodes, NEW edges, IsPlan(g, nodes, edges)
  PROVE  /\ Topological(g).null <=> Cyclic(Sources(nodes, edges))
         /\ ~Topological(g).null => /\ IsOrderOf(Topological(g).order, Sources(nodes, edges))
                                    /\ Topological(g).order \in Seq(nodes)
<1> DEFINE deps == Sources(nodes, edges)
<1>1. PICK a : a = Drain(g, edges, nodes) /\ DrainInv(nodes, edges, a) /\ a.queue = <<>>
  BY DrainEnds
<1>2. Topological(g).order = a.sorted /\ (Topological(g).null <=> Len(a.sorted) # Cardinality(nodes))
  <2>1. {g.edges[e] : e \in DOMAIN g.edges} = edges /\ g.nodes = nodes
        /\ nodes \cup {r.target : r \in edges} = nodes
    BY DEF IsPlan
  <2>2. PICK null \in BOOLEAN : null <=> Len(a.sorted) # Cardinality(nodes)
    OBVIOUS
  <2>3. Topological(g) = [null |-> null, order |-> a.sorted]
    BY <1>1, <2>1, <2>2 DEF Topological
  <2> QED BY <2>2, <2>3
<1>3. PICK p : p = a.sorted
  OBVIOUS
<1>4. p \in Seq(nodes) /\ OnceEach(p) /\ Members(a.queue) = {}
  BY <1>1, <1>3, DrainFields DEF DrainInv, Members
<1>5. DOMAIN p = 1..Len(p) /\ Len(p) \in Nat /\ \A i \in 1..Len(p) : p[i] \in nodes
  BY <1>4
<1>6. DOMAIN deps = nodes /\ \A v \in nodes : \A w : w \in deps[v] <=>
                                 \E r \in edges : r.target = v /\ r.source = w
  BY DEF Sources
<1>7. IsFiniteSet(nodes) /\ \A r \in edges : r.source \in nodes
  BY DEF IsPlan
<1>8. Len(p) = Cardinality(nodes) <=> Members(p) = nodes
  <2>1. p \in [1..Len(p) -> nodes]
    BY <1>4, <1>5
  <2>2. p \in Injection(1..Len(p), nodes)
    BY <1>4, <2>1 DEF Injection, IsInjective, OnceEach
  <2>3. Cardinality(1..Len(p)) = Len(p)
    BY <1>5, FS_Interval
  <2>4. Len(p) = Cardinality(nodes) <=> p \in Surjection(1..Len(p), nodes)
    BY <1>7, <2>2, <2>3, FS_Injection
  <2>5. p \in Surjection(1..Len(p), nodes) <=> Members(p) = nodes
    BY <2>1 DEF Surjection, Members
  <2> QED BY <2>4, <2>5
<1> HIDE DEF deps
<1>9. ASSUME Members(p) = nodes PROVE IsOrderOf(p, deps) /\ ~Cyclic(deps)
  <2>1. {p[i] : i \in DOMAIN p} = DOMAIN deps
    BY <1>5, <1>6, <1>9 DEF Members
  <2>2. \A i, j \in DOMAIN p : p[i] = p[j] => i = j
    BY <1>4, <1>5 DEF OnceEach
  <2>3. ASSUME NEW i \in DOMAIN p, NEW j \in DOMAIN p, p[i] \in deps[p[j]] PROVE i < j
    <3>1. p[j] \in nodes /\ i \in 1..Len(p) /\ j \in 1..Len(p)
      BY <1>5
    <3>2. PICK r \in edges : r.target = p[j] /\ r.source = p[i]
      BY <1>6, <2>3, <3>1
    <3>3. PICK k \in 1..Len(p) : k < j /\ p[k] = p[i]
      BY <1>1, <1>3, <3>1, <3>2 DEF DrainInv, DrainOrders
    <3> QED BY <3>1, <3>3, <2>2, <1>5
  <2>4. IsOrderOf(p, deps)
    BY <2>1, <2>2, <2>3 DEF IsOrderOf
  <2>5. p \in Seq(DOMAIN deps)
    BY <1>4, <1>6
  <2> QED BY <2>4, <2>5, OrderedIsAcyclic
<1>10. ASSUME Members(p) # nodes PROVE Cyclic(deps)
  <2> DEFINE S == nodes \ Members(p)
  <2>1. S \in SUBSET DOMAIN deps /\ S # {}
    BY <1>5, <1>6, <1>10 DEF Members
  <2>2. ASSUME NEW v \in S PROVE \E w \in S : w \in deps[v]
    <3>1. v \in nodes /\ v \notin Members(a.queue) \cup Members(a.sorted)
      BY <1>3, <1>4
    <3>2. a.degree[v] = Cardinality(Owing(edges, v, Members(p))) /\ a.degree[v] >= 1
      BY <1>1, <1>3, <3>1 DEF DrainInv, DrainCounts
    <3>3. Owing(edges, v, Members(p)) # {}
      BY <3>2, FS_EmptySet
    <3>4. PICK r \in edges : r.target = v /\ r.source \notin Members(p)
      BY <3>3 DEF Owing
    <3> QED BY <3>1, <3>4, <1>6, <1>7
  <2> HIDE DEF S
  <2> QED BY <2>1, <2>2 DEF Cyclic
<1> QED BY <1>2, <1>3, <1>4, <1>8, <1>9, <1>10 DEF deps


-----------------------------------------------------------------------------
(***************************************************************************)
(* The cycles of detectCycles.                                             *)
(***************************************************************************)

\* The calls that have not returned: each was called by the one before it, which is
\* its parent.
IsStack(g, parent, calls) ==
    /\ calls \in Seq(Frames(g))
    /\ \A i, j \in 1..Len(calls) : calls[i].of = calls[j].of => i = j
    /\ \A i \in 1..Len(calls) : calls[i].todo \subseteq g[calls[i].of]
    /\ \A i \in 1..Len(calls) - 1 :
          /\ calls[i + 1].of \in g[calls[i].of]
          /\ calls[i + 1].of \in DOMAIN parent /\ parent[calls[i + 1].of] = calls[i].of

\* p is what the last calls are of, m + 1 of them.
IsStretch(V, calls, m, p) ==
    /\ p \in Seq(V) /\ Len(p) = m + 1
    /\ \A i \in 1..m + 1 : p[i] = calls[Len(calls) - m + i - 1].of

UpStep(parent, v, path) ==
    IF Head(path) \in DOMAIN parent \ {v} THEN <<parent[Head(path)]>> \o path ELSE path

LEMMA StackFields ==
  ASSUME NEW g, NEW parent, NEW calls, IsStack(g, parent, calls)
  PROVE  Len(calls) \in Nat /\ \A i \in 1..Len(calls) : /\ calls[i] \in Frames(g)
                                                        /\ calls[i].of \in DOMAIN g
                                                        /\ calls[i].todo \subseteq DOMAIN g
<1>1. Len(calls) \in Nat /\ \A i \in 1..Len(calls) : calls[i] \in Frames(g)
  BY DEF IsStack
<1> QED BY <1>1 DEF Frames

\* The way up goes from one call to the one before it, up to the call of v.
LEMMA UpStretches ==
  ASSUME NEW g, NEW parent, NEW calls, IsStack(g, parent, calls),
         NEW j \in 1..Len(calls), NEW m \in 0..Len(calls) - j, NEW p,
         IsStretch(DOMAIN g, calls, m, p)
  PROVE  LET q == UpStep(parent, calls[j].of, p)
         IN  /\ m < Len(calls) - j => IsStretch(DOMAIN g, calls, m + 1, q)
             /\ m = Len(calls) - j => q = p
<1> DEFINE n == Len(calls)
           v == calls[j].of
           q == UpStep(parent, v, p)
<1>1. n \in Nat /\ \A i \in 1..n : calls[i].of \in DOMAIN g
  BY StackFields
<1>2. p \in Seq(DOMAIN g) /\ Len(p) = m + 1 /\ \A i \in 1..m + 1 : p[i] = calls[n - m + i - 1].of
  BY DEF IsStretch
<1> HIDE DEF n
<1>3. j \in 1..n /\ m \in 0..n - j
  BY DEF n
<1>4. Head(p) = p[1] /\ p[1] = calls[n - m].of
  <2>1. 1 \in 1..m + 1 /\ n - m + 1 - 1 = n - m /\ Len(p) > 0
    BY <1>1, <1>2, <1>3
  <2>2. Head(p) = p[1]
    BY <2>1, <1>2
  <2>3. p[1] = calls[n - m + 1 - 1].of
    BY <2>1, <1>2
  <2> QED BY <2>1, <2>2, <2>3
<1>5. CASE m = n - j
  <2>1. n - m = j
    BY <1>1, <1>3, <1>5
  <2> QED BY <2>1, <1>4, <1>5 DEF UpStep, n
<1>6. CASE m < n - j
  <2> DEFINE i == n - m - 1
  <2>1. i \in 1..n - 1 /\ i + 1 = n - m /\ i + 1 \in 1..n /\ i \in 1..n /\ i + 1 # j
    BY <1>1, <1>3, <1>6
  <2> HIDE DEF i
  <2>2. /\ calls[i + 1].of \in DOMAIN parent /\ parent[calls[i + 1].of] = calls[i].of
        /\ calls[i + 1].of # calls[j].of
    BY <2>1, <1>3 DEF IsStack, n
  <2>3. q = <<calls[i].of>> \o p
    BY <2>1, <2>2, <1>4 DEF UpStep
  <2> DEFINE w == calls[i].of
  <2>4. w \in DOMAIN g
    BY <2>1, <1>1
  <2>8. q = <<w>> \o p
    BY <2>3
  <2> HIDE DEF w, q
  <2>5. /\ q \in Seq(DOMAIN g) /\ Len(q) = Len(p) + 1 /\ q[1] = w
        /\ \A k \in 1..Len(p) : q[k + 1] = p[k]
    BY <2>4, <2>8, <1>2, Prepended
  <2>6. ASSUME NEW k \in 1..(m + 1) + 1 PROVE q[k] = calls[n - (m + 1) + k - 1].of
    <3>1. CASE k = 1
      <4>1. n - (m + 1) + k - 1 = i
        BY <3>1, <1>1, <1>3 DEF i
      <4> QED BY <4>1, <3>1, <2>5 DEF w
    <3>2. CASE k # 1
      <4>1. k - 1 \in 1..m + 1 /\ (k - 1) + 1 = k /\ n - m + (k - 1) - 1 = n - (m + 1) + k - 1
        BY <3>2, <1>1, <1>3
      <4>2. q[(k - 1) + 1] = p[k - 1] /\ p[k - 1] = calls[n - m + (k - 1) - 1].of
        BY <4>1, <2>5, <1>2
      <4> QED BY <4>1, <4>2
    <3> QED BY <3>1, <3>2
  <2>7. IsStretch(DOMAIN g, calls, m + 1, q)
    BY <2>5, <2>6, <1>2 DEF IsStretch, n
  <2> QED BY <2>7, <1>1, <1>6 DEF q, n
<1> QED BY <1>1, <1>3, <1>5, <1>6 DEF n

LEMMA UpEnds ==
  ASSUME NEW g, IsGraph(g), NEW parent \in Partial(DOMAIN g, DOMAIN g),
         NEW calls, IsStack(g, parent, calls), NEW j \in 1..Len(calls)
  PROVE  LET Up(path) == UpStep(parent, calls[j].of, path)
         IN  IsStretch(DOMAIN g, calls, Len(calls) - j,
                       Repeat(Up, <<calls[Len(calls)].of>>, Cardinality(DOMAIN parent)))
<1> DEFINE n == Len(calls)
           v == calls[j].of
           V == DOMAIN g
           S == Seq(V) \ {<<>>}
           F == [p \in S |-> UpStep(parent, v, p)]
           N == Cardinality(DOMAIN parent)
           start == <<calls[n].of>>
           Rec(h) == [k \in 0..N |-> IF k = 0 THEN start ELSE UpStep(parent, v, h[k - 1])]
           after == CHOOSE h : h = Rec(h)
           Up(path) == UpStep(parent, v, path)
<1>1. Repeat(Up, start, N) = after[N]
  BY DEF Repeat
<1>2. n \in Nat /\ j \in 1..n /\ n \in 1..n /\ \A i \in 1..n : calls[i].of \in V
  BY StackFields
<1>3. DOMAIN parent \subseteq V /\ (\A x \in DOMAIN parent : parent[x] \in V)
      /\ IsFiniteSet(DOMAIN parent) /\ N \in Nat
  BY Partials, FS_Subset, FS_CardinalityType DEF IsGraph
<1>4. start \in S /\ IsStretch(V, calls, 0, start)
  <2>1. start \in Seq(V) /\ Len(start) = 1 /\ start[1] = calls[n].of /\ start # <<>>
    BY <1>2
  <2>2. \A i \in 1..0 + 1 : i = 1 /\ n - 0 + i - 1 = n
    BY <1>2
  <2> HIDE DEF start
  <2>3. \A i \in 1..0 + 1 : start[i] = calls[n - 0 + i - 1].of
    BY <2>1, <2>2
  <2> QED BY <2>1, <2>3 DEF IsStretch
<1>5. \A p \in S : UpStep(parent, v, p) \in S
  <2> TAKE p \in S
  <2>1. p \in Seq(V) /\ p # <<>>
    OBVIOUS
  <2>2. CASE Head(p) \in DOMAIN parent \ {v}
    <3>1. PICK w : w = parent[Head(p)]
      OBVIOUS
    <3>2. w \in V
      BY <3>1, <2>2, <1>3
    <3>3. <<w>> \o p \in Seq(V) /\ Len(<<w>> \o p) = Len(p) + 1 /\ Len(p) \in Nat
      BY <2>1, <3>2, Prepended
    <3>4. PICK q : q = <<w>> \o p
      OBVIOUS
    <3>5. q \in Seq(V) /\ Len(q) # 0
      BY <3>3, <3>4
    <3>6. q # <<>>
      BY <3>5
    <3> QED BY <3>1, <3>4, <3>5, <3>6, <2>2 DEF UpStep
  <2>3. CASE Head(p) \notin DOMAIN parent \ {v}
    BY <2>3 DEF UpStep
  <2> QED BY <2>2, <2>3
<1>6. F \in [S -> S] /\ \A p \in S : F[p] = UpStep(parent, v, p)
  BY <1>5
<1>7. PICK h : IsRun(h, S, F, start, N)
  <2> HIDE DEF S, F, N, start
  <2> QED BY <1>3, <1>4, <1>6, IterationExists
<1>8. after = Rec(after)
  <2>1. h = Rec(h)
    <3>1. \A k \in 0..N : k # 0 => k \in 1..N /\ k - 1 \in 0..N
      BY <1>3
    <3>2. \A k \in 0..N : h[k] = IF k = 0 THEN start ELSE UpStep(parent, v, h[k - 1])
      <4> HIDE DEF S, F, N, start, v
      <4> QED BY <1>6, <1>7, <3>1 DEF IsRun
    <3> HIDE DEF S, F, N, start, v
    <3> QED BY <1>7, <3>2 DEF IsRun
  <2> HIDE DEF Rec
  <2> QED BY <2>1
<1> HIDE DEF after
<1>9. /\ after[0] = start
      /\ \A k \in 1..N : after[k] = UpStep(parent, v, after[k - 1])
  <2>1. 0 \in 0..N /\ \A k \in 1..N : k \in 0..N /\ k # 0
    BY <1>3
  <2> HIDE DEF N, start, v
  <2> QED BY <1>8, <2>1
<1> HIDE DEF N, start, v, Rec, F, S
<1> DEFINE Fine == {k \in 0..N : \E m \in 0..n - j : /\ IsStretch(V, calls, m, after[k])
                                                     /\ m = k \/ (m = n - j /\ m <= k)}
<1>10. 0 \in Fine
  BY <1>2, <1>3, <1>4, <1>9
<1>11. ASSUME NEW k \in 1..N, k - 1 \in Fine PROVE k \in Fine
  <2>1. PICK m \in 0..n - j : /\ IsStretch(V, calls, m, after[k - 1])
                              /\ m = k - 1 \/ (m = n - j /\ m <= k - 1)
    BY <1>11
  <2>2. after[k] = UpStep(parent, v, after[k - 1])
    BY <1>9
  <2>3. /\ m < n - j => IsStretch(V, calls, m + 1, after[k])
        /\ m = n - j => after[k] = after[k - 1]
    BY <2>1, <2>2, UpStretches DEF v
  <2>4. CASE m < n - j
    <3>1. m = k - 1 /\ m + 1 = k /\ m + 1 \in 0..n - j /\ k \in 0..N
      BY <2>1, <2>4, <1>2
    <3> QED BY <3>1, <2>3, <2>4
  <2>5. CASE m = n - j
    <3>1. m <= k /\ k \in 0..N
      BY <2>1, <2>5, <1>2
    <3> QED BY <3>1, <2>1, <2>3, <2>5
  <2>6. m < n - j \/ m = n - j
    BY <1>2
  <2> QED BY <2>4, <2>5, <2>6
<1>12. N \in Fine
  <2>1. Fine \in SUBSET Nat /\ N \in 0..N
    BY <1>3
  <2> HIDE DEF Fine
  <2> QED BY <1>3, <1>10, <1>11, <2>1, UpTo
<1>13. n - 1 <= N
  <2> DEFINE f == [i \in 1..n - 1 |-> calls[i + 1].of]
  <2>1. \A i \in 1..n - 1 : i + 1 \in 1..n /\ calls[i + 1].of \in DOMAIN parent
    <3>1. \A i \in 1..n - 1 : i + 1 \in 1..n
      <4> HIDE DEF n
      <4> QED BY <1>2
    <3>2. \A i \in 1..n - 1 : calls[i + 1].of \in DOMAIN parent
      BY DEF IsStack
    <3> QED BY <3>1, <3>2
  <2>2. f \in [1..n - 1 -> DOMAIN parent]
    BY <2>1
  <2>3. \A i, k \in 1..n - 1 : f[i] = f[k] => i = k
    <3> TAKE i, k \in 1..n - 1
    <3>1. f[i] = f[k] => i + 1 = k + 1
      BY <2>1 DEF IsStack
    <3> QED BY <3>1, <1>2
  <2>4. f \in Injection(1..n - 1, DOMAIN parent)
    <3> HIDE DEF f
    <3> QED BY <2>2, <2>3 DEF Injection, IsInjective
  <2>5. Cardinality(1..n - 1) = n - 1
    BY <1>2, FS_Interval
  <2> HIDE DEF f, n
  <2> QED BY <2>4, <2>5, <1>3, FS_Injection DEF N
<1>14. PICK m \in 0..n - j : /\ IsStretch(V, calls, m, after[N])
                             /\ m = N \/ (m = n - j /\ m <= N)
  BY <1>12
<1>15. m = n - j
  BY <1>2, <1>3, <1>13, <1>14
<1> QED BY <1>1, <1>14, <1>15 DEF N, start, v

\* Where an edge leads back to a call that has not returned, the circle is a cycle.
LEMMA CircleCloses ==
  ASSUME NEW g, IsGraph(g), NEW parent \in Partial(DOMAIN g, DOMAIN g),
         NEW calls, IsStack(g, parent, calls), NEW j \in 1..Len(calls),
         calls[j].of \in g[calls[Len(calls)].of]
  PROVE  LET c == Circle(parent, calls[Len(calls)].of, calls[j].of)
         IN  IsCycleOf(c, g) /\ c \in Seq(DOMAIN g)
<1> DEFINE n == Len(calls)
           u == calls[n].of
           v == calls[j].of
           Up(path) == UpStep(parent, v, path)
           up == Repeat(Up, <<u>>, Cardinality(DOMAIN parent))
           m == n - j
<1>1. Circle(parent, u, v) = (IF Head(up) = v THEN up ELSE <<v>> \o up) \o <<v>>
  BY DEF Circle, UpStep
<1>2. IsStretch(DOMAIN g, calls, m, up)
  BY UpEnds DEF Repeat
<1>3. n \in Nat /\ j \in 1..n /\ m \in Nat /\ \A i \in 1..n : calls[i].of \in DOMAIN g
  BY StackFields
<1> HIDE DEF up, Up
<1>4. up \in Seq(DOMAIN g) /\ Len(up) = m + 1 /\ \A i \in 1..m + 1 : up[i] = calls[n - m + i - 1].of
  BY <1>2 DEF IsStretch
<1> HIDE DEF u, v
<1>5. \A i \in 1..m + 1 : n - m + i - 1 = j + i - 1 /\ j + i - 1 \in 1..n
  <2> HIDE DEF n
  <2> QED BY <1>3 DEF m
<1>6. n - m = j
  <2> HIDE DEF n
  <2> QED BY <1>3 DEF m
<1> HIDE DEF n, m
<1>7. up[1] = v /\ up[m + 1] = u /\ Head(up) = up[1]
  <2>1. 1 \in 1..m + 1 /\ m + 1 \in 1..m + 1 /\ j + 1 - 1 = j /\ j + (m + 1) - 1 = n /\ Len(up) > 0
    BY <1>3, <1>4, <1>6
  <2>2. up[1] = calls[j].of /\ up[m + 1] = calls[n].of
    BY <2>1, <1>4, <1>5, <1>6
  <2>3. Head(up) = up[1]
    BY <2>1, <1>4
  <2> QED BY <2>2, <2>3 DEF u, v
<1> DEFINE c == up \o <<v>>
<1>8. Circle(parent, u, v) = c
  BY <1>1, <1>7
<1>9. /\ c \in Seq(DOMAIN g) /\ Len(c) = m + 2
      /\ \A i \in 1..m + 1 : c[i] = up[i]
      /\ c[m + 2] = v
  <2>1. <<v>> \in Seq(DOMAIN g) /\ Len(<<v>>) = 1 /\ <<v>>[1] = v
    BY <1>3 DEF v
  <2> DEFINE s == <<v>>
  <2>3. s \in Seq(DOMAIN g) /\ Len(s) = 1 /\ s[1] = v
    BY <2>1
  <2> HIDE DEF s
  <2>4. /\ up \o s \in Seq(DOMAIN g) /\ Len(up \o s) = Len(up) + Len(s)
        /\ \A i \in 1..Len(up) + Len(s) : (up \o s)[i] = IF i <= Len(up) THEN up[i] ELSE s[i - Len(up)]
    BY <2>3, <1>4, Concatenation
  <2>5. c = up \o s
    BY DEF s
  <2> HIDE DEF c
  <2>6. \A i \in 1..m + 2 : c[i] = IF i <= m + 1 THEN up[i] ELSE s[i - (m + 1)]
    BY <2>3, <2>4, <2>5, <1>3, <1>4
  <2>7. m + 2 \in 1..m + 2 /\ ~(m + 2 <= m + 1) /\ (m + 2) - (m + 1) = 1
        /\ \A i \in 1..m + 1 : i \in 1..m + 2 /\ i <= m + 1
    BY <1>3
  <2> QED BY <2>3, <2>4, <2>5, <2>6, <2>7, <1>3, <1>4
<1> HIDE DEF c
<1>10. ASSUME NEW i \in 1..Len(c) - 1 PROVE c[i] \in DOMAIN g /\ c[i + 1] \in g[c[i]]
  <2>1. i \in 1..m + 1 /\ c[i] = up[i] /\ up[i] = calls[j + i - 1].of /\ j + i - 1 \in 1..n
    <3>1. i \in 1..m + 1
      BY <1>3, <1>9
    <3>2. c[i] = up[i]
      BY <3>1, <1>9
    <3>3. up[i] = calls[j + i - 1].of
      BY <3>1, <1>4, <1>5
    <3> QED BY <3>1, <3>2, <3>3, <1>5
  <2>2. CASE i = m + 1
    <3>1. c[i + 1] = v /\ c[i] = u
      BY <2>1, <2>2, <1>3, <1>7, <1>9
    <3> QED BY <3>1, <1>3 DEF u, v, n
  <2>3. CASE i # m + 1
    <3> DEFINE k == j + i - 1
    <3>1. i + 1 \in 1..m + 1 /\ j + (i + 1) - 1 = k + 1 /\ k \in 1..n - 1
      <4>1. PICK l : l = m
        OBVIOUS
      <4>2. l \in Nat /\ n - l = j /\ i \in 1..l + 1 /\ i # l + 1 /\ n \in Nat /\ j \in 1..n
        BY <4>1, <2>1, <2>3, <1>3, <1>6
      <4>3. i + 1 \in 1..l + 1 /\ j + (i + 1) - 1 = k + 1 /\ k \in 1..n - 1
        BY <4>2
      <4> QED BY <4>1, <4>3
    <3>2. c[i + 1] = calls[k + 1].of
      BY <3>1, <1>4, <1>5, <1>9
    <3> HIDE DEF k
    <3>3. calls[k + 1].of \in g[calls[k].of]
      BY <3>1 DEF IsStack, n
    <3> QED BY <2>1, <3>2, <3>3, <1>3 DEF k
  <2> QED BY <2>2, <2>3
<1>11. c[1] = v /\ Len(c) > 1
  <2>1. 1 \in 1..m + 1
    BY <1>3
  <2> QED BY <2>1, <1>3, <1>7, <1>9
<1>12. IsCycleOf(c, g)
  BY <1>9, <1>10, <1>11 DEF IsCycleOf
<1> QED BY <1>8, <1>9, <1>12 DEF u, v, n


Frame(g, v) == [of |-> v, todo |-> g[v]]
Shortened(calls, v) == [calls EXCEPT ![Len(calls)].todo = @ \ {v}]
AnyOf(S) == CHOOSE x \in S : TRUE
Child(parent, u, v) == [w \in DOMAIN parent \cup {v} |-> IF w = v THEN u ELSE parent[w]]

LEMMA StackPops ==
  ASSUME NEW g, NEW parent, NEW calls, IsStack(g, parent, calls), Len(calls) > 0
  PROVE  LET c == SubSeq(calls, 1, Len(calls) - 1)
         IN  /\ IsStack(g, parent, c) /\ Len(c) = Len(calls) - 1
             /\ \A i \in 1..Len(c) : c[i] = calls[i]
<1> DEFINE n == Len(calls)
           c == SubSeq(calls, 1, n - 1)
<1>1. calls \in Seq(Frames(g)) /\ n \in Nat /\ n > 0
  BY DEF IsStack
<1>2. c \in Seq(Frames(g)) /\ Len(c) = n - 1 /\ \A i \in 1..n - 1 : c[i] = calls[i]
  BY <1>1
<1>3. /\ \A i \in 1..n - 1 : i \in 1..n
      /\ \A i \in 1..(n - 1) - 1 : i \in 1..n - 1 /\ i + 1 \in 1..n - 1
  BY <1>1
<1> HIDE DEF c
<1>4. \A i, j \in 1..n - 1 : c[i].of = c[j].of => i = j
  BY <1>2, <1>3 DEF IsStack
<1>5. \A i \in 1..n - 1 : c[i].todo \subseteq g[c[i].of]
  BY <1>2, <1>3 DEF IsStack
<1>6. \A i \in 1..(n - 1) - 1 :
          /\ c[i + 1].of \in g[c[i].of]
          /\ c[i + 1].of \in DOMAIN parent /\ parent[c[i + 1].of] = c[i].of
  <2> TAKE i \in 1..(n - 1) - 1
  <2>1. i \in 1..n - 1 /\ c[i + 1] = calls[i + 1] /\ c[i] = calls[i]
    BY <1>2, <1>3
  <2> QED BY <2>1 DEF IsStack
<1>7. IsStack(g, parent, c)
  <2> HIDE DEF n
  <2> QED BY <1>2, <1>4, <1>5, <1>6 DEF IsStack
<1> QED BY <1>2, <1>7 DEF c

LEMMA StackTrims ==
  ASSUME NEW g, NEW parent, NEW calls, IsStack(g, parent, calls), Len(calls) > 0, NEW v
  PROVE  /\ IsStack(g, parent, Shortened(calls, v)) /\ Len(Shortened(calls, v)) = Len(calls)
         /\ \A i \in 1..Len(calls) : Shortened(calls, v)[i].of = calls[i].of
<1> DEFINE n == Len(calls)
           c == Shortened(calls, v)
<1>1. /\ calls \in Seq(Frames(g)) /\ n \in Nat /\ n \in 1..n
      /\ \A i \in 1..n : calls[i] \in Frames(g)
  BY StackFields DEF IsStack
<1>2. calls \in [1..n -> Frames(g)] /\ DOMAIN calls = 1..n
  BY <1>1
<1> HIDE DEF n
<1>3. [calls[n] EXCEPT !.todo = @ \ {v}] \in Frames(g)
  BY <1>1 DEF Frames
<1>4. c \in [1..n -> Frames(g)]
  BY <1>1, <1>2, <1>3 DEF Shortened, n
<1>5. c \in Seq(Frames(g)) /\ Len(c) = n
  <2> HIDE DEF c
  <2> QED BY <1>1, <1>4
<1>6. ASSUME NEW i \in 1..n
      PROVE  c[i].of = calls[i].of /\ c[i].todo \subseteq calls[i].todo
  <2>1. CASE i = n
    <3>1. c[i] = [calls[n] EXCEPT !.todo = @ \ {v}]
      BY <2>1, <1>1, <1>2 DEF Shortened, n
    <3>2. calls[n] \in Frames(g)
      BY <1>1
    <3> QED BY <2>1, <3>1, <3>2 DEF Frames
  <2>2. CASE i # n
    BY <2>2, <1>2 DEF Shortened, n
  <2> QED BY <2>1, <2>2
<1> HIDE DEF c
<1>7. \A i, j \in 1..n : c[i].of = c[j].of => i = j
  BY <1>6 DEF IsStack, n
<1>8. \A i \in 1..n : c[i].todo \subseteq g[c[i].of]
  <2> TAKE i \in 1..n
  <2>1. calls[i].todo \subseteq g[calls[i].of]
    BY DEF IsStack, n
  <2> QED BY <2>1, <1>6
<1>9. ASSUME NEW i \in 1..n - 1
      PROVE  /\ c[i + 1].of \in g[c[i].of]
             /\ c[i + 1].of \in DOMAIN parent /\ parent[c[i + 1].of] = c[i].of
  <2>1. i \in 1..n /\ i + 1 \in 1..n
    BY <1>1
  <2>2. /\ calls[i + 1].of \in g[calls[i].of]
        /\ calls[i + 1].of \in DOMAIN parent /\ parent[calls[i + 1].of] = calls[i].of
    BY DEF IsStack, n
  <2> QED BY <2>1, <2>2, <1>6
<1>10. IsStack(g, parent, c)
  BY <1>5, <1>7, <1>8, <1>9 DEF IsStack
<1> QED BY <1>5, <1>6, <1>10 DEF c, n

\* Another call, of what is in no call yet, with the innermost as its parent.
LEMMA StackPushes ==
  ASSUME NEW g, IsGraph(g), NEW parent, NEW calls, IsStack(g, parent, calls),
         NEW v \in DOMAIN g, \A i \in 1..Len(calls) : calls[i].of # v,
         NEW more, \A i \in 1..Len(calls) :
             calls[i].of \in DOMAIN parent =>
                 calls[i].of \in DOMAIN more /\ more[calls[i].of] = parent[calls[i].of],
         Len(calls) > 0 => /\ v \in g[calls[Len(calls)].of]
                           /\ v \in DOMAIN more /\ more[v] = calls[Len(calls)].of
  PROVE  LET c == Append(calls, Frame(g, v))
         IN  /\ IsStack(g, more, c) /\ Len(c) = Len(calls) + 1
             /\ \A i \in 1..Len(calls) : c[i] = calls[i]
             /\ c[Len(calls) + 1].of = v
<1> DEFINE n == Len(calls)
           f == Frame(g, v)
           c == Append(calls, f)
<1>1. calls \in Seq(Frames(g)) /\ n \in Nat
  BY StackFields DEF IsStack
<1>2. f \in Frames(g) /\ f.of = v /\ f.todo = g[v]
  BY DEF Frame, Frames, IsGraph
<1> HIDE DEF f
<1>3. /\ c \in Seq(Frames(g)) /\ Len(c) = n + 1
      /\ \A i \in 1..n : c[i] = calls[i]
      /\ c[n + 1] = f
  BY <1>1, <1>2
<1>4. /\ \A i \in 1..n + 1 : i \in 1..n \/ i = n + 1
      /\ \A i \in 1..n : (i \in 1..n - 1 /\ i + 1 \in 1..n) \/ i = n
  BY <1>1
<1> HIDE DEF c
<1>5. \A i, j \in 1..n + 1 : c[i].of = c[j].of => i = j
  <2> TAKE i, j \in 1..n + 1
  <2>1. \A k, l \in 1..n : calls[k].of = calls[l].of => k = l
    BY DEF IsStack
  <2> HIDE DEF n
  <2>2. \A k \in 1..n : calls[k].of # v
    BY DEF n
  <2> QED BY <2>1, <2>2, <1>2, <1>3, <1>4
<1>6. \A i \in 1..n + 1 : c[i].todo \subseteq g[c[i].of]
  <2> TAKE i \in 1..n + 1
  <2>1. \A k \in 1..n : calls[k].todo \subseteq g[calls[k].of]
    BY DEF IsStack
  <2> QED BY <2>1, <1>2, <1>3, <1>4
<1>7. ASSUME NEW i \in 1..n
      PROVE  /\ c[i + 1].of \in g[c[i].of]
             /\ c[i + 1].of \in DOMAIN more /\ more[c[i + 1].of] = c[i].of
  <2>1. CASE i = n
    BY <2>1, <1>1, <1>2, <1>3
  <2>2. CASE i # n
    <3>1. i \in 1..n - 1 /\ i + 1 \in 1..n
      BY <2>2, <1>4
    <3>2. /\ calls[i + 1].of \in g[calls[i].of]
          /\ calls[i + 1].of \in DOMAIN parent /\ parent[calls[i + 1].of] = calls[i].of
      BY <3>1 DEF IsStack
    <3> QED BY <3>1, <3>2, <1>3
  <2> QED BY <2>1, <2>2
<1>8. IsStack(g, more, c)
  <2>1. n + 1 - 1 = n
    BY <1>1
  <2> QED BY <2>1, <1>3, <1>5, <1>6, <1>7 DEF IsStack
<1> QED BY <1>2, <1>3, <1>8 DEF c, f

-----------------------------------------------------------------------------
TraceStates(g) ==
    [calls : Seq(Frames(g)), visited : SUBSET DOMAIN g, parent : Partial(DOMAIN g, DOMAIN g),
     cycles : SUBSET Seq(DOMAIN g)]
Traced(c, V, p, cy) == [calls |-> c, visited |-> V, parent |-> p, cycles |-> cy]

TraceInv(g, b) ==
    /\ b \in TraceStates(g)
    /\ IsStack(g, b.parent, b.calls)
    /\ \A i \in 1..Len(b.calls) : b.calls[i].of \in b.visited
    /\ DOMAIN b.parent \subseteq b.visited
    /\ \A c \in b.cycles : IsCycleOf(c, g)

LEMMA TraceFields ==
  ASSUME NEW g, NEW b \in TraceStates(g)
  PROVE  /\ b = Traced(b.calls, b.visited, b.parent, b.cycles)
         /\ b.calls \in Seq(Frames(g)) /\ b.visited \subseteq DOMAIN g
         /\ b.parent \in Partial(DOMAIN g, DOMAIN g) /\ b.cycles \subseteq Seq(DOMAIN g)
         /\ Len(b.calls) \in Nat /\ (Len(b.calls) = 0 <=> b.calls = <<>>)
<1>1. PICK s : s = b.calls
  OBVIOUS
<1>2. s \in Seq(Frames(g))
  BY <1>1 DEF TraceStates
<1>3. Len(s) \in Nat /\ (Len(s) = 0 <=> s = <<>>)
  BY <1>2
<1> QED BY <1>1, <1>2, <1>3 DEF TraceStates, Traced

\* What a step of the search does, by what it finds.
LEMMA TraceStepIs ==
  ASSUME NEW g, NEW b \in TraceStates(g)
  PROVE  LET n == Len(b.calls)
             new == DOMAIN g \ b.visited
             u == b.calls[n].of
             v == AnyOf(b.calls[n].todo)
             c == Shortened(b.calls, v)
             met == \E i \in 1..n : b.calls[i].of = v
         IN  DfsStep(g, DOMAIN g, b) =
               IF n = 0
               THEN IF new = {} THEN b
                    ELSE Traced(Append(b.calls, Frame(g, AnyOf(new))), b.visited \cup {AnyOf(new)},
                                b.parent, b.cycles)
               ELSE IF b.calls[n].todo = {}
               THEN Traced(SubSeq(b.calls, 1, n - 1), b.visited, b.parent, b.cycles)
               ELSE IF v \notin b.visited
               THEN Traced(Append(c, Frame(g, v)), b.visited \cup {v}, Child(b.parent, u, v), b.cycles)
               ELSE IF met THEN Traced(c, b.visited, b.parent, b.cycles \cup {Circle(b.parent, u, v)})
               ELSE Traced(c, b.visited, b.parent, b.cycles)
<1> DEFINE n == Len(b.calls)
           new == DOMAIN g \ b.visited
           u == b.calls[n].of
           v == AnyOf(b.calls[n].todo)
           c == Shortened(b.calls, v)
           met == \E i \in 1..n : b.calls[i].of = v
           rest == [b EXCEPT !.calls[n].todo = @ \ {v}]
           parented == [rest EXCEPT !.parent = [w \in DOMAIN @ \cup {v} |-> IF w = v THEN u ELSE @[w]]]
<1>1. b = Traced(b.calls, b.visited, b.parent, b.cycles) /\ n \in Nat
  BY TraceFields
<1>2. rest = Traced(c, b.visited, b.parent, b.cycles)
  <2>1. rest = [b EXCEPT !.calls = c]
    BY DEF Shortened
  <2> QED BY <2>1, <1>1 DEF Traced
<1>3. \A s, x, p, y, w : Enter(g, Traced(s, x, p, y), w) = Traced(Append(s, Frame(g, w)), x \cup {w}, p, y)
  <2> TAKE s, x, p, y, w
  <2>1. PICK a : a = Traced(s, x, p, y)
    OBVIOUS
  <2>2. PICK q, z : q = Append(a.calls, Frame(g, w)) /\ z = a.visited \cup {w}
    OBVIOUS
  <2>3. Enter(g, a, w) = [a EXCEPT !.calls = q, !.visited = z]
    BY <2>2 DEF Enter, Frame
  <2>4. a.calls = s /\ a.visited = x
    BY <2>1 DEF Traced
  <2>5. [a EXCEPT !.calls = q, !.visited = z] = Traced(q, z, p, y)
    <3>1. a = [calls |-> s, visited |-> x, parent |-> p, cycles |-> y]
      BY <2>1 DEF Traced
    <3> DEFINE e == [a EXCEPT !.calls = q]
    <3>2. e = [calls |-> q, visited |-> x, parent |-> p, cycles |-> y]
      BY <3>1
    <3>3. [a EXCEPT !.calls = q, !.visited = z] = [e EXCEPT !.visited = z]
      OBVIOUS
    <3> HIDE DEF e
    <3>4. [e EXCEPT !.visited = z] = [calls |-> q, visited |-> z, parent |-> p, cycles |-> y]
      BY <3>2
    <3> QED BY <3>3, <3>4 DEF Traced
  <2> QED BY <2>1, <2>2, <2>3, <2>4, <2>5
<1>4. CASE n = 0
  <2>1. DfsStep(g, DOMAIN g, b) = IF new = {} THEN b ELSE Enter(g, b, AnyOf(new))
    BY <1>4 DEF DfsStep, AnyOf
  <2>2. Enter(g, b, AnyOf(new)) = Traced(Append(b.calls, Frame(g, AnyOf(new))), b.visited \cup {AnyOf(new)},
                                         b.parent, b.cycles)
    <3>1. PICK w, s, x, p, y : w = AnyOf(new) /\ s = b.calls /\ x = b.visited /\ p = b.parent /\ y = b.cycles
      OBVIOUS
    <3>2. Enter(g, Traced(s, x, p, y), w) = Traced(Append(s, Frame(g, w)), x \cup {w}, p, y)
      BY <1>3
    <3> QED BY <3>1, <3>2, <1>1
  <2> QED BY <2>1, <2>2, <1>4
<1>5. CASE n # 0
  <2>1. DfsStep(g, DOMAIN g, b) = IF b.calls[n].todo = {} THEN [b EXCEPT !.calls = SubSeq(@, 1, n - 1)]
                                  ELSE Look(g, b)
    BY <1>1, <1>5 DEF DfsStep
  <2>2. [b EXCEPT !.calls = SubSeq(@, 1, n - 1)] = Traced(SubSeq(b.calls, 1, n - 1), b.visited, b.parent, b.cycles)
    BY <1>1 DEF Traced
  <2>3. Look(g, b) = IF v \notin b.visited THEN Enter(g, parented, v)
                     ELSE IF met THEN [rest EXCEPT !.cycles = @ \cup {Circle(b.parent, u, v)}]
                     ELSE rest
    BY DEF Look, AnyOf
  <2> HIDE DEF v, u, c, rest, met
  <2>4. parented = Traced(c, b.visited, Child(b.parent, u, v), b.cycles)
    BY <1>2 DEF Traced, Child
  <2>5. [rest EXCEPT !.cycles = @ \cup {Circle(b.parent, u, v)}]
          = Traced(c, b.visited, b.parent, b.cycles \cup {Circle(b.parent, u, v)})
    BY <1>2 DEF Traced
  <2>6. Enter(g, parented, v) = Traced(Append(c, Frame(g, v)), b.visited \cup {v}, Child(b.parent, u, v), b.cycles)
    BY <2>4, <1>3
  <2>7. Look(g, b) = IF v \notin b.visited
                     THEN Traced(Append(c, Frame(g, v)), b.visited \cup {v}, Child(b.parent, u, v), b.cycles)
                     ELSE IF met THEN Traced(c, b.visited, b.parent, b.cycles \cup {Circle(b.parent, u, v)})
                     ELSE Traced(c, b.visited, b.parent, b.cycles)
    BY <2>3, <2>5, <2>6, <1>2
  <2> QED BY <2>1, <2>2, <2>7, <1>5 DEF v, u, c, met
<1> QED BY <1>4, <1>5


LEMMA AnyOfIs ==
  ASSUME NEW S, S # {}
  PROVE  AnyOf(S) \in S
BY DEF AnyOf

LEMMA TraceStepKeeps ==
  ASSUME NEW g, IsGraph(g), NEW b, TraceInv(g, b)
  PROVE  LET d == DfsStep(g, DOMAIN g, b)
         IN  TraceInv(g, d) /\ b.cycles \subseteq d.cycles
<1> DEFINE n == Len(b.calls)
           new == DOMAIN g \ b.visited
           u == b.calls[n].of
           v == AnyOf(b.calls[n].todo)
           c == Shortened(b.calls, v)
           met == \E i \in 1..n : b.calls[i].of = v
           d == DfsStep(g, DOMAIN g, b)
<1>1. /\ b \in TraceStates(g) /\ IsStack(g, b.parent, b.calls)
      /\ \A i \in 1..n : b.calls[i].of \in b.visited
      /\ DOMAIN b.parent \subseteq b.visited
      /\ \A x \in b.cycles : IsCycleOf(x, g)
  BY DEF TraceInv
<1>2. /\ b.calls \in Seq(Frames(g)) /\ b.visited \subseteq DOMAIN g
      /\ b.parent \in Partial(DOMAIN g, DOMAIN g) /\ b.cycles \subseteq Seq(DOMAIN g)
      /\ n \in Nat /\ (n = 0 <=> b.calls = <<>>)
  BY <1>1, TraceFields
<1>3. \A i \in 1..n : b.calls[i].of \in DOMAIN g /\ b.calls[i].todo \subseteq g[b.calls[i].of]
  BY <1>1, StackFields DEF IsStack
<1>4. ASSUME NEW s, NEW V, NEW p, NEW cy, d = Traced(s, V, p, cy), IsStack(g, p, s),
             p \in Partial(DOMAIN g, DOMAIN g), V \subseteq DOMAIN g, cy \subseteq Seq(DOMAIN g),
             \A i \in 1..Len(s) : s[i].of \in V, DOMAIN p \subseteq V,
             b.cycles \subseteq cy, \A x \in cy : IsCycleOf(x, g)
      PROVE  TraceInv(g, d) /\ b.cycles \subseteq d.cycles
  <2>1. d.calls = s /\ d.visited = V /\ d.parent = p /\ d.cycles = cy
    BY <1>4 DEF Traced
  <2>2. s \in Seq(Frames(g))
    BY <1>4 DEF IsStack
  <2>3. d \in TraceStates(g)
    BY <1>4, <2>2 DEF TraceStates, Traced
  <2> HIDE DEF d
  <2> QED BY <1>4, <2>1, <2>3 DEF TraceInv
<1>5. CASE n = 0 /\ new = {}
  <2>1. d = b
    BY <1>1, <1>5, TraceStepIs
  <2> QED BY <2>1
<1>6. CASE n = 0 /\ new # {}
  <2> DEFINE w == AnyOf(new)
             s == Append(b.calls, Frame(g, w))
  <2>1. d = Traced(s, b.visited \cup {w}, b.parent, b.cycles)
    BY <1>1, <1>6, TraceStepIs
  <2>2. w \in new
    BY <1>6, AnyOfIs
  <2> HIDE DEF w
  <2>3. IsStack(g, b.parent, s) /\ Len(s) = n + 1 /\ s[n + 1].of = w
    <3>1. \A i \in 1..n : b.calls[i].of # w
      BY <1>1, <2>2
    <3>2. ~(n > 0)
      BY <1>6
    <3> QED BY <3>1, <3>2, <1>1, <2>2, StackPushes
  <2>4. \A i \in 1..Len(s) : s[i].of \in b.visited \cup {w}
    BY <2>3, <1>6
  <2> HIDE DEF s
  <2> QED BY <1>1, <1>2, <1>4, <2>1, <2>2, <2>3, <2>4
<1>7. CASE n # 0 /\ b.calls[n].todo = {}
  <2> DEFINE s == SubSeq(b.calls, 1, n - 1)
  <2>1. d = Traced(s, b.visited, b.parent, b.cycles)
    BY <1>1, <1>7, TraceStepIs
  <2>2. IsStack(g, b.parent, s) /\ Len(s) = n - 1 /\ \A i \in 1..Len(s) : s[i] = b.calls[i]
    BY <1>1, <1>2, <1>7, StackPops
  <2>3. \A i \in 1..Len(s) : s[i].of \in b.visited
    BY <1>1, <1>2, <2>2
  <2> HIDE DEF s
  <2> QED BY <1>1, <1>2, <1>4, <2>1, <2>2, <2>3
<1>8. ASSUME n # 0, b.calls[n].todo # {}
      PROVE  /\ v \in g[u] /\ v \in DOMAIN g /\ u \in DOMAIN g /\ u \in b.visited /\ n \in 1..n
             /\ IsStack(g, b.parent, c) /\ Len(c) = n
             /\ \A i \in 1..n : c[i].of = b.calls[i].of
  <2>1. n \in 1..n
    BY <1>2, <1>8
  <2>2. v \in b.calls[n].todo
    BY <1>8, AnyOfIs
  <2> HIDE DEF v
  <2>3. v \in g[u] /\ u \in DOMAIN g /\ u \in b.visited
    BY <1>1, <1>3, <2>1, <2>2
  <2>4. v \in DOMAIN g
    BY <2>3 DEF IsGraph
  <2>5. n > 0
    BY <1>2, <1>8
  <2> QED BY <1>1, <2>1, <2>3, <2>4, <2>5, StackTrims
<1>9. CASE n # 0 /\ b.calls[n].todo # {} /\ v \notin b.visited
  <2> DEFINE s == Append(c, Frame(g, v))
             p == Child(b.parent, u, v)
  <2>1. d = Traced(s, b.visited \cup {v}, p, b.cycles)
    BY <1>1, <1>9, TraceStepIs
  <2>2. /\ v \in g[u] /\ v \in DOMAIN g /\ u \in DOMAIN g /\ u \in b.visited /\ n \in 1..n
        /\ IsStack(g, b.parent, c) /\ Len(c) = n
        /\ \A i \in 1..n : c[i].of = b.calls[i].of
    BY <1>8, <1>9
  <2> HIDE DEF v, c, u, n
  <2>3. \A i \in 1..n : c[i].of # v
    BY <1>1, <1>9, <2>2
  <2>4. p \in Partial(DOMAIN g, DOMAIN g) /\ DOMAIN p = DOMAIN b.parent \cup {v}
    <3> DEFINE f == b.parent
               N == DOMAIN g
    <3>1. p = [w \in DOMAIN f \cup {v} |-> IF w = v THEN u ELSE f[w]]
      BY DEF Child
    <3>2. f \in Partial(N, N) /\ {v} \in SUBSET N
      BY <1>2, <2>2
    <3> HIDE DEF f, p, N
    <3>3. /\ p = [w \in DOMAIN f \cup {v} |-> p[w]]
          /\ (\A w \in {v} : p[w] = u) /\ \A w \in DOMAIN f \ {v} : p[w] = f[w]
      BY <3>1
    <3>4. \A w \in {v} : p[w] \in N
      BY <3>3, <2>2 DEF N
    <3>5. GivesMore(f, {v}, N, p)
      BY <3>3, <3>4 DEF GivesMore
    <3>6. p \in Partial(N, N) /\ DOMAIN p = DOMAIN f \cup {v}
      BY <3>2, <3>5, PartialMore
    <3> QED BY <3>6 DEF N, f
  <2>5. /\ v \in DOMAIN p /\ p[v] = u
        /\ \A i \in 1..n : c[i].of \in DOMAIN b.parent => c[i].of \in DOMAIN p /\ p[c[i].of] = b.parent[c[i].of]
    BY <2>3, <2>4 DEF Child
  <2>6. IsStack(g, p, s) /\ Len(s) = n + 1 /\ (\A i \in 1..n : s[i] = c[i]) /\ s[n + 1].of = v
    <3>1. v \in g[c[Len(c)].of] /\ p[v] = c[Len(c)].of /\ Len(c) = n
      BY <2>2, <2>5 DEF u
    <3> HIDE DEF p
    <3> QED BY <3>1, <2>2, <2>3, <2>5, StackPushes
  <2>7. \A i \in 1..Len(s) : s[i].of \in b.visited \cup {v}
    <3>1. \A i \in 1..n + 1 : i \in 1..n \/ i = n + 1
      BY <1>2
    <3> HIDE DEF s
    <3> QED BY <3>1, <2>2, <2>6, <1>1
  <2>8. DOMAIN p \subseteq b.visited \cup {v} /\ b.visited \cup {v} \subseteq DOMAIN g
    BY <1>1, <1>2, <2>2, <2>4
  <2> HIDE DEF s, p
  <2> QED BY <1>1, <1>2, <1>4, <2>1, <2>4, <2>6, <2>7, <2>8
<1>10. CASE n # 0 /\ b.calls[n].todo # {} /\ v \in b.visited /\ met
  <2>1. d = Traced(c, b.visited, b.parent, b.cycles \cup {Circle(b.parent, u, v)})
    BY <1>1, <1>10, TraceStepIs
  <2>2. PICK j \in 1..n : b.calls[j].of = v
    BY <1>10
  <2>3. v \in g[u] /\ IsStack(g, b.parent, c) /\ Len(c) = n /\ \A i \in 1..n : c[i].of = b.calls[i].of
    BY <1>8, <1>10
  <2> HIDE DEF v, c
  <2>4. IsCycleOf(Circle(b.parent, u, v), g) /\ Circle(b.parent, u, v) \in Seq(DOMAIN g)
    BY <2>2, <2>3, <1>1, <1>2, CircleCloses
  <2>5. \A i \in 1..Len(c) : c[i].of \in b.visited
    BY <2>3, <1>1
  <2> DEFINE x == Circle(b.parent, u, v)
  <2> HIDE DEF x, u, n
  <2>6. d = Traced(c, b.visited, b.parent, b.cycles \cup {x}) /\ IsCycleOf(x, g) /\ x \in Seq(DOMAIN g)
    BY <2>1, <2>4 DEF x
  <2>7. /\ b.cycles \cup {x} \subseteq Seq(DOMAIN g)
        /\ \A y \in b.cycles \cup {x} : IsCycleOf(y, g)
    BY <2>6, <1>1, <1>2
  <2> QED BY <1>1, <1>2, <1>4, <2>3, <2>5, <2>6, <2>7
<1>11. CASE n # 0 /\ b.calls[n].todo # {} /\ v \in b.visited /\ ~met
  <2>1. d = Traced(c, b.visited, b.parent, b.cycles)
    BY <1>1, <1>11, TraceStepIs
  <2>3. IsStack(g, b.parent, c) /\ Len(c) = n /\ \A i \in 1..n : c[i].of = b.calls[i].of
    BY <1>8, <1>11
  <2> HIDE DEF v, c
  <2>5. \A i \in 1..Len(c) : c[i].of \in b.visited
    BY <2>3, <1>1
  <2> QED BY <1>1, <1>2, <1>4, <2>1, <2>3, <2>5
<1> QED BY <1>5, <1>6, <1>7, <1>9, <1>10, <1>11


\* The two searches find the same calls, until one finds a cycle.
SameTrace(g, a, b) ==
    /\ a.cycle = <<>> /\ a.calls = b.calls
    /\ \A t \in DOMAIN g : t \in b.visited <=> a.colour[t] # "WHITE"

Recalled(a, c) == [a EXCEPT !.calls = c]

Entered(g, a, c, v, d) ==
    /\ d.calls = Append(c, Frame(g, v)) /\ d.cycle = a.cycle
    /\ d.colour = [a.colour EXCEPT ![v] = "GRAY"]

LEMMA CallIs ==
  ASSUME NEW g, NEW a \in SearchStates(g), NEW c, NEW v \in DOMAIN g,
         NEW d, d = Call(g, Recalled(a, c), v)
  PROVE  Entered(g, a, c, v, d)
<1>1. PICK e : e = Recalled(a, c)
  OBVIOUS
<1>2. /\ e.calls = c /\ e.colour = a.colour /\ e.cycle = a.cycle
      /\ e = [calls |-> c, colour |-> a.colour, order |-> a.order, cycle |-> a.cycle]
  BY <1>1 DEF SearchStates, Recalled
<1>3. PICK q, z : q = Append(c, Frame(g, v)) /\ z = [a.colour EXCEPT ![v] = "GRAY"]
  OBVIOUS
<1>4. d = [e EXCEPT !.calls = q, !.colour = z]
  BY <1>1, <1>2, <1>3 DEF Call, Frame
<1>5. PICK f : f = [e EXCEPT !.calls = q]
  OBVIOUS
<1>6. f = [calls |-> q, colour |-> a.colour, order |-> a.order, cycle |-> a.cycle]
  BY <1>2, <1>5
<1>7. d = [f EXCEPT !.colour = z]
  BY <1>4, <1>5
<1>8. d.calls = q /\ d.colour = z /\ d.cycle = a.cycle
  BY <1>6, <1>7
<1> QED BY <1>3, <1>8 DEF Entered

LEMMA SameStep ==
  ASSUME NEW g, IsGraph(g), NEW a, DfsInv(g, TRUE, a), NEW b, TraceInv(g, b), SameTrace(g, a, b),
         DfsStep(g, DOMAIN g, b).cycles = {}
  PROVE  SameTrace(g, Step(g, TRUE, a), DfsStep(g, DOMAIN g, b))
<1> DEFINE n == Len(b.calls)
           new == DOMAIN g \ b.visited
           u == b.calls[n].of
           v == AnyOf(b.calls[n].todo)
           c == Shortened(b.calls, v)
           met == \E i \in 1..n : b.calls[i].of = v
           d == DfsStep(g, DOMAIN g, b)
           white == {t \in DOMAIN g : a.colour[t] = "WHITE"}
<1>1. /\ b \in TraceStates(g) /\ IsStack(g, b.parent, b.calls)
      /\ \A i \in 1..n : b.calls[i].of \in b.visited
      /\ a \in SearchStates(g) /\ CallsInv(g, a)
  BY DEF TraceInv, DfsInv
<1>2. /\ n \in Nat /\ (n = 0 <=> b.calls = <<>>)
      /\ a.colour \in [DOMAIN g -> Colours]
  BY <1>1, TraceFields, StateFields
<1>3. a.cycle = <<>> /\ a.calls = b.calls /\ white = new
      /\ \A t \in DOMAIN g : t \in b.visited <=> a.colour[t] # "WHITE"
  BY DEF SameTrace
<1>4. \A s, V, p, cy : d = Traced(s, V, p, cy) => d.calls = s /\ d.visited = V /\ d.cycles = cy
  BY DEF Traced
<1>5. Step(g, TRUE, a) =
         IF n = 0 THEN IF white = {} THEN a ELSE Call(g, a, AnyOf(white))
         ELSE IF a.calls[n].todo = {} THEN Return(a) ELSE Follow(g, TRUE, a)
  <2>1. CASE n = 0
    <3>1. ~(n > 0) /\ Len(a.calls) = n
      BY <2>1, <1>2, <1>3
    <3>2. Step(g, TRUE, a) = IF white = {} THEN a ELSE Call(g, a, CHOOSE t \in white : TRUE)
      <4> HIDE DEF n
      <4> QED BY <2>1, <3>1, <1>3 DEF Step
    <3> QED BY <2>1, <3>2 DEF AnyOf
  <2>2. CASE n # 0
    <3>1. n > 0 /\ Len(a.calls) = n
      BY <2>2, <1>2, <1>3
    <3> HIDE DEF n
    <3> QED BY <2>2, <3>1, <1>3 DEF Step
  <2> QED BY <2>1, <2>2
<1>6. CASE n = 0 /\ new = {}
  <2>1. d = b
    BY <1>1, <1>6, TraceStepIs
  <2>2. Step(g, TRUE, a) = a
    BY <1>3, <1>5, <1>6
  <2> QED BY <2>1, <2>2
<1>7. CASE n = 0 /\ new # {}
  <2> DEFINE w == AnyOf(new)
  <2>1. d = Traced(Append(b.calls, Frame(g, w)), b.visited \cup {w}, b.parent, b.cycles)
    BY <1>1, <1>7, TraceStepIs
  <2>2. w \in new
    BY <1>7, AnyOfIs
  <2>3. Step(g, TRUE, a) = Call(g, a, w)
    BY <1>3, <1>5, <1>7
  <2> HIDE DEF w, d
  <2>4. d.calls = Append(b.calls, Frame(g, w)) /\ d.visited = b.visited \cup {w}
    BY <1>4, <2>1
  <2>5. a = Recalled(a, a.calls) /\ w \in DOMAIN g
    BY <1>1, <2>2 DEF SearchStates, Recalled
  <2>8. PICK e : e = Call(g, Recalled(a, a.calls), w)
    OBVIOUS
  <2>6. /\ e.calls = Append(a.calls, Frame(g, w)) /\ e.cycle = a.cycle
        /\ e.colour = [a.colour EXCEPT ![w] = "GRAY"]
    <3>1. Entered(g, a, a.calls, w, e)
      BY <1>1, <2>5, <2>8, CallIs
    <3> QED BY <3>1 DEF Entered
  <2>7. Step(g, TRUE, a) = e
    BY <2>3, <2>5, <2>8
  <2> QED BY <1>2, <1>3, <2>2, <2>4, <2>6, <2>7 DEF SameTrace, d
<1>8. CASE n # 0 /\ b.calls[n].todo = {}
  <2>1. d = Traced(SubSeq(b.calls, 1, n - 1), b.visited, b.parent, b.cycles)
    BY <1>1, <1>8, TraceStepIs
  <2>2. Step(g, TRUE, a) = Return(a)
    BY <1>3, <1>5, <1>8
  <2> DEFINE e == Return(a)
  <2>3. e.calls = SubSeq(a.calls, 1, n - 1) /\ e.cycle = a.cycle /\ e.colour = [a.colour EXCEPT ![u] = "BLACK"]
    <3> DEFINE s == SubSeq(a.calls, 1, n - 1)
    <3>1. e = [a EXCEPT !.calls = s, !.colour[u] = "BLACK", !.order = Append(@, u)]
      BY <1>3 DEF Return
    <3> HIDE DEF s, u
    <3>2. e.calls = s /\ e.cycle = a.cycle /\ e.colour = [a.colour EXCEPT ![u] = "BLACK"]
      BY <3>1, <1>1 DEF SearchStates
    <3> QED BY <3>2 DEF s, u
  <2>4. u \in b.visited /\ u \in DOMAIN g
    <3>1. n \in 1..n
      BY <1>2, <1>8
    <3> QED BY <3>1, <1>1, TraceFields
  <2> HIDE DEF e, d, u, n
  <2>5. d.calls = SubSeq(b.calls, 1, n - 1) /\ d.visited = b.visited
    BY <1>4, <2>1
  <2>6. \A t \in DOMAIN g : t \in d.visited <=> e.colour[t] # "WHITE"
    BY <1>2, <1>3, <2>3, <2>4, <2>5
  <2> QED BY <1>3, <2>2, <2>3, <2>5, <2>6 DEF SameTrace, e, d
<1>9. CASE n # 0 /\ b.calls[n].todo # {}
  <2> DEFINE rest == Recalled(a, c)
  <2>1. v \in DOMAIN g /\ v \in b.calls[n].todo
    <3>1. n \in 1..n
      BY <1>2, <1>9
    <3>2. v \in b.calls[n].todo
      BY <1>9, AnyOfIs
    <3> QED BY <3>1, <3>2, <1>1, StackFields
  <2>2. Step(g, TRUE, a) = Follow(g, TRUE, a)
    BY <1>3, <1>5, <1>9
  <2>3. Follow(g, TRUE, a) =
          CASE a.colour[v] = "WHITE" -> Call(g, rest, v)
            [] TRUE /\ a.colour[v] = "GRAY" -> [rest EXCEPT !.cycle = CyclePath(a.calls, v)]
            [] OTHER -> rest
    <3> DEFINE r == [a EXCEPT !.calls[Len(a.calls)].todo = @ \ {AnyOf(a.calls[Len(a.calls)].todo)}]
    <3>1. r = [a EXCEPT !.calls = Shortened(a.calls, AnyOf(a.calls[Len(a.calls)].todo))]
      BY DEF Shortened
    <3>2. r = rest
      BY <3>1, <1>3 DEF Recalled
    <3> DEFINE w == AnyOf(a.calls[Len(a.calls)].todo)
    <3>3. Follow(g, TRUE, a) =
            CASE a.colour[w] = "WHITE" -> Call(g, r, w)
              [] TRUE /\ a.colour[w] = "GRAY" -> [r EXCEPT !.cycle = CyclePath(a.calls, w)]
              [] OTHER -> r
      BY DEF Follow, AnyOf
    <3>4. w = v
      BY <1>3
    <3> HIDE DEF r, w, rest, v
    <3> QED BY <3>2, <3>3, <3>4
  <2>4. a.colour[v] = "GRAY" <=> met
    BY <1>1, <1>3, <2>1 DEF CallsInv
  <2>5. rest.calls = c /\ rest.colour = a.colour /\ rest.cycle = a.cycle
    BY <1>1 DEF SearchStates, Recalled
  <2>6. CASE v \notin b.visited
    <3>1. d = Traced(Append(c, Frame(g, v)), b.visited \cup {v}, Child(b.parent, u, v), b.cycles)
      BY <1>1, <1>9, <2>6, TraceStepIs
    <3>2. a.colour[v] = "WHITE"
      BY <1>3, <2>1, <2>6
    <3>6. PICK e : e = Call(g, Recalled(a, c), v)
      OBVIOUS
    <3>3. /\ e.calls = Append(c, Frame(g, v)) /\ e.cycle = a.cycle
          /\ e.colour = [a.colour EXCEPT ![v] = "GRAY"]
      <4>1. Entered(g, a, c, v, e)
        BY <1>1, <2>1, <3>6, CallIs
      <4> QED BY <4>1 DEF Entered
    <3>4. Step(g, TRUE, a) = e
      BY <2>2, <2>3, <3>2, <3>6
    <3> HIDE DEF d, v, c
    <3>5. d.calls = Append(c, Frame(g, v)) /\ d.visited = b.visited \cup {v}
      BY <1>4, <3>1
    <3> QED BY <1>2, <1>3, <2>1, <3>3, <3>4, <3>5 DEF SameTrace, d
  <2>7. CASE v \in b.visited /\ met
    <3>1. d = Traced(c, b.visited, b.parent, b.cycles \cup {Circle(b.parent, u, v)})
      BY <1>1, <1>9, <2>7, TraceStepIs
    <3>2. d.cycles # {}
      BY <3>1, <1>4
    <3> QED BY <3>2
  <2>8. CASE v \in b.visited /\ ~met
    <3>1. d = Traced(c, b.visited, b.parent, b.cycles)
      BY <1>1, <1>9, <2>8, TraceStepIs
    <3>2. Step(g, TRUE, a) = rest
      <4>1. a.colour[v] # "WHITE" /\ a.colour[v] # "GRAY"
        BY <1>3, <2>1, <2>4, <2>8
      <4> HIDE DEF rest, v
      <4> QED BY <2>2, <2>3, <4>1
    <3> HIDE DEF d, v, c, rest
    <3>5. d.calls = c /\ d.visited = b.visited
      BY <1>4, <3>1
    <3> QED BY <1>3, <2>5, <3>2, <3>5 DEF SameTrace, d
  <2> QED BY <2>6, <2>7, <2>8
<1> QED BY <1>6, <1>7, <1>8, <1>9


TraceStart == [calls |-> <<>>, visited |-> {}, parent |-> <<>>, cycles |-> {}]

LEMMA TraceStarts ==
  ASSUME NEW g
  PROVE  TraceInv(g, TraceStart) /\ SameTrace(g, Untouched(g), TraceStart)
<1> DEFINE b == TraceStart
<1>1. /\ b.calls = <<>> /\ b.visited = {} /\ b.parent = <<>> /\ b.cycles = {}
      /\ b = [calls |-> b.calls, visited |-> b.visited, parent |-> b.parent, cycles |-> b.cycles]
  BY DEF TraceStart
<1> HIDE DEF b
<1>2. DOMAIN b.parent = {} /\ b.parent \in Partial(DOMAIN g, DOMAIN g)
  <2>1. b.parent \in [{} -> DOMAIN g] /\ {} \in SUBSET DOMAIN g
    BY <1>1
  <2> QED BY <2>1 DEF Partial
<1>3. b.calls \in Seq(Frames(g)) /\ Len(b.calls) = 0
  BY <1>1
<1>4. b \in TraceStates(g)
  BY <1>1, <1>2, <1>3 DEF TraceStates
<1>5. IsStack(g, b.parent, b.calls)
  BY <1>3 DEF IsStack
<1>6. TraceInv(g, b)
  BY <1>1, <1>2, <1>3, <1>4, <1>5 DEF TraceInv
<1>7. SameTrace(g, Untouched(g), b)
  BY <1>1 DEF SameTrace, Untouched
<1> QED BY <1>6, <1>7 DEF b

\* The search of detectCycles keeps its invariant, and takes the steps of the search
\* of TaskOrder as long as it meets no cycle.
LEMMA FindCyclesKeeps ==
  ASSUME NEW g, IsGraph(g)
  PROVE  \E end : /\ FindCycles(g, DOMAIN g) = end.cycles /\ TraceInv(g, end)
                  /\ end.cycles = {} => SameTrace(g, Search(g, TRUE), end)
<1> DEFINE S == {b \in TraceStates(g) : TraceInv(g, b)}
           F == [b \in S |-> DfsStep(g, DOMAIN g, b)]
           N == StepsOf(g)
           start == TraceStart
           Rec(h) == [k \in 0..N |-> IF k = 0 THEN start ELSE DfsStep(g, DOMAIN g, h[k - 1])]
           after == CHOOSE h : h = Rec(h)
<1>1. FindCycles(g, DOMAIN g) = after[N].cycles
  BY DEF FindCycles, Repeat, TraceStart, StepsOf
<1>2. start \in S /\ N \in Nat
  BY TraceStarts, SearchRuns DEF TraceInv
<1>3. F \in [S -> S]
  <2>1. ASSUME NEW b \in S PROVE DfsStep(g, DOMAIN g, b) \in S
    <3>1. TraceInv(g, DfsStep(g, DOMAIN g, b))
      BY TraceStepKeeps
    <3> QED BY <3>1 DEF TraceInv
  <2> QED BY <2>1
<1>4. \A b \in S : F[b] = DfsStep(g, DOMAIN g, b)
  OBVIOUS
<1>5. PICK h : IsRun(h, S, F, start, N)
  <2> HIDE DEF S, F, N, start
  <2> QED BY <1>2, <1>3, IterationExists
<1>6. after = Rec(after)
  <2>1. h = Rec(h)
    <3>1. \A k \in 0..N : k # 0 => k \in 1..N /\ k - 1 \in 0..N
      BY <1>2
    <3>2. \A k \in 0..N : h[k] = IF k = 0 THEN start ELSE DfsStep(g, DOMAIN g, h[k - 1])
      <4> HIDE DEF S, F, N, start
      <4> QED BY <1>4, <1>5, <3>1 DEF IsRun
    <3> HIDE DEF S, F, N, start
    <3> QED BY <1>5, <3>2 DEF IsRun
  <2> HIDE DEF Rec
  <2> QED BY <2>1
<1> HIDE DEF after
<1>7. after[0] = start /\ \A k \in 1..N : after[k] = DfsStep(g, DOMAIN g, after[k - 1])
  <2>1. 0 \in 0..N /\ \A n \in 1..N : n \in 0..N /\ n # 0
    BY <1>2
  <2> HIDE DEF S, F, N, start
  <2> QED BY <1>6, <2>1
<1>8. PICK r : /\ r[0] = Untouched(g)
               /\ \A k \in 1..N : r[k] = Step(g, TRUE, r[k - 1])
               /\ \A k \in 0..N : DfsInv(g, TRUE, r[k])
               /\ Search(g, TRUE) = r[N]
  BY SearchRuns
<1> HIDE DEF Rec, F, S, N
<1> DEFINE Fine == {k \in 0..N : /\ TraceInv(g, after[k])
                                 /\ after[k].cycles = {} => SameTrace(g, r[k], after[k])}
<1>9. 0 \in Fine
  BY <1>2, <1>7, <1>8, TraceStarts
<1>10. ASSUME NEW k \in 1..N, k - 1 \in Fine PROVE k \in Fine
  <2> DEFINE b == after[k - 1]
             d == after[k]
             a == r[k - 1]
  <2>1. TraceInv(g, b) /\ (b.cycles = {} => SameTrace(g, a, b)) /\ k - 1 \in 0..N /\ k \in 0..N
    BY <1>2, <1>10
  <2>2. d = DfsStep(g, DOMAIN g, b) /\ r[k] = Step(g, TRUE, a) /\ DfsInv(g, TRUE, a)
    BY <1>7, <1>8, <2>1
  <2> HIDE DEF a, b, d
  <2>3. TraceInv(g, d) /\ b.cycles \subseteq d.cycles
    BY <2>1, <2>2, TraceStepKeeps
  <2>4. d.cycles = {} => SameTrace(g, r[k], d)
    <3> SUFFICES ASSUME d.cycles = {} PROVE SameTrace(g, r[k], d)
      OBVIOUS
    <3>1. SameTrace(g, a, b)
      BY <2>1, <2>3
    <3>2. DfsStep(g, DOMAIN g, b).cycles = {}
      BY <2>2
    <3>3. SameTrace(g, Step(g, TRUE, a), DfsStep(g, DOMAIN g, b))
      BY <2>1, <2>2, <3>1, <3>2, SameStep
    <3> QED BY <2>2, <3>3
  <2> QED BY <2>1, <2>3, <2>4 DEF d
<1>11. N \in Fine
  <2>1. Fine \in SUBSET Nat /\ N \in 0..N
    BY <1>2
  <2> HIDE DEF Fine
  <2> QED BY <1>2, <1>9, <1>10, <2>1, UpTo
<1>12. PICK end : end = after[N]
  OBVIOUS
<1>13. /\ FindCycles(g, DOMAIN g) = end.cycles /\ TraceInv(g, end)
       /\ end.cycles = {} => SameTrace(g, Search(g, TRUE), end)
  BY <1>1, <1>8, <1>11, <1>12
<1> QED BY <1>13

\* What detectCycles reports are cycles, and it reports some exactly when there are.
LEMMA FindCyclesFinds ==
  ASSUME NEW g, IsGraph(g)
  PROVE  /\ FindCycles(g, DOMAIN g) = {} <=> ~Cyclic(g)
         /\ \A c \in FindCycles(g, DOMAIN g) : IsCycleOf(c, g) /\ c \in Seq(DOMAIN g)
<1>1. PICK end : /\ FindCycles(g, DOMAIN g) = end.cycles /\ TraceInv(g, end)
                 /\ end.cycles = {} => SameTrace(g, Search(g, TRUE), end)
  BY FindCyclesKeeps
<1>2. \A c \in end.cycles : IsCycleOf(c, g) /\ c \in Seq(DOMAIN g)
  BY <1>1, TraceFields DEF TraceInv
<1>3. ASSUME end.cycles # {} PROVE Cyclic(g)
  <2>1. PICK c : IsCycleOf(c, g) /\ c \in Seq(DOMAIN g)
    BY <1>2, <1>3
  <2>2. Len(c) \in Nat
    BY <2>1
  <2> QED BY <2>1, <2>2, CyclesClose
<1>4. ASSUME end.cycles = {} PROVE ~Cyclic(g)
  <2>1. Search(g, TRUE).cycle = <<>>
    BY <1>1, <1>4 DEF SameTrace
  <2>2. ~FindsCycle(g)
    BY <2>1 DEF FindsCycle, FoundCycle
  <2> QED BY <2>2, FindsEveryCycle
<1> QED BY <1>1, <1>2, <1>3, <1>4

\* A finite graph has a cycle exactly when the graph the other way round has.
LEMMA Reversal ==
  ASSUME NEW g, NEW h, IsGraph(g), DOMAIN h = DOMAIN g,
         \A u, v \in DOMAIN g : v \in g[u] <=> u \in h[v],
         Cyclic(g)
  PROVE  Cyclic(h)
<1> DEFINE p == FoundCycle(g)
           S == {p[i] : i \in 1..Len(p) - 1}
<1>1. FindsCycle(g) /\ IsCycleOf(p, g)
  BY FindsEveryCycle
<1>2. p \in Seq(DOMAIN g)
  <2>1. DfsInv(g, TRUE, Search(g, TRUE))
    BY SearchEnds
  <2> QED BY <2>1, StateFields DEF DfsInv, FoundCycle
<1> HIDE DEF p
<1>3. /\ Len(p) \in Nat /\ Len(p) > 1 /\ p[1] = p[Len(p)]
      /\ \A i \in 1..Len(p) - 1 : p[i] \in DOMAIN g /\ p[i + 1] \in g[p[i]]
  BY <1>1, <1>2 DEF IsCycleOf
<1>4. S \in SUBSET DOMAIN h /\ S # {}
  <2>1. 1 \in 1..Len(p) - 1
    BY <1>3
  <2> QED BY <2>1, <1>3
<1>5. ASSUME NEW j \in 1..Len(p) - 1 PROVE \E i \in 1..Len(p) - 1 : p[i] \in h[p[j]]
  <2>1. CASE j # 1
    <3>1. j - 1 \in 1..Len(p) - 1 /\ (j - 1) + 1 = j
      BY <2>1, <1>3
    <3>2. p[j] \in g[p[j - 1]] /\ p[j] \in DOMAIN g /\ p[j - 1] \in DOMAIN g
      BY <3>1, <1>3
    <3> QED BY <3>1, <3>2
  <2>2. CASE j = 1
    <3> DEFINE i == Len(p) - 1
    <3>1. i \in 1..Len(p) - 1 /\ i + 1 = Len(p)
      BY <1>3
    <3>2. p[1] \in g[p[i]] /\ p[1] \in DOMAIN g /\ p[i] \in DOMAIN g
      BY <3>1, <2>2, <1>3
    <3> HIDE DEF i
    <3> QED BY <3>1, <3>2, <2>2
  <2> QED BY <2>1, <2>2
<1>6. \A t \in S : \E q \in S : q \in h[t]
  BY <1>5
<1> HIDE DEF S
<1> QED BY <1>4, <1>6 DEF Cyclic

=============================================================================
