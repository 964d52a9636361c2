----------------------- MODULE RuntimeManager_proofs -----------------------
(***************************************************************************)
(* Proofs about RuntimeManager for any number of calls, tenants and agents *)
(* and any limits, some or all of them undefined.                          *)
(*                                                                         *)
(* The allocator compares counters with limits, so the invariant relates   *)
(* the counters to the slots in use.  That one pass over the queue keeps   *)
(* the limits although it grants many requests is shown by looking at the  *)
(* last request granted, of all, of a tenant or of an agent: it fitted     *)
(* beside all the others.                                                  *)
(***************************************************************************)
EXTENDS RuntimeManager, FiniteSetTheorems, TLAPS

Arrived == {c \in Calls : arrival[c] # 0}

Counted(p) ==
  /\ \A t \in Tenants : p.tenants[t] = Cardinality(OfTenant(p.slots, t))
  /\ \A a \in Agents : p.agents[a] = Cardinality(OfAgent(p.slots, a))

WithinLimits(p) ==
  /\ MaxGlobal # Undefined => Cardinality(p.slots) <= MaxGlobal
  /\ MaxPerTenant # Undefined => \A t \in Tenants : p.tenants[t] <= MaxPerTenant
  /\ MaxPerAgent # Undefined => \A a \in Agents : p.agents[a] <= MaxPerAgent

QueueInv ==
  /\ \A c \in Calls : c \in queue <=> req[c] = "queued"
  /\ \A c \in Calls : req[c] = "idle" => arrival[c] = 0
  /\ \A c \in queue : arrival[c] # 0
  /\ \A c \in Calls : arrival[c] <= Cardinality(Arrived)
  /\ \A c, d \in Calls : arrival[c] = arrival[d] /\ arrival[c] # 0 => c = d

SlotInv ==
  /\ \A c \in runtimes : req[c] = "created"
  /\ \A c \in pool.slots : req[c] \in {"granted", "created"}
  /\ \A c \in Calls : req[c] = "granted" => c \in pool.slots
  /\ SlotsAccountedFor

PoolInv == Counted(pool) /\ WithinLimits(pool)

IInv == TypeOK /\ PoolInv /\ QueueInv /\ SlotInv /\ NoIdleRoom

-----------------------------------------------------------------------------
(***************************************************************************)
(* Counting                                                                *)
(***************************************************************************)

LEMMA LimitTypes ==
  /\ MaxGlobal # Undefined => MaxGlobal \in Nat
  /\ MaxPerTenant # Undefined => MaxPerTenant \in Nat
  /\ MaxPerAgent # Undefined => MaxPerAgent \in Nat
BY ConfigType DEF Limits

(* Every set of calls is finite, and so are its parts.                     *)
LEMMA SizesAreNumbers ==
  ASSUME NEW S \in SUBSET Calls
  PROVE  /\ IsFiniteSet(S) /\ Cardinality(S) \in Nat
         /\ \A t : /\ OfTenant(S, t) \in SUBSET Calls
                   /\ IsFiniteSet(OfTenant(S, t)) /\ Cardinality(OfTenant(S, t)) \in Nat
         /\ \A a : /\ OfAgent(S, a) \in SUBSET Calls
                   /\ IsFiniteSet(OfAgent(S, a)) /\ Cardinality(OfAgent(S, a)) \in Nat
<1>1. \A T \in SUBSET Calls : IsFiniteSet(T) /\ Cardinality(T) \in Nat
  BY ConfigType, FS_Subset, FS_CardinalityType
<1>2. \A t : OfTenant(S, t) \in SUBSET Calls
  BY DEF OfTenant
<1>3. \A a : OfAgent(S, a) \in SUBSET Calls
  BY DEF OfAgent
<1> QED
  BY <1>1, <1>2, <1>3

LEMMA SmallerIsSmaller ==
  ASSUME NEW S \in SUBSET Calls, NEW T \in SUBSET S
  PROVE  /\ Cardinality(T) <= Cardinality(S)
         /\ \A t : Cardinality(OfTenant(T, t)) <= Cardinality(OfTenant(S, t))
         /\ \A a : Cardinality(OfAgent(T, a)) <= Cardinality(OfAgent(S, a))
<1>1. Cardinality(T) <= Cardinality(S)
  BY SizesAreNumbers, FS_Subset
<1>2. ASSUME NEW t PROVE Cardinality(OfTenant(T, t)) <= Cardinality(OfTenant(S, t))
  <2>1. OfTenant(T, t) \in SUBSET OfTenant(S, t)
    BY DEF OfTenant
  <2> QED
    BY <2>1, SizesAreNumbers, FS_Subset
<1>3. ASSUME NEW a PROVE Cardinality(OfAgent(T, a)) <= Cardinality(OfAgent(S, a))
  <2>1. OfAgent(T, a) \in SUBSET OfAgent(S, a)
    BY DEF OfAgent
  <2> QED
    BY <2>1, SizesAreNumbers, FS_Subset
<1> QED
  BY <1>1, <1>2, <1>3

LEMMA SizeOfDisjoint ==
  ASSUME NEW S \in SUBSET Calls, NEW T \in SUBSET Calls, S \cap T = {}
  PROVE  /\ \A t : Cardinality(OfTenant(S \cup T, t))
                     = Cardinality(OfTenant(S, t)) + Cardinality(OfTenant(T, t))
         /\ \A a : Cardinality(OfAgent(S \cup T, a))
                     = Cardinality(OfAgent(S, a)) + Cardinality(OfAgent(T, a))
<1>1. \A A, B \in SUBSET Calls : A \cap B = {} =>
        Cardinality(A \cup B) = Cardinality(A) + Cardinality(B)
  <2> SUFFICES ASSUME NEW A \in SUBSET Calls, NEW B \in SUBSET Calls, A \cap B = {}
               PROVE  Cardinality(A \cup B) = Cardinality(A) + Cardinality(B)
    OBVIOUS
  <2>1. Cardinality(A \cup B) = Cardinality(A) + Cardinality(B) - Cardinality(A \cap B)
    BY SizesAreNumbers, FS_Union
  <2>2. Cardinality(A \cap B) = 0
    BY FS_EmptySet
  <2> QED
    BY <2>1, <2>2, SizesAreNumbers
<1>2. ASSUME NEW t PROVE Cardinality(OfTenant(S \cup T, t))
                           = Cardinality(OfTenant(S, t)) + Cardinality(OfTenant(T, t))
  <2>1. /\ OfTenant(S \cup T, t) = OfTenant(S, t) \cup OfTenant(T, t)
        /\ OfTenant(S, t) \cap OfTenant(T, t) = {}
    BY DEF OfTenant
  <2> QED
    BY <1>1, <2>1, SizesAreNumbers
<1>3. ASSUME NEW a PROVE Cardinality(OfAgent(S \cup T, a))
                           = Cardinality(OfAgent(S, a)) + Cardinality(OfAgent(T, a))
  <2>1. /\ OfAgent(S \cup T, a) = OfAgent(S, a) \cup OfAgent(T, a)
        /\ OfAgent(S, a) \cap OfAgent(T, a) = {}
    BY DEF OfAgent
  <2> QED
    BY <1>1, <2>1, SizesAreNumbers
<1> QED
  BY <1>2, <1>3

(* Removing one call from a set makes it smaller by one.                   *)
LEMMA OneLess ==
  ASSUME NEW S \in SUBSET Calls, NEW c \in S
  PROVE  Cardinality(S) = Cardinality(S \ {c}) + 1
BY SizesAreNumbers, FS_RemoveElement

(***************************************************************************)
(* The pool                                                                *)
(***************************************************************************)

LEMMA GrantPool ==
  ASSUME NEW p \in Pool, NEW G \in SUBSET Calls
  PROVE  /\ Grant(p, G) \in Pool
         /\ Grant(p, G).slots = p.slots \cup G
         /\ \A t \in Tenants :
              Grant(p, G).tenants[t] = p.tenants[t] + Cardinality(OfTenant(G, t))
         /\ \A a \in Agents :
              Grant(p, G).agents[a] = p.agents[a] + Cardinality(OfAgent(G, a))
<1>1. \A t \in Tenants : p.tenants[t] + Cardinality(OfTenant(G, t)) \in Nat
  <2> SUFFICES ASSUME NEW t \in Tenants
               PROVE  p.tenants[t] + Cardinality(OfTenant(G, t)) \in Nat
    OBVIOUS
  <2>1. p.tenants[t] \in Nat /\ Cardinality(OfTenant(G, t)) \in Nat
    BY SizesAreNumbers DEF Pool
  <2> QED
    BY <2>1
<1>2. \A a \in Agents : p.agents[a] + Cardinality(OfAgent(G, a)) \in Nat
  <2> SUFFICES ASSUME NEW a \in Agents
               PROVE  p.agents[a] + Cardinality(OfAgent(G, a)) \in Nat
    OBVIOUS
  <2>1. p.agents[a] \in Nat /\ Cardinality(OfAgent(G, a)) \in Nat
    BY SizesAreNumbers DEF Pool
  <2> QED
    BY <2>1
<1>3. p.slots \cup G \in SUBSET Calls
  BY DEF Pool
<1> QED
  BY <1>1, <1>2, <1>3 DEF Grant, Pool

LEMMA ReleasePool ==
  ASSUME NEW p \in Pool, NEW R \in SUBSET p.slots, Counted(p), WithinLimits(p)
  PROVE  /\ Release(p, R) \in Pool
         /\ Release(p, R).slots = p.slots \ R
         /\ Counted(Release(p, R))
         /\ WithinLimits(Release(p, R))
<1> DEFINE q == Release(p, R)
<1>0. p.slots \in SUBSET Calls /\ R \in SUBSET Calls /\ p.slots \ R \in SUBSET Calls
  BY DEF Pool
<1>1. /\ q.slots = p.slots \ R
      /\ q.tenants = [t \in Tenants |-> Less(p.tenants[t], Cardinality(OfTenant(R, t)))]
      /\ q.agents = [a \in Agents |-> Less(p.agents[a], Cardinality(OfAgent(R, a)))]
      /\ q = [slots |-> q.slots, tenants |-> q.tenants, agents |-> q.agents]
  BY DEF Release
<1>2. ASSUME NEW t \in Tenants
      PROVE  /\ q.tenants[t] = Cardinality(OfTenant(q.slots, t))
             /\ q.tenants[t] \in Nat
             /\ q.tenants[t] <= p.tenants[t]
  <2>1. Cardinality(OfTenant((p.slots \ R) \cup R, t))
          = Cardinality(OfTenant(p.slots \ R, t)) + Cardinality(OfTenant(R, t))
    <3> DEFINE K == p.slots \ R
    <3>1. K \in SUBSET Calls /\ R \in SUBSET Calls /\ K \cap R = {}
      BY <1>0
    <3> HIDE DEF K
    <3>2. \A u : Cardinality(OfTenant(K \cup R, u))
                  = Cardinality(OfTenant(K, u)) + Cardinality(OfTenant(R, u))
      BY <3>1, SizeOfDisjoint
    <3> QED
      BY <3>2 DEF K
  <2>2. (p.slots \ R) \cup R = p.slots
    OBVIOUS
  <2>3. p.tenants[t] = Cardinality(OfTenant(q.slots, t)) + Cardinality(OfTenant(R, t))
    BY <1>1, <2>1, <2>2 DEF Counted
  <2>4. /\ Cardinality(OfTenant(q.slots, t)) \in Nat
        /\ Cardinality(OfTenant(R, t)) \in Nat
    BY <1>0, <1>1, SizesAreNumbers
  <2>5. q.tenants[t] = Less(p.tenants[t], Cardinality(OfTenant(R, t)))
    BY <1>1
  <2> HIDE DEF q
  <2> QED
    BY <2>3, <2>4, <2>5 DEF Less
<1>3. ASSUME NEW a \in Agents
      PROVE  /\ q.agents[a] = Cardinality(OfAgent(q.slots, a))
             /\ q.agents[a] \in Nat
             /\ q.agents[a] <= p.agents[a]
  <2>1. Cardinality(OfAgent((p.slots \ R) \cup R, a))
          = Cardinality(OfAgent(p.slots \ R, a)) + Cardinality(OfAgent(R, a))
    <3> DEFINE K == p.slots \ R
    <3>1. K \in SUBSET Calls /\ R \in SUBSET Calls /\ K \cap R = {}
      BY <1>0
    <3> HIDE DEF K
    <3>2. \A u : Cardinality(OfAgent(K \cup R, u))
                  = Cardinality(OfAgent(K, u)) + Cardinality(OfAgent(R, u))
      BY <3>1, SizeOfDisjoint
    <3> QED
      BY <3>2 DEF K
  <2>2. (p.slots \ R) \cup R = p.slots
    OBVIOUS
  <2>3. p.agents[a] = Cardinality(OfAgent(q.slots, a)) + Cardinality(OfAgent(R, a))
    BY <1>1, <2>1, <2>2 DEF Counted
  <2>4. /\ Cardinality(OfAgent(q.slots, a)) \in Nat
        /\ Cardinality(OfAgent(R, a)) \in Nat
    BY <1>0, <1>1, SizesAreNumbers
  <2>5. q.agents[a] = Less(p.agents[a], Cardinality(OfAgent(R, a)))
    BY <1>1
  <2> HIDE DEF q
  <2> QED
    BY <2>3, <2>4, <2>5 DEF Less
<1>4. Cardinality(q.slots) <= Cardinality(p.slots)
  <2>1. p.slots \ R \in SUBSET p.slots
    OBVIOUS
  <2> QED
    BY <1>0, <1>1, <2>1, SmallerIsSmaller
<1>5. q \in Pool
  BY <1>0, <1>1, <1>2, <1>3 DEF Pool
<1>6. Counted(q)
  BY <1>2, <1>3 DEF Counted
<1>7. WithinLimits(q)
  <2>1. /\ Cardinality(q.slots) \in Nat /\ Cardinality(p.slots) \in Nat
        /\ \A t \in Tenants : p.tenants[t] \in Nat /\ q.tenants[t] \in Nat
        /\ \A a \in Agents : p.agents[a] \in Nat /\ q.agents[a] \in Nat
    BY <1>0, <1>1, <1>2, <1>3, SizesAreNumbers DEF Pool
  <2> HIDE DEF q
  <2> QED
    BY <1>2, <1>3, <1>4, <2>1, LimitTypes DEF WithinLimits
<1> QED
  BY <1>1, <1>5, <1>6, <1>7

(* The counters keep up with the slots.                                    *)
LEMMA GrantCounts ==
  ASSUME NEW p \in Pool, NEW G \in SUBSET Calls, p.slots \cap G = {}, Counted(p)
  PROVE  Counted(Grant(p, G))
<1>1. p.slots \in SUBSET Calls
  BY DEF Pool
<1>2. /\ \A t : Cardinality(OfTenant(p.slots \cup G, t))
                  = Cardinality(OfTenant(p.slots, t)) + Cardinality(OfTenant(G, t))
      /\ \A a : Cardinality(OfAgent(p.slots \cup G, a))
                  = Cardinality(OfAgent(p.slots, a)) + Cardinality(OfAgent(G, a))
  BY <1>1, SizeOfDisjoint
<1>3. /\ Grant(p, G).slots = p.slots \cup G
      /\ \A t \in Tenants :
           Grant(p, G).tenants[t] = p.tenants[t] + Cardinality(OfTenant(G, t))
      /\ \A a \in Agents :
           Grant(p, G).agents[a] = p.agents[a] + Cardinality(OfAgent(G, a))
  BY GrantPool
<1> HIDE DEF Grant
<1> QED
  BY <1>2, <1>3 DEF Counted

(* What does not fit does not fit beside more either.                      *)
LEMMA MoreIsNoRoom ==
  ASSUME NEW p \in Pool, NEW G \in SUBSET Calls, NEW D \in SUBSET G, NEW c \in Calls
  PROVE  /\ Reached(Cardinality(p.slots \cup D), MaxGlobal)
              => Reached(Cardinality(p.slots \cup G), MaxGlobal)
         /\ Reached(Grant(p, D).tenants[TenantOf[c]], MaxPerTenant)
              => Reached(Grant(p, G).tenants[TenantOf[c]], MaxPerTenant)
         /\ Reached(Grant(p, D).agents[AgentOf[c]], MaxPerAgent)
              => Reached(Grant(p, G).agents[AgentOf[c]], MaxPerAgent)
         /\ ~CanAllocate(Grant(p, D), c) => ~CanAllocate(Grant(p, G), c)
<1> DEFINE t == TenantOf[c]
           a == AgentOf[c]
<1>0. /\ D \in SUBSET Calls /\ t \in Tenants /\ a \in Agents
      /\ p.slots \cup G \in SUBSET Calls /\ p.slots \cup D \in SUBSET (p.slots \cup G)
      /\ p.slots \cup D \in SUBSET Calls
      /\ p.tenants[t] \in Nat /\ p.agents[a] \in Nat
  BY ConfigType DEF Pool
<1>1. /\ Cardinality(p.slots \cup D) \in Nat /\ Cardinality(p.slots \cup G) \in Nat
      /\ Cardinality(p.slots \cup D) <= Cardinality(p.slots \cup G)
  BY <1>0, SizesAreNumbers, SmallerIsSmaller
<1>2. /\ Grant(p, D).tenants[t] \in Nat /\ Grant(p, G).tenants[t] \in Nat
      /\ Grant(p, D).tenants[t] <= Grant(p, G).tenants[t]
  <2>1. /\ Cardinality(OfTenant(D, t)) \in Nat /\ Cardinality(OfTenant(G, t)) \in Nat
        /\ Cardinality(OfTenant(D, t)) <= Cardinality(OfTenant(G, t))
    BY <1>0, SizesAreNumbers, SmallerIsSmaller
  <2>2. /\ Grant(p, D).tenants[t] = p.tenants[t] + Cardinality(OfTenant(D, t))
        /\ Grant(p, G).tenants[t] = p.tenants[t] + Cardinality(OfTenant(G, t))
    BY <1>0, GrantPool
  <2> QED
    BY <1>0, <2>1, <2>2
<1>3. /\ Grant(p, D).agents[a] \in Nat /\ Grant(p, G).agents[a] \in Nat
      /\ Grant(p, D).agents[a] <= Grant(p, G).agents[a]
  <2>1. /\ Cardinality(OfAgent(D, a)) \in Nat /\ Cardinality(OfAgent(G, a)) \in Nat
        /\ Cardinality(OfAgent(D, a)) <= Cardinality(OfAgent(G, a))
    BY <1>0, SizesAreNumbers, SmallerIsSmaller
  <2>2. /\ Grant(p, D).agents[a] = p.agents[a] + Cardinality(OfAgent(D, a))
        /\ Grant(p, G).agents[a] = p.agents[a] + Cardinality(OfAgent(G, a))
    BY <1>0, GrantPool
  <2> QED
    BY <1>0, <2>1, <2>2
<1>4. Reached(Cardinality(p.slots \cup D), MaxGlobal)
        => Reached(Cardinality(p.slots \cup G), MaxGlobal)
  BY <1>1, LimitTypes DEF Reached
<1>5. Reached(Grant(p, D).tenants[t], MaxPerTenant) => Reached(Grant(p, G).tenants[t], MaxPerTenant)
  BY <1>2, LimitTypes DEF Reached
<1>6. Reached(Grant(p, D).agents[a], MaxPerAgent) => Reached(Grant(p, G).agents[a], MaxPerAgent)
  BY <1>3, LimitTypes DEF Reached
<1>7. /\ Grant(p, D).slots = p.slots \cup D
      /\ Grant(p, G).slots = p.slots \cup G
  BY <1>0, GrantPool
<1> QED
  BY <1>4, <1>5, <1>6, <1>7 DEF CanAllocate

(***************************************************************************)
(* The queue                                                               *)
(***************************************************************************)

LEMMA QueueOrder ==
  ASSUME TypeOK, QueueInv
  PROVE  /\ \A c \in queue : ~Before(c, c)
         /\ \A c, d \in queue : c = d \/ Before(c, d) \/ Before(d, c)
         /\ \A c, d, e \in queue : Before(c, d) /\ Before(d, e) => Before(c, e)
<1>1. \A c \in queue : /\ c \in Calls /\ PriorityOf[c] \in Nat /\ arrival[c] \in Nat
                       /\ arrival[c] # 0
  <2>1. \A c \in queue : c \in Calls /\ PriorityOf[c] \in 1..4
    BY ConfigType DEF TypeOK
  <2> QED
    BY <2>1 DEF TypeOK, QueueInv
<1>2. \A c, d \in queue : arrival[c] = arrival[d] => c = d
  BY <1>1 DEF QueueInv
<1>3. \A c \in queue : ~Before(c, c)
  BY <1>1 DEF Before
<1>4. \A c, d \in queue : c = d \/ Before(c, d) \/ Before(d, c)
  BY <1>1, <1>2 DEF Before
<1>5. \A c, d, e \in queue : Before(c, d) /\ Before(d, e) => Before(c, e)
  BY <1>1 DEF Before
<1> QED
  BY <1>3, <1>4, <1>5

(* The requests of a set that come before another one of it form a smaller *)
(* set; the largest such set leaves only the last request out.             *)
LEMMA LastOfQueue ==
  ASSUME TypeOK, QueueInv, NEW S \in SUBSET queue, S # {}
  PROVE  \E l \in S : \A d \in S \ {l} : Before(d, l)
<1> DEFINE After(c) == {d \in S : Before(c, d)}
           F == {After(c) : c \in S}
           R == StrictSubsetOrdering(S)
<1>1. F \subseteq SUBSET S /\ F # {}
  OBVIOUS
<1>2. F \subseteq FiniteSubsetsOf(S)
  <2>1. IsFiniteSet(S)
    BY SizesAreNumbers DEF TypeOK
  <2> QED
    BY <1>1, <2>1, FS_FiniteSubsetsOfFinite
<1>3. PICK T \in F : \A U \in F : <<U, T>> \notin R
  <2>1. IsWellFoundedOn(R, FiniteSubsetsOf(S))
    BY FS_StrictSubsetOrderingWellFounded
  <2> HIDE DEF F, R
  <2> QED
    BY <1>1, <1>2, <2>1, WFMin
<1>4. PICK l \in S : T = After(l)
  OBVIOUS
<1>5. ASSUME NEW e \in T PROVE FALSE
  <2>1. /\ e \in S /\ Before(l, e)
        /\ e \in queue /\ l \in queue
    BY <1>4
  <2>2. After(e) \subseteq T
    BY <1>4, <2>1, QueueOrder
  <2>3. e \notin After(e)
    BY <2>1, QueueOrder
  <2>4. After(e) \in F /\ After(e) \in SUBSET S /\ T \in SUBSET S
    BY <2>1, <1>1
  <2>5. <<After(e), T>> \in R
    BY <2>2, <2>3, <2>4, <1>5 DEF StrictSubsetOrdering
  <2> QED
    BY <1>3, <2>4, <2>5
<1>6. \A d \in S \ {l} : Before(d, l)
  BY <1>4, <1>5, QueueOrder
<1> QED
  BY <1>6

(* One pass over the queue keeps every limit.                              *)
LEMMA ServedWithinLimits ==
  ASSUME TypeOK, QueueInv, NEW p \in Pool, p.slots \cap queue = {}, WithinLimits(p),
         NEW G \in SUBSET queue, Served(p, G)
  PROVE  WithinLimits(Grant(p, G))
<1> DEFINE D(c) == {d \in G : Before(d, c)}
<1>0. /\ G \in SUBSET Calls /\ p.slots \in SUBSET Calls
      /\ \A c \in G : D(c) \in SUBSET Calls /\ c \in Calls
  BY DEF TypeOK, Pool
<1>a. \A c \in G : CanAllocate(Grant(p, D(c)), c)
  BY DEF Served
<1>b. /\ Grant(p, G).slots = p.slots \cup G
      /\ \A t \in Tenants : Grant(p, G).tenants[t] = p.tenants[t] + Cardinality(OfTenant(G, t))
      /\ \A a \in Agents : Grant(p, G).agents[a] = p.agents[a] + Cardinality(OfAgent(G, a))
  BY <1>0, GrantPool
<1>c. \A c \in G :
        /\ Grant(p, D(c)).slots = p.slots \cup D(c)
        /\ \A t \in Tenants :
             Grant(p, D(c)).tenants[t] = p.tenants[t] + Cardinality(OfTenant(D(c), t))
        /\ \A a \in Agents :
             Grant(p, D(c)).agents[a] = p.agents[a] + Cardinality(OfAgent(D(c), a))
  BY <1>0, GrantPool
<1>1. ASSUME MaxGlobal # Undefined PROVE Cardinality(Grant(p, G).slots) <= MaxGlobal
  <2>1. CASE G = {}
    <3>1. p.slots \cup G = p.slots
      BY <2>1
    <3> QED
      BY <1>1, <1>b, <3>1 DEF WithinLimits
  <2>2. CASE G # {}
    <3>1. PICK l \in G : \A d \in G \ {l} : Before(d, l)
      BY <2>2, LastOfQueue
    <3>2. D(l) = G \ {l}
      BY <3>1, QueueOrder
    <3>3. ~Reached(Cardinality(p.slots \cup D(l)), MaxGlobal)
      BY <1>a, <1>c DEF CanAllocate
    <3>4. /\ p.slots \cup G \in SUBSET Calls /\ l \in p.slots \cup G
          /\ (p.slots \cup G) \ {l} = p.slots \cup D(l)
      BY <1>0, <3>2
    <3>5. Cardinality(p.slots \cup G) = Cardinality(p.slots \cup D(l)) + 1
      BY <3>4, OneLess
    <3>6. Cardinality(p.slots \cup D(l)) \in Nat
      BY <1>0, SizesAreNumbers
    <3> HIDE DEF D
    <3> QED
      BY <1>1, <1>b, <3>3, <3>5, <3>6, LimitTypes DEF Reached
  <2> QED
    BY <2>1, <2>2
<1>2. ASSUME MaxPerTenant # Undefined, NEW t \in Tenants
      PROVE  Grant(p, G).tenants[t] <= MaxPerTenant
  <2> DEFINE S == OfTenant(G, t)
  <2>0. /\ S \in SUBSET queue /\ S \in SUBSET G /\ S \in SUBSET Calls
        /\ p.tenants[t] \in Nat /\ p.tenants[t] <= MaxPerTenant /\ MaxPerTenant \in Nat
    BY <1>0, <1>2, LimitTypes DEF OfTenant, Pool, WithinLimits
  <2>1. CASE S = {}
    <3>1. Cardinality(S) = 0
      BY <2>1, FS_EmptySet
    <3> QED
      BY <1>b, <2>0, <3>1
  <2>2. CASE S # {}
    <3>1. PICK l \in S : \A d \in S \ {l} : Before(d, l)
      BY <2>0, <2>2, LastOfQueue
    <3>2. OfTenant(D(l), t) = S \ {l}
      BY <2>0, <3>1, QueueOrder DEF OfTenant
    <3>3. l \in G /\ TenantOf[l] = t
      BY DEF OfTenant
    <3>4. ~Reached(p.tenants[t] + Cardinality(OfTenant(D(l), t)), MaxPerTenant)
      BY <1>a, <1>c, <3>3 DEF CanAllocate
    <3>5. Cardinality(S) = Cardinality(S \ {l}) + 1
      BY <2>0, OneLess
    <3>6. Cardinality(S \ {l}) \in Nat
      BY <2>0, SizesAreNumbers
    <3> HIDE DEF D, S
    <3>7. p.tenants[t] + Cardinality(S) <= MaxPerTenant
      BY <1>2, <2>0, <3>2, <3>4, <3>5, <3>6 DEF Reached
    <3> QED
      BY <1>b, <3>7 DEF S
  <2> QED
    BY <2>1, <2>2
<1>3. ASSUME MaxPerAgent # Undefined, NEW a \in Agents
      PROVE  Grant(p, G).agents[a] <= MaxPerAgent
  <2> DEFINE S == OfAgent(G, a)
  <2>0. /\ S \in SUBSET queue /\ S \in SUBSET G /\ S \in SUBSET Calls
        /\ p.agents[a] \in Nat /\ p.agents[a] <= MaxPerAgent /\ MaxPerAgent \in Nat
    BY <1>0, <1>3, LimitTypes DEF OfAgent, Pool, WithinLimits
  <2>1. CASE S = {}
    <3>1. Cardinality(S) = 0
      BY <2>1, FS_EmptySet
    <3> QED
      BY <1>b, <2>0, <3>1
  <2>2. CASE S # {}
    <3>1. PICK l \in S : \A d \in S \ {l} : Before(d, l)
      BY <2>0, <2>2, LastOfQueue
    <3>2. OfAgent(D(l), a) = S \ {l}
      BY <2>0, <3>1, QueueOrder DEF OfAgent
    <3>3. l \in G /\ AgentOf[l] = a
      BY DEF OfAgent
    <3>4. ~Reached(p.agents[a] + Cardinality(OfAgent(D(l), a)), MaxPerAgent)
      BY <1>a, <1>c, <3>3 DEF CanAllocate
    <3>5. Cardinality(S) = Cardinality(S \ {l}) + 1
      BY <2>0, OneLess
    <3>6. Cardinality(S \ {l}) \in Nat
      BY <2>0, SizesAreNumbers
    <3> HIDE DEF D, S
    <3>7. p.agents[a] + Cardinality(S) <= MaxPerAgent
      BY <1>3, <2>0, <3>2, <3>4, <3>5, <3>6 DEF Reached
    <3> QED
      BY <1>b, <3>7 DEF S
  <2> QED
    BY <2>1, <2>2
<1> HIDE DEF D
<1> QED
  BY <1>1, <1>2, <1>3 DEF WithinLimits

(* What a request left in the queue by one pass over it can say of those   *)
(* that were served.                                                       *)
Overtaken(p, c) ==
  \/ Reached(p.tenants[TenantOf[c]], MaxPerTenant)
  \/ Reached(p.agents[AgentOf[c]], MaxPerAgent)

(* NoOvertaking, of one step. *)
Orderly ==
  \A c, d \in queue :
    Before(c, d) /\ d \in pool'.slots /\ c \in queue' => Overtaken(pool', c)

LEMMA Processed ==
  ASSUME TypeOK, QueueInv, NEW p \in Pool, Counted(p), WithinLimits(p), p.slots \cap queue = {},
         ProcessQueue(p)
  PROVE  \E G \in SUBSET queue :
           /\ pool' \in Pool /\ Counted(pool') /\ WithinLimits(pool')
           /\ pool'.slots = p.slots \cup G
           /\ queue' = queue \ G
           /\ req' = [c \in Calls |-> IF c \in G THEN "granted" ELSE req[c]]
           /\ phase = "up" => \A c \in queue \ G : ~CanAllocate(pool', c)
           /\ \A c \in queue \ G, d \in G : Before(c, d) => Overtaken(pool', c)
<1>1. PICK G \in SUBSET queue :
        /\ IF phase = "up" THEN Served(p, G) ELSE G = {}
        /\ pool' = Grant(p, G)
        /\ queue' = queue \ G
        /\ req' = [c \in Calls |-> IF c \in G THEN "granted" ELSE req[c]]
  BY DEF ProcessQueue
<1>2. /\ queue \in SUBSET Calls /\ G \in SUBSET Calls
      /\ p.slots \cap G = {}
  BY DEF TypeOK
<1>3. Grant(p, G) \in Pool /\ Grant(p, G).slots = p.slots \cup G
  BY <1>2, GrantPool
<1>4. Counted(Grant(p, G))
  BY <1>2, GrantCounts
<1>5. CASE phase = "up"
  <2> DEFINE D(c) == {d \in G : Before(d, c)}
  <2>1. \A c \in queue : c \in G <=> CanAllocate(Grant(p, D(c)), c)
    BY <1>1, <1>5 DEF Served
  <2>2. \A c : D(c) \in SUBSET G
    OBVIOUS
  <2>3. WithinLimits(Grant(p, G))
    BY <1>1, <1>5, ServedWithinLimits
  <2>4. \A c \in queue \ G : ~CanAllocate(Grant(p, G), c)
    <3> SUFFICES ASSUME NEW c \in queue \ G PROVE ~CanAllocate(Grant(p, G), c)
      OBVIOUS
    <3>1. ~CanAllocate(Grant(p, D(c)), c)
      BY <2>1
    <3> HIDE DEF D
    <3> QED
      BY <1>2, <2>2, <3>1, MoreIsNoRoom
  <2>5. ASSUME NEW c \in queue \ G, NEW d \in G, Before(c, d)
        PROVE  Overtaken(Grant(p, G), c)
    <3>1. ~CanAllocate(Grant(p, D(c)), c) /\ CanAllocate(Grant(p, D(d)), d)
      BY <2>1
    <3>2. D(c) \in SUBSET D(d)
      BY <2>5, QueueOrder
    <3>3. /\ D(c) \in SUBSET Calls /\ D(d) \in SUBSET Calls
          /\ c \in Calls /\ d \in Calls
      BY <1>2, <2>2
    <3>4. /\ Grant(p, D(c)).slots = p.slots \cup D(c)
          /\ Grant(p, D(d)).slots = p.slots \cup D(d)
      BY <3>3, GrantPool
    <3> HIDE DEF D
    <3>5. ~Reached(Cardinality(p.slots \cup D(d)), MaxGlobal)
      BY <3>1, <3>4 DEF CanAllocate
    <3>6. ~Reached(Cardinality(p.slots \cup D(c)), MaxGlobal)
      BY <3>2, <3>3, <3>5, MoreIsNoRoom
    <3>7. \/ Reached(Grant(p, D(c)).tenants[TenantOf[c]], MaxPerTenant)
          \/ Reached(Grant(p, D(c)).agents[AgentOf[c]], MaxPerAgent)
      BY <3>1, <3>4, <3>6 DEF CanAllocate
    <3> QED
      BY <1>2, <2>2, <3>3, <3>7, MoreIsNoRoom DEF Overtaken
  <2> HIDE DEF D
  <2> QED
    BY <1>1, <1>3, <1>4, <2>3, <2>4, <2>5
<1>6. CASE phase # "up"
  <2>1. G = {}
    BY <1>1, <1>6
  <2>2. WithinLimits(Grant(p, G))
    <3>1. /\ \A t : OfTenant(G, t) = {}
          /\ \A a : OfAgent(G, a) = {}
          /\ p.slots \cup G = p.slots
      BY <2>1 DEF OfTenant, OfAgent
    <3>2. /\ \A t \in Tenants : p.tenants[t] \in Nat
          /\ \A a \in Agents : p.agents[a] \in Nat
      BY DEF Pool
    <3>3. /\ \A t \in Tenants : Grant(p, G).tenants[t] = p.tenants[t] + Cardinality(OfTenant(G, t))
          /\ \A a \in Agents : Grant(p, G).agents[a] = p.agents[a] + Cardinality(OfAgent(G, a))
      BY <1>2, GrantPool
    <3>a. /\ \A t : Cardinality(OfTenant(G, t)) = 0
          /\ \A a : Cardinality(OfAgent(G, a)) = 0
      BY <3>1, FS_EmptySet
    <3> HIDE DEF Grant
    <3>4. /\ \A t \in Tenants : Grant(p, G).tenants[t] = p.tenants[t]
          /\ \A a \in Agents : Grant(p, G).agents[a] = p.agents[a]
      BY <3>a, <3>2, <3>3
    <3> QED
      BY <1>3, <3>1, <3>4 DEF WithinLimits
  <2> QED
    BY <1>1, <1>3, <1>4, <1>6, <2>1, <2>2
<1> QED
  BY <1>5, <1>6

-----------------------------------------------------------------------------
(***************************************************************************)
(* The invariant                                                           *)
(***************************************************************************)

LEMMA SlotsAreNotQueued ==
  ASSUME TypeOK, QueueInv, SlotInv
  PROVE  pool.slots \cap queue = {}
BY DEF TypeOK, QueueInv, SlotInv

LEMMA InitInv == Init => IInv
<1> SUFFICES ASSUME Init PROVE IInv
  OBVIOUS
<1> USE DEF Init
<1>1. \A S : OfTenant({}, S) = {} /\ OfAgent({}, S) = {}
  BY DEF OfTenant, OfAgent
<1>2. TypeOK
  BY ConfigType DEF TypeOK, Pool
<1>3. PoolInv
  <2>1. /\ pool.slots = {}
        /\ \A t \in Tenants : pool.tenants[t] = 0
        /\ \A a \in Agents : pool.agents[a] = 0
    OBVIOUS
  <2>2. /\ Cardinality(pool.slots) = 0
        /\ \A t : Cardinality(OfTenant(pool.slots, t)) = 0
        /\ \A a : Cardinality(OfAgent(pool.slots, a)) = 0
    BY <1>1, <2>1, FS_EmptySet
  <2>3. Counted(pool)
    BY <2>1, <2>2 DEF Counted
  <2>4. WithinLimits(pool)
    BY <2>1, <2>2, LimitTypes DEF WithinLimits
  <2> QED
    BY <2>3, <2>4 DEF PoolInv
<1>4. QueueInv
  <2>1. Arrived = {}
    BY DEF Arrived
  <2> QED
    BY <2>1, FS_EmptySet DEF QueueInv
<1>5. SlotInv /\ NoIdleRoom
  BY DEF SlotInv, SlotsAccountedFor, NoIdleRoom
<1> QED
  BY <1>2, <1>3, <1>4, <1>5 DEF IInv

(* Steps that touch neither the requests nor the pool.                     *)
LEMMA UnrelatedStep ==
  ASSUME IInv, UNCHANGED <<req, pool, queue, arrival, runtimes, phase>>
  PROVE  PoolInv' /\ QueueInv' /\ SlotInv' /\ NoIdleRoom' /\ Orderly
<1>1. PoolInv'
  BY DEF IInv, PoolInv, Counted, WithinLimits
<1>2. QueueInv'
  BY DEF IInv, QueueInv, Arrived
<1>3. SlotInv'
  BY DEF IInv, SlotInv, SlotsAccountedFor
<1>4. NoIdleRoom'
  BY DEF IInv, NoIdleRoom, CanAllocate
<1>5. Orderly
  BY SlotsAreNotQueued DEF IInv, Orderly
<1> QED
  BY <1>1, <1>2, <1>3, <1>4, <1>5

(* A request is refused, granted at once or queued.                        *)
LEMMA CreateStep ==
  ASSUME IInv, NEW c \in Calls, CreateRuntime(c)
  PROVE  IInv' /\ Orderly
<1>0. /\ req[c] = "idle" /\ c \notin queue /\ c \notin pool.slots /\ arrival[c] = 0
      /\ UNCHANGED <<inst, runtimes, killing, phase, attempts, recovering>>
  BY DEF IInv, CreateRuntime, QueueInv, SlotInv, instanceVars
<1>00. /\ TypeOK /\ PoolInv /\ QueueInv /\ SlotInv /\ NoIdleRoom
       /\ pool \in Pool /\ pool.slots \in SUBSET Calls /\ pool.slots \cap queue = {}
       /\ req \in [Calls -> {"idle", "queued", "granted", "created", "failed"}]
       /\ arrival \in [Calls -> Nat]
  BY SlotsAreNotQueued DEF IInv, TypeOK, Pool
<1>1. CASE /\ req' = [req EXCEPT ![c] = "failed"]
           /\ UNCHANGED <<pool, queue, arrival>>
  <2>1. TypeOK'
    BY <1>0, <1>00, <1>1 DEF TypeOK
  <2>2. PoolInv'
    BY <1>00, <1>1 DEF PoolInv, Counted, WithinLimits
  <2>3. QueueInv'
    BY <1>0, <1>00, <1>1 DEF QueueInv, Arrived
  <2>4. SlotInv'
    BY <1>0, <1>00, <1>1 DEF SlotInv, SlotsAccountedFor
  <2>5. NoIdleRoom'
    BY <1>0, <1>00, <1>1 DEF NoIdleRoom, CanAllocate
  <2>6. Orderly
    BY <1>00, <1>1 DEF Orderly
  <2> QED
    BY <2>1, <2>2, <2>3, <2>4, <2>5, <2>6 DEF IInv
<1>2. CASE /\ CanAllocate(pool, c)
           /\ req' = [req EXCEPT ![c] = "granted"]
           /\ pool' = Grant(pool, {c})
           /\ UNCHANGED <<queue, arrival>>
  <2>0. /\ {c} \in SUBSET Calls /\ pool.slots \cap {c} = {}
        /\ pool' \in Pool /\ pool'.slots = pool.slots \cup {c}
    BY <1>0, <1>00, <1>2, GrantPool
  <2>1. TypeOK'
    BY <1>0, <1>00, <1>2, <2>0 DEF TypeOK
  <2>2. PoolInv'
    <3>1. Counted(pool')
      BY <1>00, <1>2, <2>0, GrantCounts DEF PoolInv
    <3>2. WithinLimits(pool')
      <4>1. \A t \in Tenants : /\ pool'.tenants[t] = pool.tenants[t] + Cardinality(OfTenant({c}, t))
                               /\ pool.tenants[t] \in Nat
        BY <1>00, <1>2, <2>0, GrantPool DEF Pool
      <4>2. \A a \in Agents : /\ pool'.agents[a] = pool.agents[a] + Cardinality(OfAgent({c}, a))
                              /\ pool.agents[a] \in Nat
        BY <1>00, <1>2, <2>0, GrantPool DEF Pool
      <4>3. \A t : IF t = TenantOf[c] THEN Cardinality(OfTenant({c}, t)) = 1
                                      ELSE Cardinality(OfTenant({c}, t)) = 0
        <5>1. \A t : IF t = TenantOf[c] THEN OfTenant({c}, t) = {c} ELSE OfTenant({c}, t) = {}
          BY DEF OfTenant
        <5> QED
          BY <5>1, FS_Singleton, FS_EmptySet
      <4>4. \A a : IF a = AgentOf[c] THEN Cardinality(OfAgent({c}, a)) = 1
                                     ELSE Cardinality(OfAgent({c}, a)) = 0
        <5>1. \A a : IF a = AgentOf[c] THEN OfAgent({c}, a) = {c} ELSE OfAgent({c}, a) = {}
          BY DEF OfAgent
        <5> QED
          BY <5>1, FS_Singleton, FS_EmptySet
      <4>5. /\ Cardinality(pool'.slots) = Cardinality(pool.slots) + 1
            /\ Cardinality(pool.slots) \in Nat
        <5>1. /\ pool.slots \cup {c} \in SUBSET Calls
              /\ (pool.slots \cup {c}) \ {c} = pool.slots
          BY <1>0, <1>00
        <5> QED
          BY <1>00, <2>0, <5>1, OneLess, SizesAreNumbers
      <4>6. WithinLimits(pool)
        BY <1>00 DEF PoolInv
      <4>7. /\ ~Reached(Cardinality(pool.slots), MaxGlobal)
            /\ ~Reached(pool.tenants[TenantOf[c]], MaxPerTenant)
            /\ ~Reached(pool.agents[AgentOf[c]], MaxPerAgent)
        BY <1>2 DEF CanAllocate
      <4>8. ASSUME MaxPerTenant # Undefined, NEW t \in Tenants
            PROVE  pool'.tenants[t] <= MaxPerTenant
        <5>1. /\ MaxPerTenant \in Nat
              /\ pool.tenants[t] \in Nat /\ pool.tenants[t] <= MaxPerTenant
              /\ t = TenantOf[c] => ~(pool.tenants[t] >= MaxPerTenant)
          BY <4>1, <4>6, <4>7, <4>8, LimitTypes DEF WithinLimits, Reached
        <5>2. pool'.tenants[t] = pool.tenants[t] + Cardinality(OfTenant({c}, t))
          BY <4>1
        <5>3. Cardinality(OfTenant({c}, t)) = IF t = TenantOf[c] THEN 1 ELSE 0
          BY <4>3
        <5> QED
          BY <5>1, <5>2, <5>3
      <4>9. ASSUME MaxPerAgent # Undefined, NEW a \in Agents
            PROVE  pool'.agents[a] <= MaxPerAgent
        <5>1. /\ MaxPerAgent \in Nat
              /\ pool.agents[a] \in Nat /\ pool.agents[a] <= MaxPerAgent
              /\ a = AgentOf[c] => ~(pool.agents[a] >= MaxPerAgent)
          BY <4>2, <4>6, <4>7, <4>9, LimitTypes DEF WithinLimits, Reached
        <5>2. pool'.agents[a] = pool.agents[a] + Cardinality(OfAgent({c}, a))
          BY <4>2
        <5>3. Cardinality(OfAgent({c}, a)) = IF a = AgentOf[c] THEN 1 ELSE 0
          BY <4>4
        <5> QED
          BY <5>1, <5>2, <5>3
      <4>10. MaxGlobal # Undefined => Cardinality(pool'.slots) <= MaxGlobal
        BY <4>5, <4>7, LimitTypes DEF Reached
      <4> QED
        BY <4>8, <4>9, <4>10 DEF WithinLimits
    <3> QED
      BY <3>1, <3>2 DEF PoolInv, Counted, WithinLimits
  <2>3. QueueInv'
    BY <1>0, <1>00, <1>2 DEF QueueInv, Arrived
  <2>4. SlotInv'
    <3>1. \A d \in Calls : req'[d] = "granted" <=> req[d] = "granted" \/ d = c
      BY <1>0, <1>00, <1>2
    <3>2. (\A d \in runtimes' : req'[d] = "created")
      BY <1>0, <1>00, <1>2 DEF SlotInv
    <3>3. \A d \in pool'.slots : req'[d] \in {"granted", "created"}
      BY <1>0, <1>00, <1>2, <2>0 DEF SlotInv
    <3>4. \A d \in Calls : req'[d] = "granted" => d \in pool'.slots
      BY <1>00, <2>0, <3>1 DEF SlotInv
    <3>5. SlotsAccountedFor'
      BY <1>0, <1>00, <2>0, <3>1 DEF SlotInv, SlotsAccountedFor
    <3> QED
      BY <3>2, <3>3, <3>4, <3>5 DEF SlotInv
  <2>5. NoIdleRoom'
    <3>1. ASSUME phase = "up", NEW d \in queue PROVE ~CanAllocate(pool', d)
      <4>1. d \in Calls /\ ~CanAllocate(pool, d)
        BY <1>00, <3>1 DEF TypeOK, NoIdleRoom
      <4>2. ~CanAllocate(Grant(pool, {}), d)
        <5>1. /\ OfTenant({}, TenantOf[d]) = {} /\ OfAgent({}, AgentOf[d]) = {}
              /\ TenantOf[d] \in Tenants /\ AgentOf[d] \in Agents
          BY <4>1, ConfigType DEF OfTenant, OfAgent
        <5>a. {} \in SUBSET Calls
          OBVIOUS
        <5>b. /\ Cardinality(OfTenant({}, TenantOf[d])) = 0
              /\ Cardinality(OfAgent({}, AgentOf[d])) = 0
          BY <5>1, FS_EmptySet
        <5>c. /\ Grant(pool, {}).slots = pool.slots \cup {}
              /\ \A t \in Tenants :
                   Grant(pool, {}).tenants[t] = pool.tenants[t] + Cardinality(OfTenant({}, t))
              /\ \A a \in Agents :
                   Grant(pool, {}).agents[a] = pool.agents[a] + Cardinality(OfAgent({}, a))
          BY <1>00, <5>a, GrantPool
        <5>3. pool.tenants[TenantOf[d]] \in Nat /\ pool.agents[AgentOf[d]] \in Nat
          BY <1>00, <5>1 DEF Pool
        <5>2. /\ Grant(pool, {}).slots = pool.slots
              /\ Grant(pool, {}).tenants[TenantOf[d]] = pool.tenants[TenantOf[d]]
              /\ Grant(pool, {}).agents[AgentOf[d]] = pool.agents[AgentOf[d]]
          BY <5>1, <5>b, <5>c, <5>3
        <5> QED
          BY <4>1, <5>2 DEF CanAllocate
      <4>3. {} \in SUBSET {c}
        OBVIOUS
      <4> QED
        BY <1>00, <1>2, <2>0, <4>1, <4>2, <4>3, MoreIsNoRoom
    <3> QED
      BY <1>0, <1>2, <3>1 DEF NoIdleRoom, CanAllocate
  <2>6. Orderly
    BY <1>0, <1>00, <2>0 DEF Orderly
  <2> QED
    BY <2>1, <2>2, <2>3, <2>4, <2>5, <2>6 DEF IInv
<1>3. CASE /\ phase = "up"
           /\ ~CanAllocate(pool, c)
           /\ req' = [req EXCEPT ![c] = "queued"]
           /\ queue' = queue \cup {c}
           /\ arrival' = [arrival EXCEPT ![c] = Cardinality({d \in Calls : arrival[d] # 0}) + 1]
           /\ UNCHANGED pool
  <2>0. /\ Arrived \in SUBSET Calls /\ Cardinality(Arrived) \in Nat
        /\ arrival' = [arrival EXCEPT ![c] = Cardinality(Arrived) + 1]
    BY <1>3, SizesAreNumbers DEF Arrived
  <2>1. TypeOK'
    BY <1>0, <1>00, <1>3, <2>0 DEF TypeOK
  <2>2. PoolInv'
    BY <1>00, <1>3 DEF PoolInv, Counted, WithinLimits
  <2>3. QueueInv'
    <3>a. \A d \in Calls : arrival'[d] = IF d = c THEN Cardinality(Arrived) + 1 ELSE arrival[d]
      BY <1>00, <2>0
    <3>b. Cardinality(Arrived) + 1 # 0
      BY <2>0
    <3>1. Arrived' = Arrived \cup {c} /\ c \notin Arrived
      <4>1. c \notin Arrived
        BY <1>0 DEF Arrived
      <4>2. \A d \in Calls : arrival'[d] # 0 <=> d = c \/ arrival[d] # 0
        BY <3>a, <3>b
      <4> QED
        BY <4>1, <4>2 DEF Arrived
    <3>2. Cardinality(Arrived') = Cardinality(Arrived) + 1
      BY <2>0, <3>1, SizesAreNumbers, FS_AddElement
    <3>3. \A d \in Calls : arrival[d] \in Nat /\ arrival[d] <= Cardinality(Arrived)
      BY <1>00 DEF QueueInv
    <3>4. \A d \in Calls : arrival'[d] = IF d = c THEN Cardinality(Arrived) + 1 ELSE arrival[d]
      BY <1>00, <2>0
    <3>5. \A d \in Calls : /\ d \in queue' <=> req'[d] = "queued"
                           /\ req'[d] = "idle" => arrival'[d] = 0
      BY <1>00, <1>3, <3>4 DEF QueueInv
    <3>6. \A d \in queue' : arrival'[d] # 0
      BY <1>00, <1>3, <2>0, <3>4 DEF QueueInv, TypeOK
    <3>7. \A d \in Calls : arrival'[d] <= Cardinality(Arrived')
      BY <2>0, <3>2, <3>3, <3>4
    <3>8. \A d, e \in Calls : arrival'[d] = arrival'[e] /\ arrival'[d] # 0 => d = e
      BY <1>00, <2>0, <3>3, <3>4 DEF QueueInv
    <3> QED
      BY <3>5, <3>6, <3>7, <3>8 DEF QueueInv
  <2>4. SlotInv'
    BY <1>0, <1>00, <1>3 DEF SlotInv, SlotsAccountedFor
  <2>5. NoIdleRoom'
    BY <1>0, <1>00, <1>3 DEF NoIdleRoom, CanAllocate
  <2>6. Orderly
    BY <1>00, <1>3 DEF Orderly
  <2> QED
    BY <2>1, <2>2, <2>3, <2>4, <2>5, <2>6 DEF IInv
<1> QED
  BY <1>1, <1>2, <1>3 DEF CreateRuntime

(* The end of an instance serves the queue if a slot comes free.           *)
LEMMA EndStep ==
  ASSUME IInv, NEW c \in Calls, End(c), UNCHANGED <<arrival, phase>>
  PROVE  /\ req' \in [Calls -> {"idle", "queued", "granted", "created", "failed"}]
         /\ inst' \in [Calls -> {"none", "READY", "PAUSED", "TERMINATED"}]
         /\ pool' \in Pool
         /\ queue' \in SUBSET Calls
         /\ runtimes' \in SUBSET Calls
         /\ PoolInv' /\ QueueInv' /\ SlotInv' /\ NoIdleRoom' /\ Orderly
<1>0. /\ TypeOK /\ PoolInv /\ QueueInv /\ SlotInv /\ NoIdleRoom
      /\ pool \in Pool /\ pool.slots \in SUBSET Calls /\ pool.slots \cap queue = {}
      /\ req \in [Calls -> {"idle", "queued", "granted", "created", "failed"}]
      /\ queue \in SUBSET Calls /\ runtimes \in SUBSET Calls
  BY SlotsAreNotQueued DEF IInv, TypeOK, Pool
<1>1. /\ inst' \in [Calls -> {"none", "READY", "PAUSED", "TERMINATED"}]
      /\ runtimes' = runtimes \ {c}
      /\ UNCHANGED <<arrival, phase>>
  BY <1>0 DEF End, TypeOK
<1>2. CASE c \in runtimes /\ c \in pool.slots
  <2> DEFINE p == Release(pool, {c})
  <2>1. /\ p \in Pool /\ p.slots = pool.slots \ {c} /\ Counted(p) /\ WithinLimits(p)
    BY <1>0, <1>2, ReleasePool DEF PoolInv
  <2>2. ProcessQueue(p)
    BY <1>2 DEF End
  <2>3. p.slots \cap queue = {}
    BY <1>0, <2>1
  <2> HIDE DEF p
  <2>4. PICK G \in SUBSET queue :
           /\ pool' \in Pool /\ Counted(pool') /\ WithinLimits(pool')
           /\ pool'.slots = p.slots \cup G
           /\ queue' = queue \ G
           /\ req' = [d \in Calls |-> IF d \in G THEN "granted" ELSE req[d]]
           /\ phase = "up" => \A d \in queue \ G : ~CanAllocate(pool', d)
           /\ \A b \in queue \ G, d \in G : Before(b, d) => Overtaken(pool', b)
    BY <1>0, <2>1, <2>2, <2>3, Processed
  <2>5. \A d \in Calls : req'[d] = IF d \in G THEN "granted" ELSE req[d]
    BY <2>4
  <2>6. req' \in [Calls -> {"idle", "queued", "granted", "created", "failed"}]
    BY <1>0, <2>4
  <2>7. PoolInv'
    BY <2>4 DEF PoolInv, Counted, WithinLimits
  <2>8. QueueInv'
    <3>1. Arrived' = Arrived
      BY <1>1 DEF Arrived
    <3>2. \A d \in Calls : d \in queue' <=> req'[d] = "queued"
      BY <1>0, <2>4, <2>5 DEF QueueInv
    <3>3. \A d \in Calls : req'[d] = "idle" => req[d] = "idle"
      BY <2>5
    <3> QED
      BY <1>0, <1>1, <2>4, <3>1, <3>2, <3>3 DEF QueueInv
  <2>9. SlotInv'
    <3>1. pool'.slots = (pool.slots \ {c}) \cup G /\ G \in SUBSET Calls
      BY <1>0, <2>1, <2>4
    <3>2. \A d \in G : req[d] = "queued" /\ d \notin runtimes
      BY <1>0 DEF QueueInv, SlotInv
    <3>3. req[c] = "created" /\ c \notin G
      BY <1>0, <1>2, <3>2 DEF SlotInv
    <3>4. \A d \in runtimes' : req'[d] = "created"
      BY <1>0, <1>1, <2>5, <3>2 DEF SlotInv
    <3>5. \A d \in pool'.slots : req'[d] \in {"granted", "created"}
      BY <1>0, <2>5, <3>1 DEF SlotInv
    <3>6. \A d \in Calls : req'[d] = "granted" <=> d \in G \/ req[d] = "granted"
      BY <2>5
    <3>7. \A d \in Calls : req'[d] = "granted" => d \in pool'.slots
      BY <1>0, <3>1, <3>3, <3>6 DEF SlotInv
    <3>8. SlotsAccountedFor'
      <4> SUFFICES ASSUME phase # "down"
                   PROVE  pool'.slots = runtimes' \cup {d \in Calls : req'[d] = "granted"}
        BY <1>1 DEF SlotsAccountedFor
      <4>1. pool.slots = runtimes \cup {d \in Calls : req[d] = "granted"}
        BY <1>0 DEF SlotInv, SlotsAccountedFor
      <4> QED
        BY <1>1, <3>1, <3>3, <3>6, <4>1
    <3> QED
      BY <3>4, <3>5, <3>7, <3>8 DEF SlotInv
  <2>10. NoIdleRoom'
    BY <1>1, <2>4 DEF NoIdleRoom, CanAllocate
  <2>11. Orderly
    <3> SUFFICES ASSUME NEW b \in queue, NEW d \in queue, Before(b, d),
                        d \in pool'.slots, b \in queue'
                 PROVE  Overtaken(pool', b)
      BY DEF Orderly
    <3>1. d \in G /\ b \in queue \ G
      BY <1>0, <2>1, <2>4
    <3> QED
      BY <2>4, <3>1
  <2> QED
    BY <1>0, <1>1, <2>4, <2>6, <2>7, <2>8, <2>9, <2>10, <2>11
<1>3. CASE ~(c \in runtimes /\ c \in pool.slots)
  <2>1. UNCHANGED <<pool, queue, req, arrival, phase>>
    BY <1>1, <1>3 DEF End
  <2>2. PoolInv'
    BY <1>0, <2>1 DEF PoolInv, Counted, WithinLimits
  <2>3. QueueInv'
    BY <1>0, <2>1 DEF QueueInv, Arrived
  <2>4. SlotInv'
    BY <1>0, <1>1, <1>3, <2>1 DEF SlotInv, SlotsAccountedFor
  <2>5. NoIdleRoom'
    BY <1>0, <2>1 DEF NoIdleRoom, CanAllocate
  <2>6. Orderly
    BY <1>0, <2>1 DEF Orderly
  <2> QED
    BY <1>0, <1>1, <2>1, <2>2, <2>3, <2>4, <2>5, <2>6
<1> QED
  BY <1>2, <1>3

LEMMA TimeoutStep ==
  ASSUME IInv, NEW c \in Calls, RequestTimeout(c)
  PROVE  IInv' /\ Orderly
<1>0. /\ TypeOK /\ PoolInv /\ QueueInv /\ SlotInv /\ NoIdleRoom
      /\ pool.slots \cap queue = {}
      /\ req \in [Calls -> {"idle", "queued", "granted", "created", "failed"}]
  BY SlotsAreNotQueued DEF IInv, TypeOK
<1>1. /\ c \in queue /\ req[c] = "queued"
      /\ queue' = queue \ {c}
      /\ req' = [req EXCEPT ![c] = "failed"]
      /\ UNCHANGED <<inst, pool, arrival, runtimes, killing, phase, attempts, recovering>>
  BY <1>0 DEF RequestTimeout, QueueInv, instanceVars
<1>2. \A d \in Calls : req'[d] = IF d = c THEN "failed" ELSE req[d]
  BY <1>0, <1>1
<1>3. TypeOK'
  BY <1>0, <1>1 DEF TypeOK
<1>4. PoolInv'
  BY <1>0, <1>1 DEF PoolInv, Counted, WithinLimits
<1>5. QueueInv'
  BY <1>0, <1>1, <1>2 DEF QueueInv, Arrived
<1>6. SlotInv'
  <2>1. \A d \in Calls : req'[d] = "granted" <=> req[d] = "granted"
    BY <1>1, <1>2
  <2>2. c \notin runtimes /\ c \notin pool.slots
    BY <1>0, <1>1 DEF SlotInv
  <2>3. runtimes \in SUBSET Calls /\ pool.slots \in SUBSET Calls
    BY <1>0 DEF TypeOK, Pool
  <2> QED
    BY <1>0, <1>1, <1>2, <2>1, <2>2, <2>3 DEF SlotInv, SlotsAccountedFor
<1>7. NoIdleRoom'
  BY <1>0, <1>1 DEF NoIdleRoom, CanAllocate
<1>8. Orderly
  BY <1>0, <1>1 DEF Orderly
<1> QED
  BY <1>3, <1>4, <1>5, <1>6, <1>7, <1>8 DEF IInv

LEMMA RegisterStep ==
  ASSUME IInv, NEW c \in Calls, Register(c)
  PROVE  IInv' /\ Orderly
<1>0. /\ TypeOK /\ PoolInv /\ QueueInv /\ SlotInv /\ NoIdleRoom
      /\ pool.slots \cap queue = {}
      /\ req \in [Calls -> {"idle", "queued", "granted", "created", "failed"}]
  BY SlotsAreNotQueued DEF IInv, TypeOK
<1>1. /\ req[c] = "granted" /\ c \notin queue
      /\ req' = [req EXCEPT ![c] = "created"]
      /\ inst' = [inst EXCEPT ![c] = "READY"]
      /\ runtimes' = runtimes \cup {c}
      /\ UNCHANGED <<pool, queue, arrival, killing, phase, attempts, recovering>>
  BY <1>0 DEF Register, QueueInv, instanceVars
<1>2. \A d \in Calls : req'[d] = IF d = c THEN "created" ELSE req[d]
  BY <1>0, <1>1
<1>3. TypeOK'
  BY <1>0, <1>1 DEF TypeOK
<1>4. PoolInv'
  BY <1>0, <1>1 DEF PoolInv, Counted, WithinLimits
<1>5. QueueInv'
  BY <1>0, <1>1, <1>2 DEF QueueInv, Arrived
<1>6. SlotInv'
  <2>1. runtimes \in SUBSET Calls /\ pool.slots \in SUBSET Calls
    BY <1>0 DEF TypeOK, Pool
  <2>2. /\ \A d \in runtimes' : req'[d] = "created"
        /\ \A d \in pool.slots : req'[d] \in {"granted", "created"}
        /\ \A d \in Calls : req'[d] = "granted" => d \in pool.slots
    BY <1>0, <1>1, <1>2, <2>1 DEF SlotInv
  <2>3. SlotsAccountedFor'
    BY <1>0, <1>1, <1>2 DEF SlotInv, SlotsAccountedFor
  <2> QED
    BY <1>1, <2>2, <2>3 DEF SlotInv
<1>7. NoIdleRoom'
  BY <1>0, <1>1 DEF NoIdleRoom, CanAllocate
<1>8. Orderly
  BY <1>0, <1>1 DEF Orderly
<1> QED
  BY <1>3, <1>4, <1>5, <1>6, <1>7, <1>8 DEF IInv

LEMMA ShutdownStep ==
  ASSUME IInv, Shutdown
  PROVE  IInv' /\ Orderly
<1>0. /\ TypeOK /\ PoolInv /\ QueueInv /\ SlotInv /\ NoIdleRoom
      /\ pool \in Pool /\ pool.slots \cap queue = {}
  BY SlotsAreNotQueued DEF IInv, TypeOK
<1>1. /\ phase = "up" /\ phase' = "stopping"
      /\ inst' = [c \in Calls |-> IF c \in runtimes THEN "TERMINATED" ELSE inst[c]]
      /\ pool' = Release(pool, runtimes \cap pool.slots)
      /\ runtimes' = {}
      /\ UNCHANGED <<req, queue, arrival, killing, attempts, recovering>>
  BY DEF Shutdown, instanceVars
<1>2. /\ pool' \in Pool /\ pool'.slots = pool.slots \ (runtimes \cap pool.slots)
      /\ Counted(pool') /\ WithinLimits(pool')
  <2>1. runtimes \cap pool.slots \in SUBSET pool.slots
    OBVIOUS
  <2> QED
    BY <1>0, <1>1, <2>1, ReleasePool DEF PoolInv
<1>3. TypeOK'
  BY <1>0, <1>1, <1>2 DEF TypeOK
<1>4. PoolInv'
  BY <1>2 DEF PoolInv, Counted, WithinLimits
<1>5. QueueInv'
  BY <1>0, <1>1 DEF QueueInv, Arrived
<1>6. SlotInv'
  <2>1. pool.slots = runtimes \cup {c \in Calls : req[c] = "granted"}
    BY <1>0, <1>1 DEF SlotInv, SlotsAccountedFor
  <2>2. \A c \in runtimes : req[c] # "granted"
    BY <1>0 DEF SlotInv
  <2>3. pool'.slots = {c \in Calls : req[c] = "granted"}
    BY <1>2, <2>1, <2>2
  <2> QED
    BY <1>1, <2>3 DEF SlotInv, SlotsAccountedFor
<1>7. NoIdleRoom'
  BY <1>1 DEF NoIdleRoom
<1>8. Orderly
  BY <1>0, <1>1, <1>2 DEF Orderly
<1> QED
  BY <1>3, <1>4, <1>5, <1>6, <1>7, <1>8 DEF IInv

LEMMA ShutdownEndStep ==
  ASSUME IInv, ShutdownEnd
  PROVE  IInv' /\ Orderly
<1>0. /\ TypeOK /\ PoolInv /\ QueueInv /\ SlotInv
      /\ pool.slots \cap queue = {}
  BY SlotsAreNotQueued DEF IInv
<1>1. /\ phase' = "down" /\ runtimes' = {}
      /\ UNCHANGED <<req, inst, pool, queue, arrival, killing, attempts, recovering>>
  BY DEF ShutdownEnd, instanceVars
<1>2. TypeOK'
  BY <1>0, <1>1 DEF TypeOK
<1>3. PoolInv'
  BY <1>0, <1>1 DEF PoolInv, Counted, WithinLimits
<1>4. QueueInv'
  BY <1>0, <1>1 DEF QueueInv, Arrived
<1>5. SlotInv'
  BY <1>0, <1>1 DEF SlotInv, SlotsAccountedFor
<1>6. NoIdleRoom'
  BY <1>1 DEF NoIdleRoom
<1>7. Orderly
  BY <1>0, <1>1 DEF Orderly
<1> QED
  BY <1>2, <1>3, <1>4, <1>5, <1>6, <1>7 DEF IInv

LEMMA InvStep == IInv /\ [Next]_vars => IInv' /\ Orderly
<1> SUFFICES ASSUME IInv, [Next]_vars PROVE IInv' /\ Orderly
  OBVIOUS
<1>0. TypeOK
  BY DEF IInv
<1>1. ASSUME NEW c \in Calls, CreateRuntime(c) PROVE IInv' /\ Orderly
  BY <1>1, CreateStep
<1>2. ASSUME NEW c \in Calls, RequestTimeout(c) PROVE IInv' /\ Orderly
  BY <1>2, TimeoutStep
<1>3. ASSUME NEW c \in Calls, Register(c) PROVE IInv' /\ Orderly
  BY <1>3, RegisterStep
<1>4. ASSUME NEW c \in Calls, Terminate(c) PROVE IInv' /\ Orderly
  <2>1. End(c) /\ UNCHANGED <<arrival, phase>> /\ UNCHANGED <<killing, attempts, recovering>>
    BY <1>4 DEF Terminate, instanceVars
  <2>2. TypeOK'
    BY <1>0, <2>1, EndStep DEF TypeOK
  <2> QED
    BY <2>1, <2>2, EndStep DEF IInv
<1>5. ASSUME NEW c \in Calls, KillNext(c) PROVE IInv' /\ Orderly
  <2>1. /\ End(c) /\ UNCHANGED <<arrival, phase>> /\ UNCHANGED <<attempts, recovering>>
        /\ killing' = killing \ {c}
    BY <1>5 DEF KillNext, instanceVars
  <2>2. TypeOK'
    BY <1>0, <2>1, EndStep DEF TypeOK
  <2> QED
    BY <2>1, <2>2, EndStep DEF IInv
<1>6. ASSUME NEW c \in Calls, Pause(c) \/ Resume(c) PROVE IInv' /\ Orderly
  <2>1. TypeOK'
    BY <1>0, <1>6 DEF TypeOK, Pause, Resume, instanceVars
  <2>2. UNCHANGED <<req, pool, queue, arrival, runtimes, phase>>
    BY <1>6 DEF Pause, Resume
  <2> QED
    BY <2>1, <2>2, UnrelatedStep DEF IInv
<1>7. ASSUME NEW c \in Calls, Recover(c) PROVE IInv' /\ Orderly
  <2>1. attempts' \in [Calls -> 0..MaxRecoveries]
    <3>1. /\ attempts \in [Calls -> 0..MaxRecoveries] /\ attempts[c] \in 0..MaxRecoveries
          /\ attempts[c] < MaxRecoveries /\ MaxRecoveries \in Nat
      BY <1>0, <1>7, ConfigType DEF Recover, TypeOK
    <3>2. attempts[c] + 1 \in 0..MaxRecoveries
      BY <3>1
    <3>3. attempts' = [attempts EXCEPT ![c] = attempts[c] + 1]
      BY <1>7 DEF Recover
    <3> QED
      BY <3>1, <3>2, <3>3
  <2>2. TypeOK'
    BY <1>0, <1>7, <2>1 DEF TypeOK, Recover
  <2>3. UNCHANGED <<req, pool, queue, arrival, runtimes, phase>>
    BY <1>7 DEF Recover
  <2> QED
    BY <2>2, <2>3, UnrelatedStep DEF IInv
<1>8. ASSUME NEW c \in Calls, FinishRecovery(c) PROVE IInv' /\ Orderly
  <2>1. TypeOK'
    BY <1>0, <1>8 DEF TypeOK, FinishRecovery
  <2>2. UNCHANGED <<req, pool, queue, arrival, runtimes, phase>>
    BY <1>8 DEF FinishRecovery
  <2> QED
    BY <2>1, <2>2, UnrelatedStep DEF IInv
<1>9. ASSUME NEW T, EmergencyKillAll(T) PROVE IInv' /\ Orderly
  <2>1. TypeOK'
    BY <1>0, <1>9 DEF TypeOK, EmergencyKillAll, instanceVars
  <2>2. UNCHANGED <<req, pool, queue, arrival, runtimes, phase>>
    BY <1>9 DEF EmergencyKillAll
  <2> QED
    BY <2>1, <2>2, UnrelatedStep DEF IInv
<1>10. CASE UNCHANGED vars
  <2>1. TypeOK'
    BY <1>0, <1>10 DEF TypeOK, vars
  <2>2. UNCHANGED <<req, pool, queue, arrival, runtimes, phase>>
    BY <1>10 DEF vars
  <2> QED
    BY <2>1, <2>2, UnrelatedStep DEF IInv
<1> QED
  BY <1>1, <1>2, <1>3, <1>4, <1>5, <1>6, <1>7, <1>8, <1>9, <1>10,
     ShutdownStep, ShutdownEndStep DEF Next

-----------------------------------------------------------------------------
(***************************************************************************)
(* The theorems                                                            *)
(***************************************************************************)

LEMMA AlwaysInv == Spec => []IInv
<1>1. Init => IInv
  BY InitInv
<1>2. IInv /\ [Next]_vars => IInv'
  BY InvStep
<1> QED
  BY <1>1, <1>2, PTL DEF Spec

(* The variables of the manager, the allocator and the instances keep the  *)
(* types they are declared with, the counters never become negative.       *)
THEOREM TypeCorrect == Spec => []TypeOK
<1>1. IInv => TypeOK
  BY DEF IInv
<1> QED
  BY <1>1, AlwaysInv, PTL

(* Whatever the order of requests, ends, kills and timeouts, and however   *)
(* many requests one release serves, neither the runtimes of all nor those *)
(* of a tenant or of an agent exceed the limit that was given for them.    *)
THEOREM LimitsHold == Spec => []LimitsRespected
<1>1. IInv => LimitsRespected
  BY DEF IInv, PoolInv, Counted, WithinLimits, LimitsRespected
<1> QED
  BY <1>1, AlwaysInv, PTL

(* Until shutdown a request waits only while a limit keeps it waiting: a   *)
(* single pass over the queue at each release is enough, also when the     *)
(* requests that leave it differ in tenant, agent and priority.            *)
THEOREM NoRoomIsIdle == Spec => []NoIdleRoom
<1>1. IInv => NoIdleRoom
  BY DEF IInv
<1> QED
  BY <1>1, AlwaysInv, PTL

(* The slots in use are those of the registered runtimes and of the calls  *)
(* about to register one, so no way of ending a runtime leaks its slot.    *)
THEOREM NoSlotLeaks == Spec => []SlotsAccountedFor
<1>1. IInv => SlotsAccountedFor
  BY DEF IInv, SlotInv
<1> QED
  BY <1>1, AlwaysInv, PTL

(* The queue is served by priority and then in order of arrival, except    *)
(* for requests that their tenant's or agent's own limit holds back: the   *)
(* global limit alone never lets a later request pass an earlier one.      *)
THEOREM QueueInOrder == Spec => NoOvertaking
<1>1. IInv /\ [Next]_vars =>
        [\A c, d \in queue :
           Before(c, d) /\ d \in pool'.slots /\ c \in queue' =>
             \/ Reached(pool'.tenants[TenantOf[c]], MaxPerTenant)
             \/ Reached(pool'.agents[AgentOf[c]], MaxPerAgent)]_vars
  BY InvStep DEF Orderly, Overtaken
<1> QED
  BY <1>1, AlwaysInv, PTL DEF Spec, NoOvertaking
=============================================================================
