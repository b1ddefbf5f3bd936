-------------------------- MODULE InitOrderProofs --------------------------
(***************************************************************************)
(* Proofs about the initialization planner, for every set of plugins,      *)
(* every graph of declarations and every priority.                         *)
(***************************************************************************)
EXTENDS InitOrder, FiniteSetTheorems, TLAPS

USE InitOrderAssumption

\* Kahn's loop has begun: the counters are set.
Scheduling == pc \in {"schedule", "walk"} \/ result \in {"ok", "cycle"}

\* A counter counts the predecessors that are not planned, and a node is ready
\* when it has none and is not planned itself.
Counted ==
    Scheduling =>
        /\ \A q \in pending : indegree[q] = Cardinality(Into(q) \ Planned)
        /\ ready = {q \in pending \ Planned : Into(q) \subseteq Planned}

\* The plan: no plugin twice, every planned one after all it waits for.
NoneTwice ==
    /\ \A i, j \in DOMAIN plan : plan[i] = plan[j] => i = j
    /\ Cardinality(Planned) = Len(plan)

InOrder ==
    /\ \A q \in Planned : Into(q) \subseteq Planned
    /\ \A i, j \in DOMAIN plan : Edge(plan[i], plan[j]) => i < j

Acyclic == \A S \in SUBSET Planned : ~Cyclic(S)

\* What is not planned and outranks a planned plugin had to wait when that one
\* was planned.
Waited ==
    \A i \in DOMAIN plan : \A q \in pending \ Planned :
        Outranks(q, plan[i]) => \E r \in Into(q) : \A k \in 1 .. i - 1 : plan[k] # r

\* What the end and the walk know of the loop.
Halted ==
    /\ pc \in {"validate", "schedule", "walk"} => result = "none"
    /\ pc = "validate" => plan = <<>>
    /\ (pc = "walk" \/ result = "cycle") => ready = {} /\ Planned # pending
    /\ pc = "walk" => walk # <<>>
    /\ result = "ok" => Planned = pending
    /\ ~Scheduling => plan = <<>>

IInv ==
    /\ TypeOK /\ Counted /\ NoneTwice /\ InOrder /\ Acyclic /\ Waited
    /\ EarliestFirst /\ Halted

-----------------------------------------------------------------------------
(* Facts about the state functions                                         *)

\* The pending plugins are finitely many, and so are all sets of them.
LEMMA Finite ==
    ASSUME pending \subseteq PlugId
    PROVE  /\ IsFiniteSet(pending)
           /\ \A S \in SUBSET pending : IsFiniteSet(S) /\ Cardinality(S) \in Nat
  <1>1. IsFiniteSet(pending)
    BY FS_Subset
  <1> QED
    BY <1>1, FS_Subset, FS_CardinalityType

\* A declaration's priority is an integer.
LEMMA Priorities ==
    ASSUME decl \in [pending -> Decl], NEW p \in pending
    PROVE  decl[p].priority \in Int
  <1>1. decl[p] \in [before : SUBSET (PlugId \cup Other),
                     after : SUBSET (PlugId \cup Other), priority : Int]
    OBVIOUS
  <1> QED
    BY <1>1

\* The choice of the loop excludes that another ready node outranks it.
LEMMA ChosenIsFirst ==
    ASSUME TypeOK, NEW p \in pending, NEW q \in pending, ComesBefore(p, q)
    PROVE  ~Outranks(q, p)
  <1>1. decl[p].priority \in Int /\ decl[q].priority \in Int
    BY Priorities DEF TypeOK
  <1>2. p \in Int /\ q \in Int
    BY DEF TypeOK
  <1> QED
    BY <1>1, <1>2 DEF ComesBefore, Outranks

\* Planning one more plugin adds it to the planned set, at the plan's end.
LEMMA OneMore ==
    ASSUME TypeOK, NEW p \in pending, plan' = Append(plan, p)
    PROVE  /\ Planned' = Planned \cup {p}
           /\ DOMAIN plan' = DOMAIN plan \cup {Len(plan) + 1}
           /\ Len(plan) \in Nat /\ Len(plan') = Len(plan) + 1
           /\ DOMAIN plan = 1 .. Len(plan)
           /\ plan'[Len(plan) + 1] = p
           /\ \A i \in DOMAIN plan : plan'[i] = plan[i]
           /\ plan' \in Seq(pending)
  <1>1. plan \in Seq(pending)
    BY DEF TypeOK
  <1>2. /\ DOMAIN plan' = DOMAIN plan \cup {Len(plan) + 1}
        /\ Len(plan) \in Nat /\ Len(plan') = Len(plan) + 1
        /\ DOMAIN plan = 1 .. Len(plan)
        /\ plan'[Len(plan) + 1] = p
        /\ \A i \in DOMAIN plan : plan'[i] = plan[i]
        /\ plan' \in Seq(pending)
    BY <1>1
  <1>3. Planned' = Planned \cup {p}
    <2>1. ASSUME NEW x \in Planned'
          PROVE  x \in Planned \cup {p}
      BY <1>2 DEF Planned
    <2>2. ASSUME NEW x \in Planned \cup {p}
          PROVE  x \in Planned'
      <3>1. CASE x = p
        BY <1>2, <3>1 DEF Planned
      <3>2. CASE x \in Planned
        <4>1. PICK i \in DOMAIN plan : plan[i] = x
          BY <3>2 DEF Planned
        <4>2. i \in DOMAIN plan' /\ plan'[i] = x
          BY <1>2, <4>1
        <4> QED
          BY <4>2 DEF Planned
      <3> QED
        BY <2>2, <3>1, <3>2
    <2> QED
      BY <2>1, <2>2
  <1> QED
    BY <1>2, <1>3

-----------------------------------------------------------------------------
(* Steps that leave the plan alone                                         *)

\* The graph is the input's.
LEMMA SameGraph ==
    ASSUME UNCHANGED inputVars
    PROVE  /\ \A p, q : Edge(p, q)' <=> Edge(p, q)
           /\ \A q : Into(q)' = Into(q)
           /\ \A p, q : Outranks(p, q)' <=> Outranks(p, q)
           /\ \A S : Cyclic(S)' <=> Cyclic(S)
  <1>1. pending' = pending /\ decl' = decl
    BY DEF inputVars
  <1>2. \A p, q : Edge(p, q)' <=> Edge(p, q)
    BY <1>1 DEF Edge
  <1>3. \A q : Into(q)' = Into(q)
    BY <1>1 DEF Into, Edge
  <1>4. \A p, q : Outranks(p, q)' <=> Outranks(p, q)
    BY <1>1 DEF Outranks
  <1>5. \A S : Cyclic(S)' <=> Cyclic(S)
    BY <1>2 DEF Cyclic
  <1> QED
    BY <1>2, <1>3, <1>4, <1>5

PlanFacts == NoneTwice /\ InOrder /\ Acyclic /\ Waited /\ EarliestFirst

\* What is said of the plan stays true while it stays as it is.
LEMMA PlanKept ==
    ASSUME PlanFacts, UNCHANGED inputVars, UNCHANGED plan
    PROVE  PlanFacts'
  <1>1. pending' = pending /\ Planned' = Planned
    BY DEF inputVars, Planned
  <1>2. NoneTwice'
    BY <1>1 DEF PlanFacts, NoneTwice
  <1>3. InOrder'
    BY <1>1, SameGraph DEF PlanFacts, InOrder
  <1>4. Acyclic'
    BY <1>1, SameGraph DEF PlanFacts, Acyclic
  <1>5. Waited'
    BY <1>1, SameGraph DEF PlanFacts, Waited
  <1>6. EarliestFirst'
    BY SameGraph DEF PlanFacts, EarliestFirst
  <1> QED
    BY <1>2, <1>3, <1>4, <1>5, <1>6 DEF PlanFacts

-----------------------------------------------------------------------------
(* The step that plans one more                                            *)

\* A ready node is not planned, waits for nothing, and stays behind what is
\* planned in every respect.
LEMMA ReadyNode ==
    ASSUME IInv, NEW p \in pending, PlanNext(p)
    PROVE  /\ p \notin Planned /\ Into(p) \subseteq Planned
           /\ ~Edge(p, p)
           /\ \A q \in Planned : ~Edge(p, q)
           /\ Scheduling
  <1>1. Scheduling
    BY DEF PlanNext, Scheduling
  <1>2. p \in ready
    BY DEF PlanNext
  <1>3. p \notin Planned /\ Into(p) \subseteq Planned
    BY <1>1, <1>2 DEF IInv, Counted
  <1>4. ~Edge(p, p)
    BY <1>3 DEF Into
  <1>5. ASSUME NEW q \in Planned, Edge(p, q)
        PROVE  FALSE
    <2>1. p \in Into(q)
      BY <1>5 DEF Into
    <2> QED
      BY <2>1, <1>3 DEF IInv, InOrder
  <1> QED
    BY <1>1, <1>3, <1>4, <1>5

\* The counters and the ready set after the step.
LEMMA CountedStep ==
    ASSUME IInv, NEW p \in pending, PlanNext(p)
    PROVE  Counted' /\ indegree' \in [pending -> Nat] /\ ready' \subseteq pending
  <1>1. plan' = Append(plan, p) /\ UNCHANGED inputVars /\ pending' = pending
    BY DEF PlanNext, inputVars
  <1>2. Planned' = Planned \cup {p}
    BY <1>1, OneMore DEF IInv
  <1>3. /\ \A q \in pending : indegree[q] = Cardinality(Into(q) \ Planned)
        /\ ready = {q \in pending \ Planned : Into(q) \subseteq Planned}
    BY ReadyNode DEF IInv, Counted
  <1>4. pending \subseteq PlugId
    BY DEF IInv, TypeOK
  <1>5. ASSUME NEW q \in pending, Edge(p, q)
        PROVE  /\ indegree[q] - 1 = Cardinality(Into(q) \ (Planned \cup {p}))
               /\ indegree[q] - 1 \in Nat
               /\ indegree[q] - 1 = 0 <=> Into(q) \subseteq Planned \cup {p}
    <2> DEFINE W == Into(q) \ Planned
    <2>1. W \subseteq pending /\ p \in W
      BY <1>5, ReadyNode DEF Into
    <2>2. IsFiniteSet(W) /\ Cardinality(W) \in Nat
      BY <1>4, <2>1, Finite
    <2>3. IsFiniteSet(W \ {p}) /\ Cardinality(W \ {p}) = Cardinality(W) - 1
      BY <2>1, <2>2, FS_RemoveElement
    <2>4. Cardinality(W \ {p}) \in Nat
      BY <2>3, FS_CardinalityType
    <2>5. W \ {p} = Into(q) \ (Planned \cup {p})
      OBVIOUS
    <2>6. Cardinality(W \ {p}) = 0 <=> W \ {p} = {}
      BY <2>3, FS_EmptySet
    <2> HIDE DEF W
    <2>7. indegree[q] = Cardinality(W)
      BY <1>3 DEF W
    <2>8. W \ {p} = {} <=> Into(q) \subseteq Planned \cup {p}
      BY <2>5
    <2> QED
      BY <2>3, <2>4, <2>5, <2>6, <2>7, <2>8
  <1>6. ASSUME NEW q \in pending, ~Edge(p, q)
        PROVE  Into(q) \ (Planned \cup {p}) = Into(q) \ Planned
    BY <1>6 DEF Into
  <1>7. \A q \in pending : indegree'[q] = Cardinality(Into(q) \ (Planned \cup {p}))
    BY <1>3, <1>5, <1>6 DEF PlanNext, Consumed
  <1>8. indegree' \in [pending -> Nat]
    BY <1>5 DEF PlanNext, Consumed, IInv, TypeOK
  <1>9. ready' = {q \in pending \ (Planned \cup {p}) : Into(q) \subseteq Planned \cup {p}}
    <2>1. ready' = (ready \ {p}) \cup {q \in pending : Edge(p, q) /\ indegree[q] - 1 = 0}
      BY DEF PlanNext, Consumed
    <2>2. \A q \in pending : Edge(p, q) => q \notin Planned \cup {p}
      BY ReadyNode
    <2>3. ASSUME NEW q \in pending, ~Edge(p, q)
          PROVE  Into(q) \subseteq Planned \cup {p} <=> Into(q) \subseteq Planned
      BY <1>6, <2>3
    <2>4. \A q \in ready : q \in pending /\ ~Edge(p, q)
      <3>1. ASSUME NEW q \in ready, Edge(p, q)
            PROVE  FALSE
        BY <3>1, <1>3, ReadyNode DEF Into
      <3> QED
        BY <3>1, <1>3
    <2> QED
      BY <2>1, <2>2, <2>3, <2>4, <1>3, <1>5
  <1>10. Counted'
    BY <1>1, <1>2, <1>7, <1>9, SameGraph DEF Counted
  <1> QED
    BY <1>8, <1>9, <1>10

\* No plugin twice, and none before what it waits for.
LEMMA OrderStep ==
    ASSUME IInv, NEW p \in pending, PlanNext(p)
    PROVE  NoneTwice' /\ InOrder'
  <1>1. plan' = Append(plan, p) /\ UNCHANGED inputVars
    BY DEF PlanNext
  <1> DEFINE n == Len(plan)
  <1>2. /\ Planned' = Planned \cup {p}
        /\ DOMAIN plan' = DOMAIN plan \cup {n + 1}
        /\ n \in Nat /\ Len(plan') = n + 1
        /\ DOMAIN plan = 1 .. n
        /\ plan'[n + 1] = p
        /\ \A i \in DOMAIN plan : plan'[i] = plan[i]
    BY <1>1, OneMore DEF IInv
  <1>3. \A i \in DOMAIN plan : plan[i] \in Planned /\ plan[i] # p
    BY ReadyNode DEF Planned
  <1> HIDE DEF n
  <1>4. NoneTwice'
    <2>1. \A i, j \in DOMAIN plan' : plan'[i] = plan'[j] => i = j
      BY <1>2, <1>3 DEF IInv, NoneTwice
    <2>2. Planned \subseteq pending
      BY DEF IInv, TypeOK, Planned
    <2>3. IsFiniteSet(Planned)
      BY <2>2, Finite DEF IInv, TypeOK
    <2>4. Cardinality(Planned \cup {p}) = Cardinality(Planned) + 1
      BY <2>3, FS_AddElement, ReadyNode
    <2>5. Cardinality(Planned) = n
      BY DEF IInv, NoneTwice, n
    <2> QED
      BY <1>2, <2>1, <2>4, <2>5 DEF NoneTwice
  <1>5. InOrder'
    <2>1. \A q \in Planned \cup {p} : Into(q) \subseteq Planned \cup {p}
      BY ReadyNode DEF IInv, InOrder
    <2>2. \A i, j \in DOMAIN plan' : Edge(plan'[i], plan'[j]) => i < j
      <3> SUFFICES ASSUME NEW i \in DOMAIN plan', NEW j \in DOMAIN plan',
                          Edge(plan'[i], plan'[j])
                   PROVE  i < j
        OBVIOUS
      <3>1. CASE i \in DOMAIN plan /\ j \in DOMAIN plan
        BY <3>1, <1>2 DEF IInv, InOrder
      <3>2. CASE i \in DOMAIN plan /\ j = n + 1
        BY <3>2, <1>2
      <3>3. CASE i = n + 1 /\ j \in DOMAIN plan
        BY <3>3, <1>2, <1>3, ReadyNode
      <3>4. CASE i = n + 1 /\ j = n + 1
        BY <3>4, <1>2, ReadyNode
      <3> QED
        BY <1>2, <3>1, <3>2, <3>3, <3>4
    <2> QED
      BY <1>1, <1>2, <2>1, <2>2, SameGraph DEF InOrder
  <1> QED
    BY <1>4, <1>5

\* A node that only waited for planned ones closes no cycle among them.
LEMMA AcyclicStep ==
    ASSUME IInv, NEW p \in pending, PlanNext(p)
    PROVE  Acyclic'
  <1>1. plan' = Append(plan, p) /\ UNCHANGED inputVars
    BY DEF PlanNext
  <1>2. Planned' = Planned \cup {p}
    BY <1>1, OneMore DEF IInv
  <1>3. ASSUME NEW S \in SUBSET (Planned \cup {p}), Cyclic(S)
        PROVE  FALSE
    <2>1. \A q \in S : \E r \in S : Edge(r, q)
      BY <1>3 DEF Cyclic
    <2>2. \A r, q : Edge(r, q) => r \in Into(q)
      BY DEF Into, Edge
    <2>3. \A q \in S \ {p} : \E r \in S \ {p} : Edge(r, q)
      BY <2>1, <2>2, ReadyNode
    <2>4. p \in S => \E r \in S \ {p} : Edge(r, p)
      BY <2>1, ReadyNode
    <2>5. S \ {p} # {}
      BY <1>3, <2>4 DEF Cyclic
    <2>6. Cyclic(S \ {p})
      BY <2>3, <2>5 DEF Cyclic
    <2> QED
      BY <2>6 DEF IInv, Acyclic
  <1> QED
    BY <1>1, <1>2, <1>3, SameGraph DEF Acyclic

\* What the chosen node leaves behind had to wait, and so had what it passed.
LEMMA FirstStep ==
    ASSUME IInv, NEW p \in pending, PlanNext(p)
    PROVE  Waited' /\ EarliestFirst'
  <1>1. plan' = Append(plan, p) /\ UNCHANGED inputVars /\ pending' = pending
    BY DEF PlanNext, inputVars
  <1> DEFINE n == Len(plan)
  <1>2. /\ Planned' = Planned \cup {p}
        /\ DOMAIN plan' = DOMAIN plan \cup {n + 1}
        /\ n \in Nat
        /\ DOMAIN plan = 1 .. n
        /\ plan'[n + 1] = p
        /\ \A i \in DOMAIN plan : plan'[i] = plan[i]
    BY <1>1, OneMore DEF IInv
  <1> HIDE DEF n
  <1>3. ASSUME NEW q \in pending \ (Planned \cup {p}), Outranks(q, p)
        PROVE  \E r \in Into(q) : r \notin Planned
    <2>1. q \notin ready
      BY <1>3, ChosenIsFirst DEF IInv, PlanNext
    <2> QED
      BY <2>1, ReadyNode DEF IInv, Counted
  <1>4. ASSUME NEW i \in DOMAIN plan', NEW q \in pending \ (Planned \cup {p}),
               Outranks(q, plan'[i])
        PROVE  \E r \in Into(q) : \A k \in 1 .. i - 1 : plan'[k] # r
    <2>1. CASE i \in DOMAIN plan
      <3>1. PICK r \in Into(q) : \A k \in 1 .. i - 1 : plan[k] # r
        BY <1>4, <2>1, <1>2 DEF IInv, Waited
      <3>2. \A k \in 1 .. i - 1 : k \in DOMAIN plan
        BY <1>2, <2>1
      <3> QED
        BY <3>1, <3>2, <1>2
    <2>2. CASE i = n + 1
      <3>1. PICK r \in Into(q) : r \notin Planned
        BY <1>3, <1>4, <1>2, <2>2
      <3>2. \A k \in 1 .. i - 1 : k \in DOMAIN plan
        BY <1>2, <2>2
      <3>3. \A k \in DOMAIN plan : plan[k] # r
        BY <3>1 DEF Planned
      <3> QED
        BY <3>1, <3>2, <3>3, <1>2
    <2> QED
      BY <1>2, <2>1, <2>2
  <1>5. Waited'
    BY <1>1, <1>2, <1>4, SameGraph DEF Waited
  <1>6. ASSUME NEW i \in DOMAIN plan, Outranks(p, plan[i])
        PROVE  \E k \in i .. n : Edge(plan[k], p)
    <2>1. PICK r \in Into(p) : \A k \in 1 .. i - 1 : plan[k] # r
      BY <1>6, ReadyNode DEF IInv, Waited
    <2>2. r \in Planned
      BY <2>1, ReadyNode
    <2>3. PICK k \in DOMAIN plan : plan[k] = r
      BY <2>2 DEF Planned
    <2>4. k \in i .. n
      BY <2>1, <2>3, <1>2
    <2>5. Edge(plan[k], p)
      BY <2>1, <2>3 DEF Into
    <2> QED
      BY <2>4, <2>5
  <1>7. \A i, j \in DOMAIN plan' :
           (i < j /\ Outranks(plan'[j], plan'[i])) =>
               \E k \in i .. j - 1 : Edge(plan'[k], plan'[j])
    <2> SUFFICES ASSUME NEW i \in DOMAIN plan', NEW j \in DOMAIN plan',
                        i < j, Outranks(plan'[j], plan'[i])
                 PROVE  \E k \in i .. j - 1 : Edge(plan'[k], plan'[j])
      OBVIOUS
    <2>1. i \in DOMAIN plan /\ plan'[i] = plan[i]
      BY <1>2
    <2>2. CASE j \in DOMAIN plan
      <3>1. PICK k \in i .. j - 1 : Edge(plan[k], plan[j])
        BY <1>2, <2>1, <2>2 DEF IInv, EarliestFirst
      <3>2. k \in DOMAIN plan
        BY <1>2, <2>1, <2>2
      <3> QED
        BY <3>1, <3>2, <1>2, <2>2
    <2>3. CASE j = n + 1
      <3>1. PICK k \in i .. n : Edge(plan[k], p)
        BY <1>2, <1>6, <2>1, <2>3
      <3>2. k \in DOMAIN plan /\ k \in i .. j - 1
        BY <1>2, <2>1, <2>3
      <3> QED
        BY <3>1, <3>2, <1>2, <2>3
    <2> QED
      BY <1>2, <2>2, <2>3
  <1>8. EarliestFirst'
    BY <1>1, <1>7, SameGraph DEF EarliestFirst
  <1> QED
    BY <1>5, <1>8

-----------------------------------------------------------------------------
(* The inductive invariant                                                 *)

LEMMA InitIInv == Init => IInv
  <1> SUFFICES ASSUME Init
               PROVE  IInv
    OBVIOUS
  <1>1. Planned = {} /\ ~Scheduling /\ DOMAIN plan = {} /\ Len(plan) = 0
    BY DEF Init, Planned, Scheduling
  <1>2. TypeOK
    BY DEF Init, TypeOK
  <1>3. NoneTwice
    BY <1>1, FS_EmptySet DEF NoneTwice
  <1>4. Acyclic
    BY <1>1 DEF Acyclic, Cyclic
  <1>5. Counted /\ InOrder /\ Waited /\ EarliestFirst
    BY <1>1 DEF Counted, InOrder, Waited, EarliestFirst
  <1>6. Halted
    BY <1>1 DEF Halted, Init
  <1> QED
    BY <1>2, <1>3, <1>4, <1>5, <1>6 DEF IInv

\* A step that moves neither the plan nor the loop's counters keeps what is said of them.
LEMMA LoopKept ==
    ASSUME IInv, UNCHANGED <<inputVars, plan, indegree, ready>>, Scheduling' => Scheduling
    PROVE  PlanFacts' /\ Counted'
  <1>1. Planned' = Planned /\ pending' = pending
    BY DEF Planned, inputVars
  <1>2. PlanFacts'
    BY PlanKept DEF IInv, PlanFacts
  <1>3. Counted'
    BY <1>1, SameGraph DEF IInv, Counted
  <1> QED
    BY <1>2, <1>3

\* When the loop has nothing ready, the plan has all plugins exactly if it is as long.
LEMMA PlanLength ==
    ASSUME IInv
    PROVE  Len(plan) = Cardinality(pending) <=> Planned = pending
  <1>1. Planned \subseteq pending
    BY DEF IInv, TypeOK, Planned
  <1>2. IsFiniteSet(pending)
    BY Finite DEF IInv, TypeOK
  <1>3. Cardinality(Planned) = Len(plan)
    BY DEF IInv, NoneTwice
  <1> QED
    BY <1>1, <1>2, <1>3, FS_Subset

\* collectEdges() sets the counters.
LEMMA CollectStep ==
    ASSUME IInv, CollectEdges
    PROVE  IInv'
  <1>1. plan = <<>> /\ plan' = plan /\ UNCHANGED inputVars /\ result = "none" /\ result' = result
    BY DEF IInv, Halted, CollectEdges
  <1>2. Planned = {} /\ Planned' = {}
    BY <1>1 DEF Planned
  <1>3. pending' = pending /\ decl' = decl /\ pending \subseteq PlugId
    BY <1>1 DEF inputVars, IInv, TypeOK
  <1>4. \A q \in pending : EdgesInto(q) = Cardinality(Into(q) \ {}) /\ EdgesInto(q) \in Nat
    BY <1>3, Finite DEF EdgesInto, Into
  <1>5. \A q \in pending : EdgesInto(q) = 0 <=> Into(q) \subseteq {}
    <2> SUFFICES ASSUME NEW q \in pending
                 PROVE  EdgesInto(q) = 0 <=> Into(q) \subseteq {}
      OBVIOUS
    <2>1. IsFiniteSet(Into(q))
      BY <1>3, Finite DEF Into
    <2> QED
      BY <2>1, FS_EmptySet DEF EdgesInto
  <1>6. Counted'
    BY <1>1, <1>2, <1>3, <1>4, <1>5, SameGraph DEF Counted, CollectEdges
  <1>7. PlanFacts'
    BY <1>1, PlanKept DEF IInv, PlanFacts
  <1>8. TypeOK'
    BY <1>1, <1>3, <1>4 DEF IInv, TypeOK, CollectEdges
  <1>9. Halted' /\ Scheduling'
    BY <1>1 DEF Halted, CollectEdges, Scheduling
  <1> QED
    BY <1>6, <1>7, <1>8, <1>9 DEF IInv, PlanFacts

\* One round of the loop.
LEMMA PlanStep ==
    ASSUME IInv, NEW p \in pending, PlanNext(p)
    PROVE  IInv'
  <1>1. /\ plan' = Append(plan, p) /\ pc' = "schedule" /\ result' = "none"
        /\ UNCHANGED <<inputVars, walk>>
    BY DEF PlanNext, IInv, Halted
  <1>2. pending' = pending /\ decl' = decl
    BY <1>1 DEF inputVars
  <1>3. TypeOK'
    BY <1>1, <1>2, OneMore, CountedStep DEF IInv, TypeOK
  <1>4. Halted'
    BY <1>1 DEF Halted, Scheduling
  <1> QED
    BY <1>3, <1>4, CountedStep, OrderStep, AcyclicStep, FirstStep DEF IInv

LEMMA NextIInv == IInv /\ [Next]_vars => IInv'
  <1> SUFFICES ASSUME IInv, [Next]_vars
               PROVE  IInv'
    OBVIOUS
  <1>0. TypeOK /\ Halted
    BY DEF IInv
  <1>1. CASE Refuse
    <2>1. /\ result' \in {"invalid_argument", "not_found", "invalid_state"} /\ pc' = "done"
          /\ pc = "validate" /\ UNCHANGED <<inputVars, plan, indegree, ready, walk>>
      BY <1>1 DEF Refuse, Ends
    <2>2. ~Scheduling'
      BY <2>1 DEF Scheduling
    <2>3. PlanFacts' /\ Counted'
      BY <2>1, <2>2, LoopKept
    <2>4. TypeOK'
      BY <1>0, <2>1 DEF TypeOK, inputVars
    <2>5. Halted'
      BY <1>0, <2>1, <2>2 DEF Halted
    <2> QED
      BY <2>3, <2>4, <2>5 DEF IInv, PlanFacts
  <1>2. CASE CollectEdges
    BY <1>2, CollectStep
  <1>3. CASE Return
    <2>1. /\ result' = "ok" /\ pc' = "done" /\ pc = "schedule"
          /\ Len(plan) = Cardinality(pending)
          /\ UNCHANGED <<inputVars, plan, indegree, ready, walk>>
      BY <1>3 DEF Return, Ends
    <2>2. Scheduling /\ Scheduling'
      BY <2>1 DEF Scheduling
    <2>3. PlanFacts' /\ Counted'
      BY <2>1, <2>2, LoopKept
    <2>4. TypeOK'
      BY <1>0, <2>1 DEF TypeOK, inputVars
    <2>5. Planned' = pending'
      BY <2>1, PlanLength DEF Planned, inputVars
    <2>6. Halted'
      BY <2>1, <2>2, <2>5 DEF Halted
    <2> QED
      BY <2>3, <2>4, <2>6 DEF IInv, PlanFacts
  <1>4. CASE WalkEnds
    <2>1. /\ result' = "cycle" /\ pc' = "done" /\ pc = "walk"
          /\ UNCHANGED <<inputVars, plan, indegree, ready, walk>>
      BY <1>4 DEF WalkEnds, Ends
    <2>2. Scheduling /\ Scheduling'
      BY <2>1 DEF Scheduling
    <2>3. PlanFacts' /\ Counted'
      BY <2>1, <2>2, LoopKept
    <2>4. TypeOK'
      BY <1>0, <2>1 DEF TypeOK, inputVars
    <2>5. ready' = {} /\ Planned' # pending'
      BY <1>0, <2>1 DEF Halted, Planned, inputVars
    <2>6. Halted'
      BY <2>1, <2>2, <2>5 DEF Halted
    <2> QED
      BY <2>3, <2>4, <2>6 DEF IInv, PlanFacts
  <1>5. CASE \E p \in pending : PlanNext(p)
    BY <1>5, PlanStep
  <1>6. ASSUME NEW p \in pending, WalkBegins(p)
        PROVE  IInv'
    <2>1. /\ result' = result /\ result = "none" /\ pc' = "walk" /\ pc = "schedule"
          /\ ready = {} /\ Len(plan) # Cardinality(pending) /\ walk' = <<p>>
          /\ UNCHANGED <<inputVars, plan, indegree, ready>>
      BY <1>0, <1>6 DEF WalkBegins, Halted
    <2>2. Scheduling /\ Scheduling'
      BY <2>1 DEF Scheduling
    <2>3. PlanFacts' /\ Counted'
      BY <2>1, <2>2, LoopKept
    <2>4. TypeOK'
      BY <1>0, <2>1 DEF TypeOK, inputVars
    <2>5. Planned' # pending'
      BY <2>1, PlanLength DEF Planned, inputVars
    <2>6. Halted'
      BY <2>1, <2>2, <2>5 DEF Halted
    <2> QED
      BY <2>3, <2>4, <2>6 DEF IInv, PlanFacts
  <1>7. ASSUME NEW p \in pending, WalkOn(p)
        PROVE  IInv'
    <2>1. /\ pc = "walk" /\ result = "none" /\ walk # <<>> /\ ready = {} /\ Planned # pending
          /\ \/ pc' = "done" /\ result' = "cycle"
             \/ pc' = "walk" /\ result' = "none" /\ walk' = Append(walk, p)
          /\ UNCHANGED <<inputVars, plan, indegree, ready>>
      BY <1>0, <1>7 DEF WalkOn, Halted, Ends
    <2>2. Scheduling /\ Scheduling'
      BY <2>1 DEF Scheduling
    <2>3. PlanFacts' /\ Counted'
      BY <2>1, <2>2, LoopKept
    <2>4. walk' \in Seq(pending) /\ (walk' # <<>> \/ pc' # "walk")
      <3>1. CASE \E i \in DOMAIN walk : walk[i] = p
        <4>1. Position(p) \in DOMAIN walk
          BY <3>1 DEF Position
        <4>2. walk' = SubSeq(walk, Position(p), Len(walk)) /\ pc' = "done"
          BY <1>7, <3>1 DEF WalkOn, Ends
        <4>3. walk \in Seq(pending)
          BY <1>0 DEF TypeOK
        <4> HIDE DEF Position
        <4>4. \A i \in DOMAIN walk : SubSeq(walk, i, Len(walk)) \in Seq(pending)
          BY <4>3
        <4> QED
          BY <4>1, <4>2, <4>4
      <3>2. CASE ~\E i \in DOMAIN walk : walk[i] = p
        <4>1. walk' = Append(walk, p) /\ walk \in Seq(pending)
          BY <1>0, <1>7, <3>2 DEF WalkOn, TypeOK
        <4> QED
          BY <4>1
      <3> QED
        BY <3>1, <3>2
    <2>5. TypeOK'
      BY <1>0, <2>1, <2>4 DEF TypeOK, inputVars
    <2>6. ready' = {} /\ Planned' # pending'
      BY <2>1 DEF Planned, inputVars
    <2>7. Halted'
      BY <2>1, <2>2, <2>4, <2>6 DEF Halted
    <2> QED
      BY <2>3, <2>5, <2>7 DEF IInv, PlanFacts
  <1>8. CASE UNCHANGED vars
    <2>1. UNCHANGED <<inputVars, plan, indegree, ready, pc, walk, result>>
      BY <1>8 DEF vars
    <2>2. Scheduling' <=> Scheduling
      BY <2>1 DEF Scheduling
    <2>3. PlanFacts' /\ Counted'
      BY <2>1, <2>2, LoopKept
    <2>4. TypeOK'
      BY <1>0, <2>1 DEF TypeOK, inputVars
    <2>5. Halted'
      BY <1>0, <2>1, <2>2 DEF Halted, Planned, inputVars
    <2> QED
      BY <2>3, <2>4, <2>5 DEF IInv, PlanFacts
  <1> QED
    BY <1>1, <1>2, <1>3, <1>4, <1>5, <1>6, <1>7, <1>8 DEF Next

LEMMA Inductive == Spec => []IInv
  BY InitIInv, NextIInv, PTL DEF Spec

-----------------------------------------------------------------------------
(* Theorems                                                                *)

\* The planner's variables keep their types: the loop's counters never fall
\* below zero and only pending plugins are ready, planned or walked.
THEOREM TypeCorrect == Spec => []TypeOK
  <1>1. IInv => TypeOK
    BY DEF IInv
  <1> QED
    BY <1>1, Inductive, PTL

\* What planOrder() returns has every pending plugin once, and none before one
\* that has to come before it.
THEOREM PlanSound == Spec => []PlanRespectsEdges
  <1>1. IInv => PlanRespectsEdges
    BY DEF IInv, NoneTwice, InOrder, Halted, PlanRespectsEdges
  <1> QED
    BY <1>1, Inductive, PTL

\* Priority and plugId decide the order wherever no hard edge does.
THEOREM PriorityKept == Spec => []EarliestFirst
  <1>1. IInv => EarliestFirst
    BY DEF IInv
  <1> QED
    BY <1>1, Inductive, PTL

\* 'cycle' is thrown exactly for the graphs that have a cycle.
THEOREM CycleSound == Spec => []CycleIffCyclic
  <1>1. ASSUME IInv
        PROVE  CycleIffCyclic
    <2>1. ASSUME result = "cycle"
          PROVE  \E S \in SUBSET pending : Cyclic(S)
      <3> DEFINE S == pending \ Planned
      <3>1. ready = {} /\ Planned # pending /\ Planned \subseteq pending
        BY <1>1, <2>1 DEF IInv, Halted, TypeOK, Planned
      <3>2. S # {}
        BY <3>1
      <3>3. ASSUME NEW q \in S
            PROVE  \E p \in S : Edge(p, q)
        <4>1. ~(Into(q) \subseteq Planned)
          BY <1>1, <2>1, <3>1, <3>3 DEF IInv, Counted, Scheduling
        <4> QED
          BY <4>1 DEF Into
      <3>4. Cyclic(S)
        BY <3>2, <3>3 DEF Cyclic
      <3> QED
        BY <3>4
    <2>2. ASSUME result = "ok"
          PROVE  \A S \in SUBSET pending : ~Cyclic(S)
      BY <1>1, <2>2 DEF IInv, Halted, Acyclic
    <2> QED
      BY <2>1, <2>2 DEF CycleIffCyclic
  <1> QED
    BY <1>1, Inductive, PTL

=============================================================================
