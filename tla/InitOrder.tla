----------------------------- MODULE InitOrder -----------------------------
(***************************************************************************)
(* The initialization planner of the TypeScript rack,                      *)
(* ts/src/core/order.ts: before/after declarations become hard edges, and  *)
(* Kahn's algorithm plans the ready node of least priority, then of least  *)
(* plugId; what can not be planned is reported as a cycle.                 *)
(*                                                                         *)
(* plugIds are integers in the role of their UTF-8 bytes: < is             *)
(* comparePlugIds().  The input is chosen in the initial state and one     *)
(* behaviour is one call of planOrder().                                   *)
(***************************************************************************)
EXTENDS Integers, Sequences, FiniteSets

CONSTANTS
    PlugId,     \* identities that may be pending
    Other,      \* further names a declaration may mention
    Initialized,\* initializedIds
    Decl        \* the declarations a plugin may make: before, after, priority

ASSUME InitOrderAssumption ==
    /\ PlugId \subseteq Int /\ IsFiniteSet(PlugId)
    /\ Other \subseteq Int /\ Initialized \subseteq Int
    /\ Decl \subseteq [before : SUBSET (PlugId \cup Other),
                       after : SUBSET (PlugId \cup Other), priority : Int]

VARIABLES
    pending,    \* the plugIds to plan
    decl,       \* their declarations
    pc,         \* where planOrder() is
    indegree,   \* edges into a node that are not consumed
    ready,      \* nodes without any
    plan,       \* the order so far
    walk,       \* extractCycle's walk
    result      \* the status thrown, "ok" for a plan

inputVars == <<pending, decl>>
vars == <<inputVars, pc, indegree, ready, plan, walk, result>>

Init ==
    /\ pending \in SUBSET PlugId
    /\ decl \in [pending -> Decl]
    /\ pc = "validate"
    /\ indegree = [p \in pending |-> 0]
    /\ ready = {}
    /\ plan = <<>>
    /\ walk = <<>>
    /\ result = "none"

-----------------------------------------------------------------------------
(* State functions                                                         *)

\* Hard edges, one for a pair however often and from whichever end declared.
Edge(p, q) ==
    /\ p \in pending /\ q \in pending
    /\ q \in decl[p].before \/ p \in decl[q].after

Into(q) == {p \in pending : Edge(p, q)}

\* A pair declared from both ends has one edge.  (mutants: two; `after` forgotten)
BeforeInto(q) == Cardinality({p \in pending : q \in decl[p].before})
DeclaredInto(q) ==
    Cardinality({p \in pending : q \in decl[p].before})
      + Cardinality({p \in pending : p \in decl[q].after})
EdgesInto(q) == Cardinality(Into(q))

Named == UNION {decl[p].before \cup decl[p].after : p \in pending}
Unknown == Named \ (pending \cup Initialized)
Conflicts == {p \in pending : decl[p].before \cap Initialized # {}}
Malformed ==
    \/ pending \cap Initialized # {}
    \/ \E p \in pending : p \in decl[p].before \cup decl[p].after

\* comesBefore(): priority, then plugId.  (mutant: the greater plugId)
GreaterId(p, q) ==
    \/ decl[p].priority < decl[q].priority
    \/ decl[p].priority = decl[q].priority /\ p > q
ComesBefore(p, q) ==
    \/ decl[p].priority < decl[q].priority
    \/ decl[p].priority = decl[q].priority /\ p < q

Planned == {plan[i] : i \in DOMAIN plan}

\* A consumed edge is taken off its target.  (mutant: the target is ready at once)
OneLess(q) == 0
Consumed(q) == indegree[q] - 1

Stuck == {q \in pending : indegree[q] # 0}

-----------------------------------------------------------------------------
(* planOrder()                                                             *)

Ends(r) == pc' = "done" /\ result' = r

\* validateIdentities(), then the tests at the end of collectEdges(): unknown
\* targets are reported before conflicts.
Refuse ==
    /\ pc = "validate"
    /\ \/ Malformed /\ Ends("invalid_argument")
       \/ ~Malformed /\ Unknown # {} /\ Ends("not_found")
       \/ ~Malformed /\ Unknown = {} /\ Conflicts # {} /\ Ends("invalid_state")
    /\ UNCHANGED <<inputVars, indegree, ready, plan, walk>>

CollectEdges ==
    /\ pc = "validate"
    /\ ~Malformed /\ Unknown = {} /\ Conflicts = {}
    /\ pc' = "schedule"
    /\ indegree' = [q \in pending |-> EdgesInto(q)]
    /\ ready' = {q \in pending : EdgesInto(q) = 0}
    /\ UNCHANGED <<inputVars, plan, walk, result>>

\* One round of Kahn's loop.
PlanNext(p) ==
    /\ pc = "schedule" /\ p \in ready
    /\ \A q \in ready \ {p} : ComesBefore(p, q)
    /\ plan' = Append(plan, p)
    /\ indegree' = [q \in pending |-> IF Edge(p, q) THEN Consumed(q) ELSE indegree[q]]
    /\ ready' = (ready \ {p}) \cup {q \in pending : Edge(p, q) /\ Consumed(q) = 0}
    /\ UNCHANGED <<inputVars, pc, walk, result>>

Return ==
    /\ pc = "schedule" /\ ready = {}
    /\ Len(plan) = Cardinality(pending)
    /\ Ends("ok")
    /\ UNCHANGED <<inputVars, indegree, ready, plan, walk>>

\* extractCycle(): from the least unplannable node ...
WalkBegins(p) ==
    /\ pc = "schedule" /\ ready = {}
    /\ Len(plan) # Cardinality(pending)
    /\ p \in Stuck /\ \A q \in Stuck : p <= q
    /\ pc' = "walk"
    /\ walk' = <<p>>
    /\ UNCHANGED <<inputVars, indegree, ready, plan, result>>

Onward == {q \in Stuck : Edge(walk[Len(walk)], q)}
Position(q) == CHOOSE i \in DOMAIN walk : walk[i] = q

\* ... to the least unplannable successor, until that was there before,
WalkOn(q) ==
    /\ pc = "walk"
    /\ q \in Onward /\ \A r \in Onward : q <= r
    /\ IF \E i \in DOMAIN walk : walk[i] = q
       THEN /\ walk' = SubSeq(walk, Position(q), Len(walk))
            /\ Ends("cycle")
       ELSE /\ walk' = Append(walk, q)
            /\ UNCHANGED <<pc, result>>
    /\ UNCHANGED <<inputVars, indegree, ready, plan>>

\* or until there is none: then the whole walk is reported.
WalkEnds ==
    /\ pc = "walk" /\ Onward = {}
    /\ Ends("cycle")
    /\ UNCHANGED <<inputVars, indegree, ready, plan, walk>>

Next ==
    \/ Refuse \/ CollectEdges \/ Return \/ WalkEnds
    \/ \E p \in pending : PlanNext(p) \/ WalkBegins(p) \/ WalkOn(p)

Spec == Init /\ [][Next]_vars

FairSpec == Spec /\ WF_vars(Next)

-----------------------------------------------------------------------------
(* Correctness properties                                                  *)

TypeOK ==
    /\ pending \subseteq PlugId /\ decl \in [pending -> Decl]
    /\ pc \in {"validate", "schedule", "walk", "done"}
    /\ indegree \in [pending -> Nat]
    /\ ready \subseteq pending
    /\ plan \in Seq(pending) /\ walk \in Seq(pending)
    /\ result \in {"none", "ok", "cycle", "invalid_argument", "not_found", "invalid_state"}

\* planOrder(): a plan that is returned has every pending plugin once, and each
\* after those that must come before it.
PlanRespectsEdges ==
    result = "ok" =>
        /\ Planned = pending
        /\ \A i, j \in DOMAIN plan :
             /\ plan[i] = plan[j] => i = j
             /\ Edge(plan[i], plan[j]) => i < j

\* The plan is in order of priority, then of plugId, but for hard edges: where a
\* plugin is behind one it outranks, one it had to wait for is between them.
Outranks(p, q) ==
    LET a == decl[p].priority  b == decl[q].priority
    IN  a < b \/ (a = b /\ p < q)

EarliestFirst ==
    \A i, j \in DOMAIN plan :
        (i < j /\ Outranks(plan[j], plan[i])) =>
            \E k \in i .. j - 1 : Edge(plan[k], plan[j])

\* A part of the graph that can not be planned: each node waits for another.
Cyclic(S) == S # {} /\ \A q \in S : \E p \in S : Edge(p, q)

\* schedule() throws 'cycle' for a graph that has one and for no other, however
\* often and from whichever end its edges are declared.
CycleIffCyclic ==
    /\ result = "cycle" => \E S \in SUBSET pending : Cyclic(S)
    /\ result = "ok" => \A S \in SUBSET pending : ~Cyclic(S)

\* planOrder() returns or throws.
Terminates == <>(pc = "done")

-----------------------------------------------------------------------------
(* What the documentation says and the code does not do                    *)

\* order.ts: "detail.cycle holds the plug ids on the cycle in edge direction".
CycleIsReal ==
    result = "cycle" =>
        \A i \in DOMAIN walk : Edge(walk[i], walk[IF i = Len(walk) THEN 1 ELSE i + 1])
=============================================================================
