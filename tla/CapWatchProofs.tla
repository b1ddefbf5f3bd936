--------------------------- MODULE CapWatchProofs ---------------------------
(***************************************************************************)
(* Proofs about the watchers of the capability registry: however their     *)
(* sinks nest and fail, each active watcher knows the table when all       *)
(* passes are over, and one that is inactive hears nothing.                *)
(***************************************************************************)
EXTENDS CapWatch, FiniteSetTheorems, SequenceTheorems, TLAPS

USE CapWatchAssumption

-----------------------------------------------------------------------------
(* Snapshots                                                               *)

Lower(p) == {q \in Registered : q < p}

LEMMA FewerIn ==
    ASSUME NEW T, IsFiniteSet(T), NEW S, S \subseteq T, NEW x \in T, x \notin S
    PROVE  Cardinality(S) \in Nat /\ Cardinality(T) \in Nat /\ Cardinality(S) < Cardinality(T)
  <1>1. IsFiniteSet(S) /\ Cardinality(S) <= Cardinality(T) /\ Cardinality(S) # Cardinality(T)
    BY FS_Subset
  <1>2. Cardinality(S) \in Nat /\ Cardinality(T) \in Nat
    BY <1>1, FS_CardinalityType
  <1> QED
    BY <1>1, <1>2

LEMMA FiniteRows ==
    /\ IsFiniteSet(Registered)
    /\ \A p \in Registered : IsFiniteSet(Lower(p))
  <1>1. IsFiniteSet(Registered)
    BY FS_Subset DEF Registered
  <1>2. \A p \in Registered : Lower(p) \in SUBSET Registered
    BY DEF Lower
  <1> QED
    BY <1>1, <1>2, FS_Subset

LEMMA LowerGrows ==
    ASSUME NEW p \in Registered, NEW q \in Registered, p < q
    PROVE  Cardinality(Lower(p)) < Cardinality(Lower(q))
  <1>1. IsFiniteSet(Lower(q))
    BY FiniteRows
  <1>2. \A x \in Registered : x \in Int
    BY DEF Registered
  <1>3. \A x \in Registered : x < p => x < q
    BY <1>2
  <1>4. Lower(p) \subseteq Lower(q) /\ p \in Lower(q) /\ p \notin Lower(p)
    BY <1>2, <1>3 DEF Lower
  <1> QED
    BY <1>1, <1>4, FewerIn

\* Row runs through the providers registered, each once.
LEMMA RowsSort ==
    /\ Cardinality(Registered) \in Nat
    /\ \A i \in 1 .. Cardinality(Registered) : Row(i) \in Registered
    /\ \A i, j \in 1 .. Cardinality(Registered) : Row(i) = Row(j) => i = j
    /\ \A p \in Registered : \E i \in 1 .. Cardinality(Registered) : Row(i) = p
  <1> DEFINE n == Cardinality(Registered)
             rank == [p \in Registered |-> Cardinality(Lower(p)) + 1]
  <1>1. IsFiniteSet(Registered) /\ n \in Nat
    BY FiniteRows, FS_CardinalityType
  <1>2. ASSUME NEW p \in Registered
        PROVE  Cardinality(Lower(p)) \in 0 .. n - 1
    <2>1. Lower(p) \subseteq Registered /\ p \notin Lower(p)
      BY DEF Lower, Registered
    <2>2. Cardinality(Lower(p)) \in Nat /\ Cardinality(Lower(p)) < n
      BY <1>1, <2>1, FewerIn
    <2> QED
      BY <1>1, <2>2
  <1>3. ASSUME NEW p \in Registered, NEW q \in Registered, rank[p] = rank[q]
        PROVE  p = q
    <2>1. p \in Int /\ q \in Int
      BY DEF Registered
    <2>2. Cardinality(Lower(p)) = Cardinality(Lower(q))
      BY <1>2, <1>3
    <2> QED
      BY <1>2, <2>1, <2>2, LowerGrows
  <1>4. rank \in Injection(Registered, 1 .. n)
    BY <1>1, <1>2, <1>3 DEF Injection, IsInjective
  <1>5. IsFiniteSet(1 .. n) /\ Cardinality(1 .. n) = n
    BY <1>1, FS_Interval
  <1>6. rank \in Surjection(Registered, 1 .. n)
    BY <1>4, <1>5, FS_Injection
  <1>7. \A i \in 1 .. n : \E p \in Registered : rank[p] = i
    BY <1>6 DEF Surjection
  <1>8. ASSUME NEW i \in 1 .. n
        PROVE  Row(i) \in Registered /\ rank[Row(i)] = i
    <2>1. PICK p \in Registered : rank[p] = i
      BY <1>7
    <2>2. Cardinality(Lower(p)) = i - 1
      BY <1>2, <2>1
    <2>3. Row(i) \in Registered /\ Cardinality(Lower(Row(i))) = i - 1
      BY <2>2 DEF Row, Lower
    <2> QED
      BY <2>3
  <1>9. ASSUME NEW p \in Registered
        PROVE  \E i \in 1 .. n : Row(i) = p
    <2>1. rank[p] \in 1 .. n
      BY <1>1, <1>2
    <2> QED
      BY <1>3, <1>8, <2>1
  <1> HIDE DEF rank
  <1> QED
    BY <1>1, <1>8, <1>9
-----------------------------------------------------------------------------
(* The invariant                                                           *)

Fact == [plugId : PlugId, generation : Nat \ {0}, available : BOOLEAN]
Item == [watch : Watch, fact : Fact]
Frame == [joins : 0 .. MaxWatch, at : Nat, work : Seq(Item)]

\* A pass inside a sink is at an item of its work.
Passing(f) == f \in Frame /\ f.at \in 1 .. Len(f.work)

Typed ==
    /\ table \in [PlugId -> Nat] /\ newest \in [PlugId -> Nat]
    /\ made \in 0 .. MaxWatch /\ active \subseteq 1 .. made
    /\ watchers \in Seq(1 .. made)
    /\ \A i, j \in 1 .. Len(watchers) : watchers[i] = watchers[j] => i = j
    /\ stack \in Seq(Frame) /\ \A k \in 1 .. Len(stack) : Passing(stack[k])
    /\ view \in [Watch -> [PlugId -> Nat]]

Listed(w) == \E i \in 1 .. Len(watchers) : watchers[i] = w

\* A pass of watch(): the snapshot is the table, and its new watcher, which nobody
\* else tells anything, knows of it what it was told.
Joining(f) ==
    /\ f.joins \in active /\ ~Listed(f.joins)
    /\ \A i \in 1 .. Len(f.work) :
         /\ f.work[i].watch = f.joins /\ f.work[i].fact.available
         /\ f.work[i].fact.generation = table[f.work[i].fact.plugId]
         /\ view[f.joins][f.work[i].fact.plugId] = (IF i <= f.at THEN table[f.work[i].fact.plugId] ELSE 0)
    /\ \A i, j \in 1 .. Len(f.work) : f.work[i].fact.plugId = f.work[j].fact.plugId => i = j
    /\ \A p \in PlugId :
         \/ table[p] = 0 /\ view[f.joins][p] = 0
         \/ \E i \in 1 .. Len(f.work) : f.work[i].fact.plugId = p

\* A pass of register() or withdraw(): one fact, which the table has, for watchers
\* of the list.
Telling(f) ==
    /\ \A i \in 1 .. Len(f.work) : Listed(f.work[i].watch) /\ f.work[i].fact = f.work[1].fact
    /\ \A i, j \in 1 .. Len(f.work) : f.work[i].watch = f.work[j].watch => i = j
    /\ LET fact == f.work[1].fact
       IN  table[fact.plugId] = IF fact.available THEN fact.generation ELSE 0

\* The table before the fact.
Former(fact) == [table EXCEPT ![fact.plugId] = IF fact.available THEN 0 ELSE fact.generation]

\* The pass f still has the fact to tell to w.
Waits(f, w) == f.joins = 0 /\ \E i \in 1 .. Len(f.work) : i > f.at /\ f.work[i].watch = w

\* A watcher of the list knows the table, or what it was before the fact it waits for.
Knows(w) ==
    /\ (\A k \in 1 .. Len(stack) : ~Waits(stack[k], w)) => view[w] = table
    /\ \A k \in 1 .. Len(stack) : Waits(stack[k], w) => view[w] = Former(stack[k].work[1].fact)

Passes ==
    \A k \in 1 .. Len(stack) :
        \/ stack[k].joins = 0 /\ k = 1 /\ Telling(stack[k])
        \/ stack[k].joins # 0 /\ Joining(stack[k])

OneEach == \A k, l \in 1 .. Len(stack) : stack[k].joins = stack[l].joins => k = l
Reached == \A w \in active : Listed(w) \/ \E k \in 1 .. Len(stack) : stack[k].joins = w
Informed == \A w \in active : Listed(w) => Knows(w)
Unborn == \A w \in Watch : w > made => view[w] = [p \in PlugId |-> 0]

WatchInv == Typed /\ Passes /\ OneEach /\ Reached /\ Informed /\ Unborn /\ puzzled = {}

-----------------------------------------------------------------------------
(* Passes that tell a fact                                                 *)

\* How register() and withdraw() begin and the loop goes on: f is the pass after its
\* position `after`, T the table there is now.
Untold(f, after, w) == \E i \in 1 .. Len(f.work) : i > after /\ f.work[i].watch = w
Before(T, fact) == [T EXCEPT ![fact.plugId] = IF fact.available THEN 0 ELSE fact.generation]
After(fact) == IF fact.available THEN fact.generation ELSE 0

TellsFrom(f, after, T) ==
    /\ f \in [joins : {0}, at : Nat, work : Seq(Item)] /\ after \in 0 .. Len(f.work)
    /\ T \in [PlugId -> Nat]
    /\ \A i \in 1 .. Len(f.work) : Listed(f.work[i].watch) /\ f.work[i].fact = f.work[1].fact
    /\ \A i, j \in 1 .. Len(f.work) : f.work[i].watch = f.work[j].watch => i = j
    /\ Len(f.work) > 0 => T[f.work[1].fact.plugId] = After(f.work[1].fact)
    /\ \A w \in active :
         /\ Listed(w)
         /\ Untold(f, after, w) => view[w] = Before(T, f.work[1].fact)
         /\ ~Untold(f, after, w) => view[w] = T

LEMMA TellingEnds ==
    ASSUME Typed, Unborn, puzzled = {}, NEW f, NEW after, TellsFrom(f, after, table'),
           newest' \in [PlugId -> Nat], UNCHANGED <<active, made, sinkVars, watchers>>,
           {i \in DOMAIN f.work : i > after /\ Hears(f.work[i].watch)} = {}, stack' = <<>>
    PROVE  WatchInv'
  <1>1. \A w : Listed(w)' <=> Listed(w)
    BY DEF Listed
  <1>2. Typed' /\ Passes' /\ OneEach' /\ Unborn' /\ puzzled' = {}
    <2>1. stack' \in Seq(Frame) /\ 1 .. Len(stack') = {}
      OBVIOUS
    <2>2. table' \in [PlugId -> Nat] /\ newest' \in [PlugId -> Nat]
      BY DEF TellsFrom
    <2>3. Typed'
      BY <2>1, <2>2 DEF Typed, sinkVars
    <2>4. Passes' /\ OneEach'
      BY <2>1 DEF Passes, OneEach
    <2> QED
      BY <2>3, <2>4 DEF Unborn, sinkVars
  <1>3. DOMAIN f.work = 1 .. Len(f.work)
    BY DEF TellsFrom
  <1>4. ASSUME NEW w \in active
        PROVE  Listed(w) /\ view[w] = table'
    <2>1. \A i \in 1 .. Len(f.work) : i > after => f.work[i].watch # w
      BY <1>3 DEF Hears
    <2>2. ~Untold(f, after, w)
      BY <2>1 DEF Untold
    <2> QED
      BY <2>2 DEF TellsFrom
  <1>5. Reached' /\ Informed'
    BY <1>1, <1>4 DEF Reached, Informed, Knows, sinkVars
  <1> QED
    BY <1>2, <1>5 DEF WatchInv

LEMMA TellingGoesOn ==
    ASSUME Typed, Unborn, puzzled = {}, NEW f, NEW after, TellsFrom(f, after, table'),
           newest' \in [PlugId -> Nat], UNCHANGED <<active, made, watchers>>,
           NEW i \in 1 .. Len(f.work), i > after, f.work[i].watch \in active,
           \A j \in 1 .. Len(f.work) : j > after /\ f.work[j].watch \in active => i <= j,
           stack' = Append(<<>>, [f EXCEPT !.at = i]), Told(f.work[i].watch, f.work[i].fact)
    PROVE  WatchInv'
  <1>1. \A w : Listed(w)' <=> Listed(w)
    BY DEF Listed
  <1>2. PICK fact : fact = f.work[1].fact
    OBVIOUS
  <1>3. PICK w0 : w0 = f.work[i].watch
    OBVIOUS
  <1>4. /\ f.work[i].fact = fact /\ fact \in Fact /\ w0 \in Watch /\ w0 \in active
        /\ Untold(f, after, w0)
    <2>1. f.work[i] \in Item /\ f.work[i].fact = f.work[1].fact
      BY DEF TellsFrom
    <2> QED
      BY <1>2, <1>3, <2>1 DEF Item, Untold, TellsFrom
  <1>5. view[w0] = Before(table', fact) /\ table' \in [PlugId -> Nat] /\ table'[fact.plugId] = After(fact)
    BY <1>2, <1>4 DEF TellsFrom
  <1>6. /\ view' = [view EXCEPT ![w0][fact.plugId] = After(fact)]
        /\ puzzled' = IF view[w0][fact.plugId] = (IF fact.available THEN 0 ELSE fact.generation)
                      THEN puzzled ELSE puzzled \cup {w0}
    BY <1>3, <1>4 DEF Told, After
  <1>7. /\ fact.plugId \in PlugId /\ fact.generation \in Nat /\ After(fact) \in Nat
        /\ view \in [Watch -> [PlugId -> Nat]]
    BY <1>4 DEF Fact, After, Typed
  <1>8. puzzled' = {}
    BY <1>5, <1>6, <1>7 DEF Before
  <1>9. view' \in [Watch -> [PlugId -> Nat]] /\ (\A w \in Watch : w # w0 => view'[w] = view[w])
    BY <1>6, <1>7, <1>4
  <1>10. view'[w0] = table'
    <2>1. view'[w0] = [Before(table', fact) EXCEPT ![fact.plugId] = After(fact)]
      BY <1>4, <1>5, <1>6, <1>7
    <2> QED
      BY <1>5, <1>7, <2>1 DEF Before
  <1>11. PICK g : g = [f EXCEPT !.at = i]
    OBVIOUS
  <1>12. g.joins = 0 /\ g.at = i /\ g.work = f.work /\ g \in Frame
    <2>1. f \in [joins : {0}, at : Nat, work : Seq(Item)]
      BY DEF TellsFrom
    <2>2. g \in [joins : {0}, at : Nat, work : Seq(Item)] /\ g.at = i /\ g.work = f.work
      BY <1>11, <2>1
    <2>3. [joins : {0}, at : Nat, work : Seq(Item)] \subseteq Frame
      BY DEF Frame
    <2> QED
      BY <2>2, <2>3
  <1>13. Len(stack') = 1 /\ stack'[1] = g /\ stack' \in Seq(Frame)
    BY <1>11, <1>12
  <1>14. Typed'
    <2>1. Passing(g)
      BY <1>12 DEF Passing
    <2>2. \A k \in 1 .. Len(stack') : Passing(stack'[k])
      BY <1>13, <2>1
    <2> QED
      BY <1>9, <1>5, <1>13, <2>2 DEF Typed
  <1>15. Passes'
    <2>1. Telling(g)'
      BY <1>1, <1>12, <1>2, <1>5 DEF Telling, TellsFrom, After
    <2> QED
      BY <1>12, <1>13, <2>1 DEF Passes
  <1>16. OneEach' /\ Reached'
    BY <1>1, <1>13 DEF OneEach, Reached, TellsFrom
  <1>17. Unborn'
    BY <1>4, <1>9 DEF Unborn, Typed, Watch
  <1>18. ASSUME NEW w \in active
         PROVE  Knows(w)'
    <2>1. w \in Watch
      BY DEF Typed, Watch
    <2>2. CASE Waits(g, w)
      <3>1. PICK j \in 1 .. Len(f.work) : j > i /\ f.work[j].watch = w
        BY <1>12, <2>2 DEF Waits
      <3>2. w # w0
        BY <1>3, <3>1 DEF TellsFrom
      <3>3. Untold(f, after, w)
        BY <3>1 DEF Untold, TellsFrom
      <3>4. view'[w] = Before(table', fact)
        BY <1>2, <1>9, <2>1, <3>2, <3>3 DEF TellsFrom
      <3>5. view'[w] = Former(stack[1].work[1].fact)'
        BY <1>2, <1>12, <1>13, <3>4 DEF Former, Before
      <3>6. Waits(stack'[1], w)
        BY <1>13, <2>2
      <3> QED
        BY <1>13, <3>5, <3>6 DEF Knows, Waits
    <2>3. CASE ~Waits(g, w)
      <3>1. w # w0 => ~Untold(f, after, w)
        BY <1>3, <1>12, <2>3 DEF Untold, Waits, TellsFrom
      <3>2. view'[w] = table'
        BY <1>9, <1>10, <2>1, <3>1 DEF TellsFrom
      <3> QED
        BY <1>13, <2>3, <3>2 DEF Knows, Waits
    <2> QED
      BY <2>2, <2>3
  <1> QED
    BY <1>8, <1>14, <1>15, <1>16, <1>17, <1>18 DEF WatchInv, Informed

LEMMA TellsOn ==
    ASSUME Typed, Unborn, puzzled = {}, NEW f, NEW after, TellsFrom(f, after, table'),
           newest' \in [PlugId -> Nat], UNCHANGED <<active, made>>, Proceed(f, after, <<>>, 0)
    PROVE  WatchInv'
  <1>1. DOMAIN f.work = 1 .. Len(f.work)
    BY DEF TellsFrom
  <1>2. CASE /\ {i \in DOMAIN f.work : i > after /\ Hears(f.work[i].watch)} = {}
             /\ stack' = <<>> /\ watchers' = watchers /\ UNCHANGED sinkVars
    BY <1>2, TellingEnds
  <1>3. CASE \E i \in {i \in DOMAIN f.work : i > after /\ Hears(f.work[i].watch)} :
               /\ \A j \in {j \in DOMAIN f.work : j > after /\ Hears(f.work[j].watch)} : i <= j
               /\ stack' = Append(<<>>, [f EXCEPT !.at = i])
               /\ Told(f.work[i].watch, f.work[i].fact) /\ UNCHANGED watchers
    BY <1>1, <1>3, TellingGoesOn DEF Hears
  <1> QED
    BY <1>2, <1>3 DEF Proceed, Copy

-----------------------------------------------------------------------------
(* Passes of watch()                                                       *)

LEMMA FrontIs ==
    ASSUME stack \in Seq(Frame), stack # <<>>
    PROVE  /\ Len(stack) \in Nat \ {0} /\ Last(stack) = stack[Len(stack)]
           /\ Front(stack) \in Seq(Frame) /\ Len(Front(stack)) = Len(stack) - 1
           /\ \A k \in 1 .. Len(stack) - 1 : Front(stack)[k] = stack[k]
  <1>1. Len(stack) \in Nat \ {0} /\ \A k \in 1 .. Len(stack) : stack[k] \in Frame
    OBVIOUS
  <1>2. Front(stack) = SubSeq(stack, 1, Len(stack) - 1) /\ Last(stack) = stack[Len(stack)]
    BY DEF Front, Last
  <1>3. PICK m : m = Len(stack) - 1 /\ m \in Nat
    BY <1>1
  <1>4. \A k \in 1 .. m : stack[k] \in Frame
    BY <1>1, <1>3
  <1>5. /\ SubSeq(stack, 1, m) \in Seq(Frame)
        /\ Len(SubSeq(stack, 1, m)) = IF 1 <= m THEN m - 1 + 1 ELSE 0
        /\ \A k \in 1 .. m - 1 + 1 : SubSeq(stack, 1, m)[k] = stack[1 + k - 1]
    BY <1>3, <1>4, SubSeqProperties
  <1> QED
    BY <1>1, <1>2, <1>3, <1>5

\* Only a pass that tells a fact is waited for, by watchers of the list.
LEMMA WaitersListed ==
    ASSUME Passes, NEW k \in 1 .. Len(stack), NEW w, Waits(stack[k], w)
    PROVE  Listed(w) /\ k = 1
  BY DEF Passes, Telling, Waits

LEMMA JoiningEnds ==
    ASSUME WatchInv, stack # <<>>, NEW f, f = Last(stack), f.joins # 0, f.at = Len(f.work),
           UNCHANGED <<tableVars, sinkVars, active, made>>,
           stack' = Front(stack), watchers' = Append(watchers, f.joins)
    PROVE  WatchInv'
  <1>0. Typed /\ Passes /\ OneEach /\ Reached /\ Informed /\ Unborn /\ puzzled = {}
    BY DEF WatchInv
  <1>1. PICK n : n = Len(stack)
    OBVIOUS
  <1>2. /\ n \in Nat \ {0} /\ stack[n] = f /\ stack' \in Seq(Frame) /\ Len(stack') = n - 1
        /\ \A k \in 1 .. n - 1 : stack'[k] = stack[k]
    BY <1>0, <1>1, FrontIs DEF Typed
  <1>3. PICK w0 : w0 = f.joins
    OBVIOUS
  <1>4. Joining(f) /\ w0 \in active /\ w0 \in 1 .. made /\ ~Listed(w0) /\ w0 # 0
    <2>1. Joining(f)
      BY <1>0, <1>1, <1>2 DEF Passes
    <2> QED
      BY <1>0, <1>3, <2>1 DEF Joining, Typed
  <1>5. /\ Len(watchers') = Len(watchers) + 1 /\ watchers'[Len(watchers) + 1] = w0
        /\ \A i \in 1 .. Len(watchers) : watchers'[i] = watchers[i]
        /\ watchers' \in Seq(1 .. made)
    BY <1>0, <1>3, <1>4 DEF Typed
  <1>6. \A w : Listed(w)' <=> Listed(w) \/ w = w0
    BY <1>0, <1>5 DEF Listed, Typed
  <1>7. Typed'
    <2>1. \A i, j \in 1 .. Len(watchers') : watchers'[i] = watchers'[j] => i = j
      BY <1>0, <1>4, <1>5 DEF Typed, Listed
    <2>2. \A k \in 1 .. Len(stack') : Passing(stack'[k])
      BY <1>0, <1>1, <1>2 DEF Typed
    <2> QED
      BY <1>0, <1>2, <1>5, <2>1, <2>2 DEF Typed, tableVars, sinkVars
  <1>8. \A k \in 1 .. n - 1 : stack[k].joins # w0
    BY <1>0, <1>1, <1>2, <1>3 DEF OneEach
  <1>9. Passes'
    <2>1. ASSUME NEW k \in 1 .. n - 1, Telling(stack[k])
          PROVE  Telling(stack[k])'
      BY <1>2, <1>6, <2>1, SMTT(20) DEF Telling, tableVars
    <2>2. ASSUME NEW k \in 1 .. n - 1, Joining(stack[k])
          PROVE  Joining(stack[k])'
      <3>1. PICK x : x = stack[k] /\ x = stack'[k]
        BY <1>2
      <3>2. Joining(x) /\ x.joins # w0
        BY <1>8, <2>2, <3>1
      <3>3. Joining(x)'
        BY <1>6, <3>2 DEF Joining, tableVars, sinkVars
      <3> QED
        BY <3>1, <3>3
    <2> QED
      BY <1>0, <1>1, <1>2, <2>1, <2>2, SMTT(20) DEF Passes
  <1>10. OneEach' /\ Reached' /\ Unborn' /\ puzzled' = {}
    <2>1. OneEach'
      BY <1>0, <1>1, <1>2 DEF OneEach
    <2>2. ASSUME NEW w \in active, ~Listed(w), w # w0
          PROVE  \E k \in 1 .. n - 1 : stack[k].joins = w
      BY <1>0, <1>1, <1>2, <1>3, <2>2, SMTT(20) DEF Reached
    <2>3. Reached'
      BY <1>2, <1>6, <2>2 DEF Reached
    <2> QED
      BY <1>0, <2>1, <2>3 DEF Unborn, sinkVars
  <1>11. view[w0] = table
    <2>1. w0 \in Watch /\ view[w0] \in [PlugId -> Nat] /\ table \in [PlugId -> Nat]
      BY <1>0, <1>4 DEF Typed, Watch
    <2>2. ASSUME NEW p \in PlugId
          PROVE  view[w0][p] = table[p]
      <3>1. \A i \in 1 .. Len(f.work) : i <= f.at
        OBVIOUS
      <3> QED
        BY <1>3, <1>4, <3>1, SMTT(20) DEF Joining
    <2>3. view[w0] = [p \in PlugId |-> view[w0][p]] /\ table = [p \in PlugId |-> table[p]]
      BY <2>1
    <2> QED
      BY <2>2, <2>3, Zenon
  <1>12. ASSUME NEW w
         PROVE  (\A k \in 1 .. n - 1 : Waits(stack[k], w) <=> Waits(stack'[k], w)) /\ ~Waits(f, w)
    BY <1>2 DEF Waits
  <1>13. ASSUME NEW w \in active, Listed(w)'
         PROVE  Knows(w)'
    <2>1. CASE w = w0
      <3>1. \A k \in 1 .. n - 1 : ~Waits(stack'[k], w)
        BY <1>0, <1>1, <1>2, <1>4, <1>12, <2>1, WaitersListed
      <3> QED
        BY <1>2, <1>11, <2>1, <3>1 DEF Knows, tableVars, sinkVars
    <2>2. CASE w # w0
      <3>1. Knows(w)
        BY <1>0, <1>6, <1>13, <2>2 DEF Informed
      <3>2. (\A k \in 1 .. n - 1 : ~Waits(stack[k], w)) => view[w] = table
        BY <1>1, <1>2, <1>12, <3>1 DEF Knows
      <3>3. \A k \in 1 .. n - 1 : Waits(stack[k], w) => view[w] = Former(stack[k].work[1].fact)
        BY <1>1, <1>2, <3>1 DEF Knows
      <3>4. (\A k \in 1 .. n - 1 : ~Waits(stack'[k], w)) => view'[w] = table'
        BY <1>12, <3>2 DEF tableVars, sinkVars
      <3>5. \A k \in 1 .. n - 1 : Waits(stack'[k], w) => view'[w] = Former(stack[k].work[1].fact)'
        BY <1>2, <1>12, <3>3 DEF Former, tableVars, sinkVars
      <3> QED
        BY <1>2, <3>4, <3>5 DEF Knows
    <2> QED
      BY <2>1, <2>2
  <1> QED
    BY <1>7, <1>9, <1>10, <1>13 DEF WatchInv, Informed

LEMMA ActiveWatch ==
    ASSUME Typed
    PROVE  /\ active \subseteq Watch /\ made \in Nat /\ \A w \in active : w # 0
           /\ \A w \in active : w <= made
  <1>1. made \in Nat /\ made <= MaxWatch /\ active \subseteq 1 .. made
    BY DEF Typed
  <1> QED
    BY <1>1 DEF Watch

LEMMA JoiningGoesOn ==
    ASSUME WatchInv, stack # <<>>, NEW f, f = Last(stack), f.joins # 0,
           NEW i \in 1 .. Len(f.work), i = f.at + 1,
           UNCHANGED <<tableVars, watchers, active, made>>,
           stack' = Append(Front(stack), [f EXCEPT !.at = i]), Told(f.work[i].watch, f.work[i].fact)
    PROVE  WatchInv'
  <1>0. Typed /\ Passes /\ OneEach /\ Reached /\ Informed /\ Unborn /\ puzzled = {}
    BY DEF WatchInv
  <1>1. PICK n : n = Len(stack)
    OBVIOUS
  <1>2. PICK g : g = [f EXCEPT !.at = i]
    OBVIOUS
  <1>3. n \in Nat \ {0} /\ stack[n] = f /\ f \in Frame /\ f.at \in 1 .. Len(f.work)
    BY <1>0, <1>1, FrontIs DEF Typed, Passing
  <1>4. g \in Frame /\ g.joins = f.joins /\ g.work = f.work /\ g.at = i
    BY <1>2, <1>3 DEF Frame
  <1>5. /\ stack' \in Seq(Frame) /\ Len(stack') = n /\ stack'[n] = g
        /\ \A k \in 1 .. n - 1 : stack'[k] = stack[k]
    BY <1>0, <1>1, <1>2, <1>3, <1>4, FrontIs DEF Typed
  <1>6. PICK w0, fact : w0 = f.joins /\ fact = f.work[i].fact
    OBVIOUS
  <1>7. Joining(f) /\ w0 \in active /\ w0 \in Watch /\ ~Listed(w0) /\ w0 # 0
    <2>1. Joining(f)
      BY <1>0, <1>1, <1>3 DEF Passes
    <2> QED
      BY <1>0, <1>6, <2>1, ActiveWatch DEF Joining
  <1>8. /\ fact \in Fact /\ fact.available /\ fact.generation = table[fact.plugId]
        /\ view[w0][fact.plugId] = 0 /\ f.work[i].watch = w0
    <2>1. f.work[i] \in Item
      BY <1>3 DEF Frame
    <2>2. ~(i <= f.at)
      BY <1>3
    <2>3. fact \in Fact
      BY <1>6, <2>1 DEF Item
    <2> QED
      BY <1>6, <1>7, <2>2, <2>3 DEF Joining
  <1>9. /\ fact.plugId \in PlugId /\ table[fact.plugId] \in Nat \ {0}
        /\ view \in [Watch -> [PlugId -> Nat]]
    BY <1>0, <1>8 DEF Fact, Typed
  <1>10. view' = [view EXCEPT ![w0][fact.plugId] = table[fact.plugId]] /\ puzzled' = puzzled
    BY <1>6, <1>8 DEF Told
  <1>11. /\ view' \in [Watch -> [PlugId -> Nat]]
         /\ \A w \in Watch : w # w0 => view'[w] = view[w]
         /\ \A p \in PlugId : view'[w0][p] = IF p = fact.plugId THEN table[p] ELSE view[w0][p]
    BY <1>7, <1>9, <1>10
  <1>12. \A w : Listed(w)' <=> Listed(w)
    BY DEF Listed
  <1>13. Typed'
    <2>1. Passing(g)
      BY <1>4 DEF Passing
    <2>2. \A k \in 1 .. Len(stack') : Passing(stack'[k])
      <3>1. \A k \in 1 .. n - 1 : Passing(stack[k])
        <4>1. \A k \in 1 .. Len(stack) : Passing(stack[k])
          BY <1>0 DEF Typed
        <4>2. \A k \in 1 .. n - 1 : k \in 1 .. Len(stack)
          BY <1>1, <1>3
        <4> QED
          BY <4>1, <4>2
      <3>2. \A k \in 1 .. n : k = n \/ k \in 1 .. n - 1
        BY <1>3
      <3> QED
        BY <1>5, <2>1, <3>1, <3>2
    <2> QED
      BY <1>0, <1>5, <1>11, <2>2 DEF Typed, tableVars
  <1>14. \A k \in 1 .. n : stack'[k].joins = stack[k].joins
    BY <1>3, <1>4, <1>5
  <1>15. \A k \in 1 .. n - 1 : stack[k].joins # w0
    BY <1>0, <1>1, <1>3, <1>6 DEF OneEach
  <1>16. Passes'
    <2>1. ASSUME NEW k \in 1 .. n - 1, Telling(stack[k])
          PROVE  Telling(stack[k])'
      <3>1. PICK x : x = stack[k] /\ x = stack'[k]
        BY <1>5
      <3>2. Telling(x)
        BY <2>1, <3>1
      <3>3. Telling(x)'
        BY <1>12, <3>2 DEF Telling, tableVars
      <3> QED
        BY <3>1, <3>3
    <2>2. ASSUME NEW k \in 1 .. n - 1, Joining(stack[k])
          PROVE  Joining(stack[k])'
      <3>1. PICK x : x = stack[k] /\ x = stack'[k]
        BY <1>5
      <3>2. Joining(x) /\ x.joins # w0
        BY <1>15, <2>2, <3>1
      <3>3. x.joins \in Watch
        BY <1>0, <3>2, ActiveWatch DEF Joining
      <3>4. view'[x.joins] = view[x.joins]
        BY <1>11, <3>2, <3>3
      <3>5. Joining(x)'
        <4>1. table' = table /\ active' = active
          BY DEF tableVars
        <4>2. x.joins \in active' /\ ~Listed(x.joins)'
          BY <1>12, <3>2, <4>1 DEF Joining
        <4>3. \A j \in 1 .. Len(x.work) :
                /\ x.work[j].watch = x.joins /\ x.work[j].fact.available
                /\ x.work[j].fact.generation = table'[x.work[j].fact.plugId]
                /\ view'[x.joins][x.work[j].fact.plugId]
                     = (IF j <= x.at THEN table'[x.work[j].fact.plugId] ELSE 0)
          BY <3>2, <3>4, <4>1 DEF Joining
        <4>4. \A j, l \in 1 .. Len(x.work) : x.work[j].fact.plugId = x.work[l].fact.plugId => j = l
          BY <3>2 DEF Joining
        <4>5. \A p \in PlugId : \/ table'[p] = 0 /\ view'[x.joins][p] = 0
                                \/ \E j \in 1 .. Len(x.work) : x.work[j].fact.plugId = p
          BY <3>2, <3>4, <4>1 DEF Joining
        <4> QED
          BY <4>2, <4>3, <4>4, <4>5 DEF Joining
      <3> QED
        BY <3>1, <3>5
    <2>3. Joining(g)'
      <3>1. \A j \in 1 .. Len(f.work) :
              /\ f.work[j].watch = w0 /\ f.work[j].fact.available
              /\ f.work[j].fact.generation = table[f.work[j].fact.plugId]
              /\ f.work[j].fact.plugId \in PlugId
              /\ view[w0][f.work[j].fact.plugId] = (IF j <= f.at THEN table[f.work[j].fact.plugId] ELSE 0)
              /\ f.work[j].fact.plugId = fact.plugId => j = i
        <4>1. \A j \in 1 .. Len(f.work) : f.work[j] \in Item
          BY <1>3 DEF Frame
        <4>2. \A j \in 1 .. Len(f.work) : f.work[j].fact.plugId \in PlugId
          BY <4>1 DEF Item, Fact
        <4> QED
          BY <1>6, <1>7, <4>2 DEF Joining
      <3>2. ASSUME NEW j \in 1 .. Len(f.work)
            PROVE  view'[w0][f.work[j].fact.plugId] = (IF j <= i THEN table[f.work[j].fact.plugId] ELSE 0)
        <4>1. CASE j = i
          <5>1. f.work[j].fact.plugId = fact.plugId
            BY <1>6, <4>1
          <5>2. view'[w0][fact.plugId] = table[fact.plugId]
            BY <1>9, <1>11
          <5>3. j <= i
            BY <4>1
          <5> QED
            BY <5>1, <5>2, <5>3
        <4>2. CASE j # i
          <5>1. view'[w0][f.work[j].fact.plugId] = view[w0][f.work[j].fact.plugId]
            BY <1>11, <3>1, <4>2
          <5>2. j <= i <=> j <= f.at
            BY <1>3, <4>2
          <5> QED
            BY <3>1, <5>1, <5>2
        <4> QED
          BY <4>1, <4>2
      <3>3. ASSUME NEW p \in PlugId
            PROVE  \/ table[p] = 0 /\ view'[w0][p] = 0
                   \/ \E j \in 1 .. Len(f.work) : f.work[j].fact.plugId = p
        <4>1. CASE p = fact.plugId
          BY <1>6, <4>1
        <4>2. CASE p # fact.plugId
          BY <1>6, <1>7, <1>11, <4>2 DEF Joining
        <4> QED
          BY <4>1, <4>2
      <3>4. \A j, l \in 1 .. Len(f.work) : f.work[j].fact.plugId = f.work[l].fact.plugId => j = l
        BY <1>7 DEF Joining
      <3>5. g.joins = w0 /\ g.work = f.work /\ g.at = i /\ table' = table /\ active' = active
        BY <1>4, <1>6 DEF tableVars
      <3> QED
        <4>1. w0 \in active' /\ ~Listed(w0)'
          BY <1>7, <1>12
        <4>2. \A j \in 1 .. Len(g.work) :
                /\ g.work[j].watch = g.joins /\ g.work[j].fact.available
                /\ g.work[j].fact.generation = table'[g.work[j].fact.plugId]
          BY <3>1, <3>5, SMTT(20)
        <4>3. \A j \in 1 .. Len(g.work) :
                view'[g.joins][g.work[j].fact.plugId]
                  = (IF j <= g.at THEN table'[g.work[j].fact.plugId] ELSE 0)
          BY <3>2, <3>5
        <4>4. \A p \in PlugId : \/ table'[p] = 0 /\ view'[g.joins][p] = 0
                                \/ \E j \in 1 .. Len(g.work) : g.work[j].fact.plugId = p
          BY <3>3, <3>5
        <4>5. \A j, l \in 1 .. Len(g.work) : g.work[j].fact.plugId = g.work[l].fact.plugId => j = l
          BY <3>4, <3>5
        <4> QED
          BY <3>5, <4>1, <4>2, <4>3, <4>4, <4>5 DEF Joining
    <2>4. ASSUME NEW k \in 1 .. n
          PROVE  \/ stack'[k].joins = 0 /\ k = 1 /\ Telling(stack[k])'
                 \/ stack'[k].joins # 0 /\ Joining(stack[k])'
      <3>1. CASE k = n
        BY <1>4, <1>5, <2>3, <3>1
      <3>2. CASE k # n
        <4>1. k \in 1 .. n - 1
          BY <1>3, <3>2
        <4>2. \/ stack[k].joins = 0 /\ k = 1 /\ Telling(stack[k])
              \/ stack[k].joins # 0 /\ Joining(stack[k])
          BY <1>0, <1>1 DEF Passes
        <4> QED
          BY <1>14, <2>1, <2>2, <4>1, <4>2
      <3> QED
        BY <3>1, <3>2
    <2> QED
      BY <1>5, <2>4 DEF Passes
  <1>17. OneEach' /\ Reached'
    BY <1>0, <1>1, <1>5, <1>12, <1>14, SMTT(20) DEF OneEach, Reached
  <1>18. Unborn'
    BY <1>0, <1>7, <1>11 DEF Unborn, Typed, Watch
  <1>19. ASSUME NEW w \in active, Listed(w)
         PROVE  Knows(w)'
    <2>1. w # w0 /\ w \in Watch /\ view'[w] = view[w]
      BY <1>0, <1>7, <1>11, <1>19 DEF Typed, Watch
    <2>2. Knows(w)
      BY <1>0, <1>19 DEF Informed
    <2>3. \A k \in 1 .. n : Waits(stack'[k], w) <=> Waits(stack[k], w)
      <3>1. ~Waits(f, w) /\ ~Waits(g, w)
        BY <1>4 DEF Waits
      <3>2. \A k \in 1 .. n : k = n \/ k \in 1 .. n - 1
        BY <1>3
      <3> QED
        BY <1>3, <1>5, <3>1, <3>2
    <2>4. \A k \in 1 .. n : stack'[k].work = stack[k].work
      <3>1. \A k \in 1 .. n : k = n \/ k \in 1 .. n - 1
        BY <1>3
      <3> QED
        BY <1>3, <1>4, <1>5, <3>1
    <2>5. (\A k \in 1 .. n : ~Waits(stack'[k], w)) => view'[w] = table'
      BY <1>1, <2>1, <2>2, <2>3 DEF Knows, tableVars
    <2>6. ASSUME NEW k \in 1 .. n, Waits(stack'[k], w)
          PROVE  view'[w] = Former(stack[k].work[1].fact)'
      <3>1. view[w] = Former(stack[k].work[1].fact)
        BY <1>1, <2>2, <2>3, <2>6 DEF Knows
      <3> QED
        BY <2>1, <2>4, <3>1 DEF Former, tableVars
    <2> QED
      BY <1>5, <2>5, <2>6 DEF Knows
  <1> QED
    BY <1>0, <1>10, <1>12, <1>13, <1>16, <1>17, <1>18, <1>19 DEF WatchInv, Informed

LEMMA ReturnKeeps ==
    ASSUME WatchInv, NEW fine, SinkReturns(fine)
    PROVE  WatchInv'
  <1>0. Typed /\ Passes /\ OneEach /\ Reached /\ Informed /\ Unborn /\ puzzled = {}
    BY DEF WatchInv
  <1>1. PICK f : f = Last(stack)
    OBVIOUS
  <1>2. /\ stack # <<>> /\ UNCHANGED <<tableVars, active, made>>
        /\ Proceed(f, f.at, Front(stack), f.joins)
    BY <1>1 DEF SinkReturns, Joins
  <1>3. PICK n : n = Len(stack) /\ n \in Nat \ {0} /\ stack[n] = f
    BY <1>0, <1>1, <1>2, FrontIs DEF Typed
  <1>4. Passing(f)
    BY <1>0, <1>3 DEF Typed
  <1>5. CASE f.joins # 0
    <2>1. Joining(f)
      BY <1>0, <1>3, <1>5 DEF Passes
    <2>2. \A i \in 1 .. Len(f.work) : Hears(f.work[i].watch)
      BY <2>1 DEF Joining, Hears
    <2>3. DOMAIN f.work = 1 .. Len(f.work) /\ f.at \in Nat /\ Len(f.work) \in Nat
      BY <1>4 DEF Passing, Frame
    <2>4. CASE /\ {i \in DOMAIN f.work : i > f.at /\ Hears(f.work[i].watch)} = {}
               /\ stack' = Front(stack) /\ watchers' = Append(watchers, f.joins) /\ UNCHANGED sinkVars
      <3>1. f.at = Len(f.work)
        BY <1>4, <2>2, <2>3, <2>4 DEF Passing
      <3> QED
        BY <1>1, <1>2, <1>5, <2>4, <3>1, JoiningEnds
    <2>5. CASE \E i \in {i \in DOMAIN f.work : i > f.at /\ Hears(f.work[i].watch)} :
                 /\ \A j \in {j \in DOMAIN f.work : j > f.at /\ Hears(f.work[j].watch)} : i <= j
                 /\ stack' = Append(Front(stack), [f EXCEPT !.at = i])
                 /\ Told(f.work[i].watch, f.work[i].fact) /\ UNCHANGED watchers
      <3>1. PICK i \in {i \in DOMAIN f.work : i > f.at /\ Hears(f.work[i].watch)} :
              /\ \A j \in {j \in DOMAIN f.work : j > f.at /\ Hears(f.work[j].watch)} : i <= j
              /\ stack' = Append(Front(stack), [f EXCEPT !.at = i])
              /\ Told(f.work[i].watch, f.work[i].fact) /\ UNCHANGED watchers
        BY <2>5
      <3>2. i \in 1 .. Len(f.work) /\ i > f.at
        BY <2>3, <3>1
      <3>3. f.at + 1 \in 1 .. Len(f.work)
        BY <2>3, <3>2
      <3>4. i <= f.at + 1
        BY <2>2, <2>3, <3>1, <3>3, SMTT(20)
      <3>5. i = f.at + 1
        BY <2>3, <3>2, <3>4
      <3> QED
        BY <1>1, <1>2, <1>5, <3>1, <3>2, <3>5, JoiningGoesOn
    <2> QED
      BY <1>2, <1>5, <2>4, <2>5 DEF Proceed, Copy
  <1>6. CASE f.joins = 0
    <2>1. n = 1 /\ Telling(f)
      BY <1>0, <1>3, <1>6 DEF Passes
    <2>2. Front(stack) = <<>>
      BY <1>0, <1>2, <1>3, <2>1, FrontIs DEF Typed
    <2>3. ASSUME NEW w \in active
          PROVE  /\ Listed(w)
                 /\ Waits(f, w) => view[w] = Former(f.work[1].fact)
                 /\ ~Waits(f, w) => view[w] = table
      <3>1. Listed(w)
        <4>1. w # 0
          BY <1>0 DEF Typed
        <4> QED
          BY <1>0, <1>3, <1>6, <2>1, <4>1 DEF Reached
      <3> QED
        BY <1>0, <1>3, <2>1, <3>1 DEF Informed, Knows
    <2>4. f \in [joins : {0}, at : Nat, work : Seq(Item)] /\ f.at \in 0 .. Len(f.work)
      <3>1. f \in Frame /\ f.at \in 1 .. Len(f.work)
        BY <1>4 DEF Passing
      <3> QED
        BY <1>6, <3>1 DEF Frame
    <2>5. TellsFrom(f, f.at, table)
      BY <1>0, <1>6, <2>1, <2>3, <2>4 DEF TellsFrom, Telling, After, Untold, Waits, Former, Before, Typed
    <2> QED
      BY <1>0, <1>2, <1>6, <2>2, <2>5, TellsOn DEF tableVars, Typed
  <1> QED
    BY <1>5, <1>6

-----------------------------------------------------------------------------
(* The operations                                                          *)

\* With no pass under way, every active watcher is of the list and knows the table.
LEMMA KnowAtRest ==
    ASSUME WatchInv, stack = <<>>, NEW w \in active
    PROVE  Listed(w) /\ view[w] = table
  <1>1. Listed(w)
    BY DEF WatchInv, Reached
  <1> QED
    BY <1>1 DEF WatchInv, Informed, Knows

\* How a fact is sent to all of the list.
LEMMA NotifyKeeps ==
    ASSUME WatchInv, stack = <<>>, NEW fact \in Fact, Notify(fact), UNCHANGED <<active, made>>,
           newest' \in [PlugId -> Nat], table' = [table EXCEPT ![fact.plugId] = After(fact)],
           table[fact.plugId] = IF fact.available THEN 0 ELSE fact.generation
    PROVE  WatchInv'
  <1>0. Typed /\ Passes /\ OneEach /\ Reached /\ Informed /\ Unborn /\ puzzled = {}
    BY DEF WatchInv
  <1>1. PICK work : work = [i \in DOMAIN watchers |-> [watch |-> watchers[i], fact |-> fact]]
    OBVIOUS
  <1>2. PICK f : f = [joins |-> 0, at |-> 1, work |-> work]
    OBVIOUS
  <1>3. Proceed(f, 0, <<>>, 0)
    BY <1>1, <1>2 DEF Notify
  <1>4. PICK n \in Nat : n = Len(watchers) /\ DOMAIN watchers = 1 .. n
    BY <1>0 DEF Typed
  <1>5. \A i \in 1 .. n : watchers[i] \in Watch
    BY <1>0, <1>4, ActiveWatch DEF Typed, Watch
  <1>6. work \in [1 .. n -> Item]
    BY <1>1, <1>4, <1>5 DEF Item
  <1>7. work \in Seq(Item) /\ Len(work) = n
    BY <1>6
  <1>8. \A i \in 1 .. n : work[i].watch = watchers[i] /\ work[i].fact = fact
    BY <1>1, <1>4
  <1>9. /\ fact.plugId \in PlugId /\ After(fact) \in Nat /\ table \in [PlugId -> Nat]
    BY <1>0 DEF Fact, After, Typed
  <1>10. table' \in [PlugId -> Nat] /\ table'[fact.plugId] = After(fact)
    BY <1>9
  <1>11. Before(table', fact) = table
    BY <1>9, <1>10 DEF Before
  <1>12. ASSUME NEW w \in active
         PROVE  /\ Listed(w)
                /\ Untold(f, 0, w) => view[w] = Before(table', f.work[1].fact)
                /\ ~Untold(f, 0, w) => view[w] = table'
    <2>1. Listed(w) /\ view[w] = table
      BY KnowAtRest
    <2>2. PICK i \in 1 .. n : watchers[i] = w
      BY <1>4, <2>1 DEF Listed
    <2>3. Untold(f, 0, w) /\ f.work[1].fact = fact
      BY <1>2, <1>4, <1>7, <1>8, <2>2 DEF Untold
    <2> QED
      BY <1>11, <2>1, <2>3
  <1>13. \A i, j \in 1 .. n : watchers[i] = watchers[j] => i = j
    BY <1>0, <1>4 DEF Typed
  <1>14. TellsFrom(f, 0, table')
    <2>1. f.joins = 0 /\ f.at = 1 /\ f.work = work
      BY <1>2
    <2>2. f \in [joins : {0}, at : Nat, work : Seq(Item)]
      BY <1>2, <1>7
    <2>3. \A i \in 1 .. n : Listed(work[i].watch) /\ work[i].fact = work[1].fact
      BY <1>4, <1>8 DEF Listed
    <2>4. \A i, j \in 1 .. n : work[i].watch = work[j].watch => i = j
      BY <1>8, <1>13
    <2>5. n > 0 => table'[work[1].fact.plugId] = After(work[1].fact)
      BY <1>8, <1>10
    <2> QED
      <3>1. Len(f.work) = n /\ 0 \in 0 .. Len(f.work)
        BY <1>7, <2>1
      <3>2. \A i \in 1 .. Len(f.work) : Listed(f.work[i].watch) /\ f.work[i].fact = f.work[1].fact
        BY <2>1, <2>3, <3>1
      <3>3. \A i, j \in 1 .. Len(f.work) : f.work[i].watch = f.work[j].watch => i = j
        BY <2>1, <2>4, <3>1
      <3>4. Len(f.work) > 0 => table'[f.work[1].fact.plugId] = After(f.work[1].fact)
        BY <2>1, <2>5, <3>1
      <3> QED
        BY <1>10, <1>12, <2>2, <3>1, <3>2, <3>3, <3>4, Zenon DEF TellsFrom
  <1> QED
    BY <1>0, <1>3, <1>14, TellsOn

LEMMA RegisterKeeps ==
    ASSUME WatchInv, NEW p \in PlugId, Register(p)
    PROVE  WatchInv'
  <1>1. PICK fact : fact = [plugId |-> p, generation |-> newest'[p], available |-> TRUE]
    OBVIOUS
  <1>2. newest \in [PlugId -> Nat] /\ newest' = [newest EXCEPT ![p] = @ + 1]
    BY DEF WatchInv, Typed, Register
  <1>3. newest' \in [PlugId -> Nat] /\ newest'[p] \in Nat \ {0}
    BY <1>2
  <1>4. fact \in Fact /\ fact.plugId = p /\ fact.available /\ After(fact) = newest'[p]
    BY <1>1, <1>3 DEF Fact, After
  <1>5. /\ stack = <<>> /\ table[p] = 0 /\ table' = [table EXCEPT ![p] = newest'[p]]
        /\ Notify(fact) /\ UNCHANGED <<active, made>>
    BY <1>1 DEF Register
  <1> QED
    BY <1>3, <1>4, <1>5, NotifyKeeps

LEMMA WithdrawKeeps ==
    ASSUME WatchInv, NEW p \in PlugId, NEW g \in 1 .. MaxGen, Withdraw(p, g)
    PROVE  WatchInv'
  <1>1. PICK fact : fact = [plugId |-> p, generation |-> g, available |-> FALSE]
    OBVIOUS
  <1>2. g \in Nat \ {0}
    OBVIOUS
  <1>3. fact \in Fact /\ fact.plugId = p /\ ~fact.available /\ fact.generation = g /\ After(fact) = 0
    BY <1>1, <1>2 DEF Fact, After
  <1>4. /\ stack = <<>> /\ table[p] = g /\ table' = [table EXCEPT ![p] = 0]
        /\ Notify(fact) /\ UNCHANGED <<newest, active, made>>
    BY <1>1 DEF Withdraw
  <1>5. newest' \in [PlugId -> Nat]
    BY <1>4 DEF WatchInv, Typed
  <1> QED
    BY <1>3, <1>4, <1>5, NotifyKeeps

LEMMA UnsubscribeKeeps ==
    ASSUME WatchInv, NEW w0, Unsubscribe(w0)
    PROVE  WatchInv'
  <1>0. Typed /\ Passes /\ OneEach /\ Reached /\ Informed /\ Unborn /\ puzzled = {}
    BY DEF WatchInv
  <1>1. Listed(w0) /\ active' = active \ {w0} /\ UNCHANGED <<tableVars, watchers, stack, made, sinkVars>>
    BY <1>0 DEF Unsubscribe, Range, Listed, Typed
  <1>2. \A w : Listed(w)' <=> Listed(w)
    BY <1>1 DEF Listed
  <1>3. Typed'
    BY <1>0, <1>1 DEF Typed, tableVars, sinkVars
  <1>4. Passes'
    <2>1. ASSUME NEW k \in 1 .. Len(stack), Telling(stack[k])
          PROVE  Telling(stack[k])'
      BY <1>1, <1>2, <2>1 DEF Telling, tableVars
    <2>2. ASSUME NEW k \in 1 .. Len(stack), Joining(stack[k])
          PROVE  Joining(stack[k])'
      <3>1. PICK x : x = stack[k] /\ x = stack'[k]
        BY <1>1
      <3>2. Joining(x)
        BY <2>2, <3>1
      <3>3. Joining(x)'
        BY <1>1, <1>2, <3>2 DEF Joining, tableVars, sinkVars
      <3> QED
        BY <3>1, <3>3
    <2> QED
      BY <1>0, <1>1, <2>1, <2>2 DEF Passes
  <1>5. OneEach' /\ Reached' /\ Unborn' /\ puzzled' = {}
    BY <1>0, <1>1, <1>2 DEF OneEach, Reached, Unborn, sinkVars
  <1>6. \A w : Knows(w) => Knows(w)'
    BY <1>1 DEF Knows, Former, Waits, tableVars, sinkVars
  <1>7. Informed'
    BY <1>0, <1>1, <1>2, <1>6 DEF Informed
  <1> QED
    BY <1>3, <1>4, <1>5, <1>7 DEF WatchInv

\* A new watcher has the next number: nobody is it yet.
LEMMA NewWatch ==
    ASSUME Typed, Passes, made < MaxWatch, NEW w, w = made + 1
    PROVE  /\ w \in Watch /\ w # 0 /\ w \notin active /\ ~Listed(w)
           /\ \A k \in 1 .. Len(stack) : stack[k].joins # w /\ ~Waits(stack[k], w)
  <1>1. made \in Nat /\ active \subseteq 1 .. made /\ MaxWatch \in Nat
    BY DEF Typed
  <1>2. w \in Watch /\ w # 0 /\ w \notin active
    BY <1>1 DEF Watch
  <1>3. \A i \in 1 .. Len(watchers) : watchers[i] \in 1 .. made
    BY DEF Typed
  <1>4. ~Listed(w)
    BY <1>1, <1>3 DEF Listed
  <1>5. \A k \in 1 .. Len(stack) : stack[k].joins # w
    BY <1>2 DEF Passes, Joining
  <1> QED
    BY <1>2, <1>4, <1>5, WaitersListed

LEMMA PassesStay ==
    ASSUME Typed, Passes, made < MaxWatch, made' = made + 1, active' = active \cup {made + 1}, table' = table,
           \A v \in Watch : v # made + 1 => view'[v] = view[v],
           \A v : v # made + 1 => (Listed(v)' <=> Listed(v))
    PROVE  \A k \in 1 .. Len(stack) :
             \/ stack[k].joins = 0 /\ k = 1 /\ \A f : f = stack[k] => Telling(f)'
             \/ stack[k].joins # 0 /\ \A f : f = stack[k] => Joining(f)'
  <1>1. PICK w : w = made + 1
    OBVIOUS
  <1>2. ASSUME NEW f, Telling(f), ~Listed(w)
        PROVE  Telling(f)'
    <2>1. \A i \in 1 .. Len(f.work) : Listed(f.work[i].watch)'
      BY <1>1, <1>2 DEF Telling
    <2> QED
      BY <1>2, <2>1 DEF Telling
  <1>3. ASSUME NEW f, Joining(f), f.joins # w
        PROVE  Joining(f)'
    <2>1. f.joins \in Watch /\ f.joins \in active' /\ ~Listed(f.joins)'
      BY <1>1, <1>3, ActiveWatch DEF Joining
    <2>2. view'[f.joins] = view[f.joins]
      BY <1>1, <1>3, <2>1
    <2> QED
      BY <1>3, <2>1, <2>2 DEF Joining
  <1>4. ~Listed(w) /\ \A k \in 1 .. Len(stack) : stack[k].joins # w
    BY <1>1, NewWatch
  <1> QED
    BY <1>2, <1>3, <1>4 DEF Passes

LEMMA EmptySnapshotKeeps ==
    ASSUME WatchInv, made < MaxWatch, made' = made + 1, active' = active \cup {made'},
           Registered = {}, watchers' = Append(watchers, made'), UNCHANGED <<tableVars, stack, sinkVars>>
    PROVE  WatchInv'
  <1>0. Typed /\ Passes /\ OneEach /\ Reached /\ Informed /\ Unborn /\ puzzled = {}
    BY DEF WatchInv
  <1>1. PICK w : w = made + 1
    OBVIOUS
  <1>2. /\ w \in Watch /\ w # 0 /\ w \notin active /\ ~Listed(w)
        /\ \A k \in 1 .. Len(stack) : stack[k].joins # w /\ ~Waits(stack[k], w)
    BY <1>0, <1>1, NewWatch
  <1>3. made \in Nat /\ watchers \in Seq(1 .. w)
    <2>1. made \in Nat /\ 1 .. made \subseteq 1 .. w
      BY <1>0, <1>1 DEF Typed
    <2> QED
      BY <1>0, <2>1, SeqMonotonic DEF Typed
  <1>4. /\ Len(watchers') = Len(watchers) + 1 /\ watchers'[Len(watchers) + 1] = w
        /\ \A i \in 1 .. Len(watchers) : watchers'[i] = watchers[i]
        /\ watchers' \in Seq(1 .. w)
    <2>1. w \in 1 .. w
      BY <1>1, <1>3
    <2> QED
      BY <1>1, <1>3, <2>1
  <1>5. Len(watchers) \in Nat
    BY <1>3
  <1>6. \A v : Listed(v)' <=> Listed(v) \/ v = w
    BY <1>4, <1>5 DEF Listed
  <1>7. Typed'
    <2>1. \A i, j \in 1 .. Len(watchers') : watchers'[i] = watchers'[j] => i = j
      BY <1>0, <1>2, <1>4, <1>5 DEF Typed, Listed
    <2>2. made' \in 0 .. MaxWatch /\ active' \subseteq 1 .. made'
      BY <1>0, <1>3 DEF Typed
    <2> QED
      BY <1>0, <1>1, <1>4, <2>1, <2>2 DEF Typed, tableVars, sinkVars
  <1>8. Passes'
    <2>1. \A k \in 1 .. Len(stack) :
             \/ stack[k].joins = 0 /\ k = 1 /\ \A f : f = stack[k] => Telling(f)'
             \/ stack[k].joins # 0 /\ \A f : f = stack[k] => Joining(f)'
      BY <1>0, <1>1, <1>6, PassesStay DEF tableVars, sinkVars
    <2> QED
      BY <2>1 DEF Passes
  <1>9. OneEach' /\ Reached' /\ Unborn' /\ puzzled' = {}
    <2>1. OneEach'
      BY <1>0 DEF OneEach
    <2>2. Reached'
      BY <1>0, <1>1, <1>6 DEF Reached
    <2>3. Unborn'
      BY <1>0, <1>3 DEF Unborn, Watch, sinkVars
    <2> QED
      BY <1>0, <2>1, <2>2, <2>3 DEF sinkVars
  <1>10. \A v : Knows(v) => Knows(v)'
    BY DEF Knows, Former, Waits, tableVars, sinkVars
  <1>11. Knows(w)'
    <2>1. table = [p \in PlugId |-> 0]
      <3>1. table = [p \in PlugId |-> table[p]]
        BY <1>0 DEF Typed
      <3>2. \A p \in PlugId : table[p] = 0
        BY DEF Registered
      <3> QED
        BY <3>1, <3>2
    <2>2. view[w] = table
      <3>1. w > made /\ w \in Watch
        BY <1>1, <1>2, <1>3
      <3>2. \A v \in Watch : v > made => view[v] = [p \in PlugId |-> 0]
        BY <1>0 DEF Unborn
      <3> QED
        BY <2>1, <3>1, <3>2, Zenon
    <2> QED
      BY <1>2, <2>2 DEF Knows, Waits, tableVars, sinkVars
  <1>12. Informed'
    BY <1>0, <1>1, <1>6, <1>10, <1>11 DEF Informed
  <1> QED
    BY <1>7, <1>8, <1>9, <1>12 DEF WatchInv

LEMMA SnapshotIs ==
    ASSUME Typed, NEW w \in Watch
    PROVE  /\ Snapshot(w) \in Seq(Item) /\ Len(Snapshot(w)) = Cardinality(Registered)
           /\ Cardinality(Registered) \in Nat
           /\ \A i \in 1 .. Cardinality(Registered) :
                Snapshot(w)[i] = [watch |-> w, fact |-> [plugId |-> Row(i), generation |-> table[Row(i)],
                                                         available |-> TRUE]]
  <1>1. PICK n : n = Cardinality(Registered)
    OBVIOUS
  <1>2. n \in Nat /\ \A i \in 1 .. n : Row(i) \in Registered
    BY <1>1, RowsSort
  <1>3. ASSUME NEW i \in 1 .. n
        PROVE  [watch |-> w, fact |-> [plugId |-> Row(i), generation |-> table[Row(i)],
                                       available |-> TRUE]] \in Item
    <2>1. Row(i) \in PlugId /\ table[Row(i)] # 0
      BY <1>2 DEF Registered
    <2>2. table[Row(i)] \in Nat \ {0}
      BY <2>1 DEF Typed
    <2> QED
      BY <2>1, <2>2 DEF Item, Fact
  <1>4. PICK s : s = [i \in 1 .. n |-> [watch |-> w, fact |-> [plugId |-> Row(i), generation |-> table[Row(i)],
                                                               available |-> TRUE]]]
    OBVIOUS
  <1>5. s \in [1 .. n -> Item]
    BY <1>3, <1>4
  <1>6. s \in Seq(Item) /\ Len(s) = n
    BY <1>2, <1>5
  <1>7. s = Snapshot(w)
    BY <1>1, <1>4 DEF Snapshot
  <1> QED
    BY <1>1, <1>2, <1>4, <1>6, <1>7

LEMMA SnapshotKeeps ==
    ASSUME WatchInv, made < MaxWatch, made' = made + 1, active' = active \cup {made'},
           Snapshot(made') # <<>>, UNCHANGED <<tableVars, watchers>>,
           stack' = Append(stack, [joins |-> made', at |-> 1, work |-> Snapshot(made')]),
           Told(made', Snapshot(made')[1].fact)
    PROVE  WatchInv'
  <1>0. Typed /\ Passes /\ OneEach /\ Reached /\ Informed /\ Unborn /\ puzzled = {}
    BY DEF WatchInv
  <1>1. PICK w : w = made + 1
    OBVIOUS
  <1>2. /\ w \in Watch /\ w # 0 /\ w \notin active /\ ~Listed(w)
        /\ \A k \in 1 .. Len(stack) : stack[k].joins # w /\ ~Waits(stack[k], w)
    BY <1>0, <1>1, NewWatch
  <1>3. made \in Nat /\ MaxWatch \in Nat /\ w \in 0 .. MaxWatch
    BY <1>0, <1>1 DEF Typed
  <1>4. PICK work, n : work = Snapshot(w) /\ n = Cardinality(Registered)
    OBVIOUS
  <1>5. /\ work \in Seq(Item) /\ Len(work) = n /\ n \in Nat
        /\ \A i \in 1 .. n :
             work[i] = [watch |-> w, fact |-> [plugId |-> Row(i), generation |-> table[Row(i)],
                                               available |-> TRUE]]
    BY <1>0, <1>2, <1>4, SnapshotIs
  <1>6. \A i \in 1 .. n : /\ work[i].watch = w /\ work[i].fact.plugId = Row(i)
                          /\ work[i].fact.generation = table[Row(i)] /\ work[i].fact.available
    BY <1>5
  <1>7. n # 0 /\ 1 \in 1 .. n
    BY <1>1, <1>4, <1>5
  <1>8. /\ \A i \in 1 .. n : Row(i) \in Registered
        /\ \A i, j \in 1 .. n : Row(i) = Row(j) => i = j
        /\ \A p \in Registered : \E i \in 1 .. n : Row(i) = p
    BY <1>4, RowsSort
  <1>9. PICK g : g = [joins |-> w, at |-> 1, work |-> work]
    OBVIOUS
  <1>10. g.joins = w /\ g.at = 1 /\ g.work = work /\ g \in Frame
    BY <1>3, <1>5, <1>9 DEF Frame
  <1>11. PICK m \in Nat : m = Len(stack)
    BY <1>0 DEF Typed
  <1>12. /\ stack' \in Seq(Frame) /\ Len(stack') = m + 1 /\ stack'[m + 1] = g
         /\ \A k \in 1 .. m : stack'[k] = stack[k]
    BY <1>0, <1>1, <1>4, <1>9, <1>10, <1>11 DEF Typed
  <1>13. \A k \in 1 .. m + 1 : k = m + 1 \/ k \in 1 .. m
    OBVIOUS
  <1>14. PICK q : q = Row(1)
    OBVIOUS
  <1>15. q \in PlugId /\ table[q] \in Nat \ {0} /\ work[1].fact.plugId = q
    <2>1. q \in Registered
      BY <1>7, <1>8, <1>14
    <2> QED
      BY <1>0, <1>6, <1>7, <1>14, <2>1 DEF Registered, Typed
  <1>16. view \in [Watch -> [PlugId -> Nat]] /\ view[w] = [p \in PlugId |-> 0]
    <2>1. w > made
      BY <1>1, <1>3
    <2> QED
      BY <1>0, <1>2, <2>1 DEF Unborn, Typed
  <1>17. view' = [view EXCEPT ![w][q] = table[q]] /\ puzzled' = puzzled
    <2>1. /\ work[1].fact.plugId = q /\ work[1].fact.available /\ work[1].fact.generation = table[q]
      BY <1>6, <1>7, <1>14
    <2>2. view[w][q] = 0
      BY <1>15, <1>16
    <2>3. Told(w, work[1].fact)
      BY <1>1, <1>4
    <2> QED
      BY <2>1, <2>2, <2>3 DEF Told
  <1>18. /\ view' \in [Watch -> [PlugId -> Nat]]
         /\ \A v \in Watch : v # w => view'[v] = view[v]
         /\ \A p \in PlugId : view'[w][p] = IF p = q THEN table[p] ELSE 0
    BY <1>2, <1>15, <1>16, <1>17
  <1>19. \A v : Listed(v)' <=> Listed(v)
    BY DEF Listed
  <1>20. Typed'
    <2>1. Passing(g)
      BY <1>5, <1>7, <1>10 DEF Passing
    <2>2. \A k \in 1 .. Len(stack') : Passing(stack'[k])
      BY <1>0, <1>11, <1>12, <1>13, <2>1 DEF Typed
    <2>3. made' \in 0 .. MaxWatch /\ active' \subseteq 1 .. made' /\ 1 .. made \subseteq 1 .. made'
      BY <1>0, <1>3 DEF Typed
    <2>4. watchers' \in Seq(1 .. made')
      BY <1>0, <2>3, SeqMonotonic DEF Typed
    <2> QED
      BY <1>0, <1>12, <1>18, <2>2, <2>3, <2>4 DEF Typed, tableVars
  <1>21. Joining(g)'
    <2>1. ASSUME NEW i \in 1 .. n
          PROVE  /\ work[i].watch = w /\ work[i].fact.available
                 /\ work[i].fact.generation = table'[work[i].fact.plugId]
                 /\ view'[w][work[i].fact.plugId] = (IF i <= 1 THEN table'[work[i].fact.plugId] ELSE 0)
      <3>1. Row(i) \in PlugId
        BY <1>8 DEF Registered
      <3>2. Row(i) = q <=> i <= 1
        BY <1>5, <1>7, <1>8, <1>14
      <3> QED
        BY <1>6, <1>18, <3>1, <3>2 DEF tableVars
    <2>2. \A i, j \in 1 .. n : work[i].fact.plugId = work[j].fact.plugId => i = j
      BY <1>6, <1>8
    <2>3. ASSUME NEW p \in PlugId
          PROVE  \/ table'[p] = 0 /\ view'[w][p] = 0
                 \/ \E i \in 1 .. n : work[i].fact.plugId = p
      <3>1. CASE table[p] = 0
        BY <1>15, <1>18, <3>1 DEF tableVars
      <3>2. CASE table[p] # 0
        BY <1>6, <1>8, <3>2 DEF Registered
      <3> QED
        BY <3>1, <3>2
    <2>4. g.joins \in active' /\ ~Listed(g.joins)'
      BY <1>1, <1>2, <1>10, <1>19
    <2>5. \A i \in 1 .. Len(g.work) :
             /\ g.work[i].watch = g.joins /\ g.work[i].fact.available
             /\ g.work[i].fact.generation = table'[g.work[i].fact.plugId]
             /\ view'[g.joins][g.work[i].fact.plugId] = (IF i <= g.at THEN table'[g.work[i].fact.plugId] ELSE 0)
      BY <1>5, <1>10, <2>1
    <2>6. \A i, j \in 1 .. Len(g.work) : g.work[i].fact.plugId = g.work[j].fact.plugId => i = j
      BY <1>5, <1>10, <2>2
    <2>7. \A p \in PlugId : \/ table'[p] = 0 /\ view'[g.joins][p] = 0
                            \/ \E i \in 1 .. Len(g.work) : g.work[i].fact.plugId = p
      BY <1>5, <1>10, <2>3
    <2> QED
      BY <2>4, <2>5, <2>6, <2>7 DEF Joining
  <1>22. Passes'
    <2>1. \A k \in 1 .. m :
             \/ stack[k].joins = 0 /\ k = 1 /\ \A f : f = stack[k] => Telling(f)'
             \/ stack[k].joins # 0 /\ \A f : f = stack[k] => Joining(f)'
      BY <1>0, <1>1, <1>11, <1>18, <1>19, PassesStay DEF tableVars
    <2>2. ASSUME NEW k \in 1 .. m + 1
          PROVE  \/ stack'[k].joins = 0 /\ k = 1 /\ Telling(stack[k])'
                 \/ stack'[k].joins # 0 /\ Joining(stack[k])'
      <3>1. PICK x : x = stack'[k]
        OBVIOUS
      <3>2. \/ x.joins = 0 /\ k = 1 /\ Telling(x)'
            \/ x.joins # 0 /\ Joining(x)'
        BY <1>2, <1>10, <1>12, <1>13, <1>21, <2>1, <3>1
      <3> QED
        BY <3>1, <3>2
    <2> QED
      BY <1>12, <2>2 DEF Passes
  <1>23. OneEach'
    <2>1. \A k, l \in 1 .. m : stack'[k].joins = stack'[l].joins => k = l
      BY <1>0, <1>11, <1>12 DEF OneEach
    <2>2. \A k \in 1 .. m : stack'[k].joins # w
      BY <1>2, <1>11, <1>12
    <2> QED
      BY <1>10, <1>12, <1>13, <2>1, <2>2 DEF OneEach
  <1>24. Reached'
    <2>1. \E k \in 1 .. m + 1 : stack'[k].joins = w
      BY <1>10, <1>12
    <2>2. ASSUME NEW v \in active, ~Listed(v)
          PROVE  \E k \in 1 .. m + 1 : stack'[k].joins = v
      <3>1. PICK k \in 1 .. m : stack[k].joins = v
        BY <1>0, <1>11, <2>2 DEF Reached
      <3>2. k \in 1 .. m + 1 /\ stack'[k].joins = v
        BY <1>12, <3>1
      <3> QED
        BY <3>2
    <2> QED
      BY <1>1, <1>12, <1>19, <2>1, <2>2 DEF Reached
  <1>25. Unborn'
    <2>1. ASSUME NEW v \in Watch, v > made'
          PROVE  view'[v] = [p \in PlugId |-> 0]
      <3>1. v > made /\ v # w
        BY <1>1, <1>3, <2>1 DEF Watch
      <3>2. view[v] = [p \in PlugId |-> 0]
        BY <1>0, <3>1 DEF Unborn
      <3> QED
        BY <1>18, <3>1, <3>2
    <2> QED
      BY <2>1 DEF Unborn
  <1>26. ASSUME NEW v \in active', Listed(v)'
         PROVE  Knows(v)'
    <2>1. v # w /\ v \in active /\ Listed(v)
      BY <1>1, <1>2, <1>19, <1>26
    <2>2. Knows(v) /\ view'[v] = view[v]
      BY <1>0, <1>18, <2>1, ActiveWatch DEF Informed
    <2>3. /\ \A k \in 1 .. m : Waits(stack'[k], v) <=> Waits(stack[k], v)
          /\ ~Waits(stack'[m + 1], v)
      BY <1>2, <1>10, <1>12 DEF Waits
    <2>4. (\A k \in 1 .. m + 1 : ~Waits(stack'[k], v)) => view'[v] = table'
      BY <1>11, <2>2, <2>3 DEF Knows, tableVars
    <2>5. ASSUME NEW k \in 1 .. m + 1, Waits(stack'[k], v)
          PROVE  view'[v] = Former(stack[k].work[1].fact)'
      <3>1. k \in 1 .. m
        BY <1>13, <2>3, <2>5
      <3>2. view[v] = Former(stack[k].work[1].fact)
        BY <1>11, <2>2, <2>3, <2>5, <3>1 DEF Knows
      <3>3. stack'[k].work = stack[k].work
        BY <1>12, <3>1
      <3> QED
        BY <2>2, <3>2, <3>3 DEF Former, tableVars
    <2> QED
      BY <1>12, <2>4, <2>5 DEF Knows
  <1> QED
    BY <1>0, <1>17, <1>20, <1>22, <1>23, <1>24, <1>25, <1>26 DEF WatchInv, Informed

LEMMA WatchKeeps ==
    ASSUME WatchInv, WatchBegins
    PROVE  WatchInv'
  <1>1. /\ made < MaxWatch /\ made' = made + 1 /\ active' = active \cup {made'} /\ UNCHANGED tableVars
    BY DEF WatchBegins
  <1>2. PICK work : work = Snapshot(made')
    OBVIOUS
  <1>3. CASE work = <<>> /\ watchers' = Append(watchers, made') /\ UNCHANGED <<stack, sinkVars>>
    <2>1. made' \in Watch
      BY <1>1 DEF WatchInv, Typed, Watch
    <2>2. Len(work) = Cardinality(Registered)
      BY <1>2, <2>1, SnapshotIs DEF WatchInv
    <2>3. Cardinality(Registered) = 0
      BY <1>3, <2>2
    <2>4. Registered = {}
      BY <2>3, RowsSort
    <2> QED
      BY <1>1, <1>3, <2>4, EmptySnapshotKeeps
  <1>4. CASE /\ work # <<>> /\ UNCHANGED watchers
             /\ stack' = Append(stack, [joins |-> made', at |-> 1, work |-> work])
             /\ Told(made', work[1].fact)
    BY <1>1, <1>2, <1>4, SnapshotKeeps
  <1> QED
    BY <1>2, <1>3, <1>4 DEF WatchBegins

-----------------------------------------------------------------------------
(* The theorems                                                            *)

LEMMA Unchanged ==
    ASSUME WatchInv, UNCHANGED <<table, newest, watchers, active, stack, made, view, puzzled>>
    PROVE  WatchInv'
  <1>1. \A w : Listed(w)' <=> Listed(w)
    BY DEF Listed
  <1>2. Typed' /\ OneEach' /\ Reached' /\ Unborn' /\ puzzled' = {}
    BY <1>1 DEF WatchInv, Typed, OneEach, Reached, Unborn
  <1>3. \A f : (Telling(f)' <=> Telling(f)) /\ (Joining(f)' <=> Joining(f))
    BY <1>1 DEF Telling, Joining
  <1>4. Passes'
    <2>1. ASSUME NEW k \in 1 .. Len(stack)
          PROVE  (Telling(stack[k])' <=> Telling(stack[k])) /\ (Joining(stack[k])' <=> Joining(stack[k]))
      <3>1. PICK x : x = stack[k] /\ x = stack'[k]
        OBVIOUS
      <3> QED
        BY <1>3, <3>1
    <2> QED
      BY <2>1 DEF Passes, WatchInv
  <1>5. \A w : Knows(w)' <=> Knows(w)
    BY DEF Knows, Former, Waits
  <1> QED
    BY <1>1, <1>2, <1>4, <1>5 DEF WatchInv, Informed

LEMMA WatchHolds == Spec => []WatchInv
  <1>1. Init => WatchInv
    <2> SUFFICES ASSUME Init
                 PROVE  WatchInv
      OBVIOUS
    <2>1. Typed
      BY DEF Init, Typed, Watch
    <2> QED
      BY <2>1 DEF Init, WatchInv, Passes, OneEach, Reached, Informed, Unborn
  <1>2. WatchInv /\ [Next]_vars => WatchInv'
    <2> SUFFICES ASSUME WatchInv, [Next]_vars
                 PROVE  WatchInv'
      OBVIOUS
    <2>1. CASE UNCHANGED vars
      <3>1. UNCHANGED <<table, newest, watchers, active, stack, made, view, puzzled>>
        BY <2>1 DEF vars, tableVars, sinkVars
      <3> QED
        BY <3>1, Unchanged
    <2>2. CASE \E p \in PlugId : Register(p) \/ \E g \in 1 .. MaxGen : Withdraw(p, g)
      BY <2>2, RegisterKeeps, WithdrawKeeps
    <2>3. CASE WatchBegins
      BY <2>3, WatchKeeps
    <2>4. CASE \E w \in Watch : Unsubscribe(w)
      BY <2>4, UnsubscribeKeeps
    <2>5. CASE \E fine \in BOOLEAN : SinkReturns(fine)
      BY <2>5, ReturnKeeps
    <2> QED
      BY <2>1, <2>2, <2>3, <2>4, <2>5 DEF Next
  <1> QED
    BY <1>1, <1>2, PTL DEF Spec

\* Between passes every active watcher knows exactly the table, however the sinks
\* nested, failed and unsubscribed; and none was told what it knew (watch(),
\* deliver(), notifyActiveWatchers()).
THEOREM WatchersKnowTheTable == Spec => []ViewIsTable
  <1>1. WatchInv => ViewIsTable
    BY KnowAtRest DEF ViewIsTable, WatchInv
  <1> QED
    BY <1>1, WatchHolds, PTL

LEMMA OnlyActiveAreTold ==
    ASSUME Typed, NEW w \in 1 .. made, w \notin active, NEW f, NEW i, NEW below, NEW joins,
           Proceed(f, i, below, joins)
    PROVE  view'[w] = view[w]
  <1>1. w \in Watch /\ view \in [Watch -> [PlugId -> Nat]]
    BY DEF Typed, Watch
  <1>2. CASE UNCHANGED sinkVars
    BY <1>2 DEF sinkVars
  <1>3. CASE \E j \in {j \in DOMAIN f.work : j > i /\ Hears(f.work[j].watch)} :
               Told(f.work[j].watch, f.work[j].fact)
    <2>1. PICK v, fact : v \in active /\ Told(v, fact)
      BY <1>3 DEF Hears
    <2>2. PICK e : view' = [view EXCEPT ![v][fact.plugId] = e]
      BY <2>1 DEF Told
    <2> QED
      BY <1>1, <2>1, <2>2
  <1> QED
    BY <1>2, <1>3 DEF Proceed, Copy

\* unsubscribe() stops all further notifications, those of the pass under way too:
\* whoever has unsubscribed is told nothing, by any operation (caps.ts, the check of
\* record.active).
THEOREM UnsubscribedHearNothing == Spec => InactiveHearsNothing
  <1>1. WatchInv /\ [Next]_vars => [\A w \in 1 .. made : w \notin active => view'[w] = view[w]]_vars
    <2> SUFFICES ASSUME WatchInv, Next, NEW w \in 1 .. made, w \notin active
                 PROVE  view'[w] = view[w]
      OBVIOUS
    <2>0. Typed
      BY DEF WatchInv
    <2>1. CASE \E p \in PlugId : Register(p) \/ \E g \in 1 .. MaxGen : Withdraw(p, g)
      <3>1. PICK f : Proceed(f, 0, <<>>, 0)
        BY <2>1 DEF Register, Withdraw, Notify
      <3> QED
        BY <2>0, <3>1, OnlyActiveAreTold
    <2>2. CASE WatchBegins
      <3>1. made \in Nat /\ made' = made + 1 /\ w # made' /\ w \in Watch /\ view \in [Watch -> [PlugId -> Nat]]
        BY <2>0, <2>2 DEF WatchBegins, Typed, Watch
      <3>2. CASE UNCHANGED sinkVars
        BY <3>2 DEF sinkVars
      <3>3. CASE \E fact : Told(made', fact)
        <4>1. PICK fact, e : view' = [view EXCEPT ![made'][fact.plugId] = e]
          BY <3>3 DEF Told
        <4> QED
          BY <3>1, <4>1
      <3> QED
        BY <2>2, <3>2, <3>3 DEF WatchBegins
    <2>3. CASE \E v \in Watch : Unsubscribe(v)
      BY <2>3 DEF Unsubscribe, sinkVars
    <2>4. CASE \E fine \in BOOLEAN : SinkReturns(fine)
      <3>1. PICK f, i, below, joins : Proceed(f, i, below, joins)
        BY <2>4 DEF SinkReturns
      <3> QED
        BY <2>0, <3>1, OnlyActiveAreTold
    <2> QED
      BY <2>1, <2>2, <2>3, <2>4 DEF Next
  <1> QED
    BY <1>1, WatchHolds, PTL DEF Spec, InactiveHearsNothing
=============================================================================
