------------------------------ MODULE CapWatch ------------------------------
(***************************************************************************)
(* The watchers of the capability registry of the TypeScript rack,         *)
(* ts/src/core/caps.ts: register() and withdraw() tell every watcher a     *)
(* fact, watch() tells a new one the snapshot and then adds it.  Sinks are *)
(* called synchronously and may call watch() and unsubscribe() themselves: *)
(* the passes under way form a stack.                                      *)
(*                                                                         *)
(* The host registers and withdraws with its callback depth raised, where  *)
(* a sink's own load or unload is refused or put off (host.ts:561): so     *)
(* both begin on an empty stack here.  Left out: a sink that is called in  *)
(* a watch() made outside callbacks and unloads through the rack itself.   *)
(***************************************************************************)
EXTENDS Integers, SequencesExt

CONSTANTS
    PlugId,     \* providers; < is the order of their UTF-8 bytes
    MaxGen,     \* bound on the generations of a provider
    MaxWatch    \* bound on the calls of watch()

ASSUME CapWatchAssumption ==
    PlugId \subseteq Int /\ IsFiniteSet(PlugId) /\ MaxGen \in Nat /\ MaxWatch \in Nat

VARIABLES
    table,      \* the generation registered for each provider, 0 for none
    watchers,   \* the list of watch records, in the order they were added
    active,     \* the records not unsubscribed
    stack,      \* the passes under way, the innermost last, each inside a sink: its work,
                \* where it is in it, and joins, the record watch() adds after it or 0
    \* What happened:
    made,       \* how often watch() was called: records are numbered
    newest,     \* the last generation of each provider
    view,       \* what a sink knows: the generation it was told of, 0 for none
    puzzled     \* sinks told what they knew, or that what they did not know is gone

tableVars == <<table, newest>>
sinkVars == <<view, puzzled>>
vars == <<tableVars, watchers, active, stack, made, sinkVars>>

Watch == 1 .. MaxWatch

Init ==
    /\ table = [p \in PlugId |-> 0] /\ newest = [p \in PlugId |-> 0]
    /\ watchers = <<>> /\ active = {} /\ stack = <<>>
    /\ made = 0 /\ view = [w \in Watch |-> [p \in PlugId |-> 0]] /\ puzzled = {}

-----------------------------------------------------------------------------
(* Passes                                                                  *)

\* deliver(): what the sink of w makes of a fact.
Told(w, fact) ==
    LET known == view[w][fact.plugId]
    IN  /\ view' = [view EXCEPT ![w][fact.plugId] = IF fact.available THEN fact.generation ELSE 0]
        /\ puzzled' = IF known = (IF fact.available THEN 0 ELSE fact.generation)
                      THEN puzzled ELSE puzzled \cup {w}

\* A record is looked at when its turn comes.  (mutant: it is not)
AnyHears(w) == TRUE
Hears(w) == w \in active

\* watch() adds its record, also when the sink failed.  (mutant: not then)
JoinsIfFine(frame, fine) == IF fine THEN frame.joins ELSE 0
Joins(frame, fine) == frame.joins

\* notifyActiveWatchers() goes over a copy of the list.  (mutant: the list)
LiveList(frame) ==
    IF frame.joins # 0 THEN frame.work
    ELSE [i \in DOMAIN watchers |-> [watch |-> watchers[i], fact |-> frame.work[1].fact]]
Copy(frame) == frame.work

\* The work of the pass after position `at`, on top of the stack `below`, until
\* a sink is called or all of it is done.
Proceed(frame, after, below, joins) ==
    LET work == Copy(frame)
        turn == {i \in DOMAIN work : i > after /\ Hears(work[i].watch)}
    IN  \/ /\ turn = {}
           /\ stack' = below
           /\ watchers' = IF joins = 0 THEN watchers ELSE Append(watchers, joins)
           /\ UNCHANGED sinkVars
        \/ \E i \in turn :
             /\ \A j \in turn : i <= j
             /\ stack' = Append(below, [frame EXCEPT !.at = i])
             /\ Told(work[i].watch, work[i].fact)
             /\ UNCHANGED watchers

Notify(fact) ==
    Proceed([joins |-> 0, at |-> 1,
             work |-> [i \in DOMAIN watchers |-> [watch |-> watchers[i], fact |-> fact]]],
            0, <<>>, 0)

\* A sink returns or throws: the innermost pass goes on.
SinkReturns(fine) ==
    /\ stack # <<>>
    /\ LET frame == Last(stack)
       IN  Proceed(frame, frame.at, Front(stack), Joins(frame, fine))
    /\ UNCHANGED <<tableVars, active, made>>

-----------------------------------------------------------------------------
(* Operations                                                              *)

Register(p) ==
    /\ stack = <<>>
    /\ table[p] = 0 /\ newest[p] < MaxGen
    /\ newest' = [newest EXCEPT ![p] = @ + 1]
    /\ table' = [table EXCEPT ![p] = newest'[p]]
    /\ Notify([plugId |-> p, generation |-> newest'[p], available |-> TRUE])
    /\ UNCHANGED <<active, made>>

\* Of another generation it does nothing.
Withdraw(p, g) ==
    /\ stack = <<>>
    /\ g # 0 /\ table[p] = g
    /\ table' = [table EXCEPT ![p] = 0]
    /\ Notify([plugId |-> p, generation |-> g, available |-> FALSE])
    /\ UNCHANGED <<newest, active, made>>

\* currentEvents(): the providers registered, and the i-th of them in order.
Registered == {p \in PlugId : table[p] # 0}
Row(i) == CHOOSE p \in Registered : Cardinality({q \in Registered : q < p}) = i - 1

\* currentEvents(), to the record w.
Snapshot(w) ==
    [i \in 1 .. Cardinality(Registered) |->
        [watch |-> w, fact |-> [plugId |-> Row(i), generation |-> table[Row(i)], available |-> TRUE]]]

\* watch(), by a plugin or inside a sink.
WatchBegins ==
    /\ made < MaxWatch
    /\ made' = made + 1
    /\ active' = active \cup {made'}
    /\ LET frame == [joins |-> made', at |-> 1, work |-> Snapshot(made')]
       IN  IF frame.work = <<>>
           THEN watchers' = Append(watchers, made') /\ UNCHANGED <<stack, sinkVars>>
           ELSE /\ stack' = Append(stack, frame)
                /\ Told(made', frame.work[1].fact)
                /\ UNCHANGED watchers
    /\ UNCHANGED tableVars

\* The handle is there when watch() has returned.
Unsubscribe(w) ==
    /\ w \in Range(watchers) /\ w \in active
    /\ active' = active \ {w}
    /\ UNCHANGED <<tableVars, watchers, stack, made, sinkVars>>

Next ==
    \/ \E p \in PlugId : Register(p) \/ \E g \in 1 .. MaxGen : Withdraw(p, g)
    \/ WatchBegins
    \/ \E w \in Watch : Unsubscribe(w)
    \/ \E fine \in BOOLEAN : SinkReturns(fine)

Spec == Init /\ [][Next]_vars

-----------------------------------------------------------------------------
(* Correctness properties                                                  *)

\* watch(): between passes every active watcher knows exactly the table, whoever
\* watched, unsubscribed or failed inside whose callbacks; and "no fact can be observed
\* twice": a watcher that joins inside a pass is not told again what its snapshot
\* told it.
ViewIsTable ==
    /\ stack = <<>> => \A w \in active : view[w] = table
    /\ puzzled = {}

\* unsubscribe() "stops all further notifications", also of the pass under way.
InactiveHearsNothing == [][\A w \in 1 .. made : w \notin active => view'[w] = view[w]]_vars
=============================================================================
