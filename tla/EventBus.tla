------------------------------ MODULE EventBus ------------------------------
(***************************************************************************)
(* The event bus of the TypeScript rack, ts/src/core/events.ts: a bounded  *)
(* FIFO queue, subscriptions keyed by a token and attributed to an owner,  *)
(* and drain() passes that await one sink at a time.                       *)
(*                                                                         *)
(* An action runs from one await of drain() to the next.  Everything else, *)
(* by sinks too, may happen in between: publish, subscribe, unsubscribe,   *)
(* another drain().  Events are numbered as they are published.            *)
(***************************************************************************)
EXTENDS Integers, Sequences, FiniteSets

CONSTANTS
    Owner,      \* plugins: owners of subscriptions
    Name,       \* event names
    Drainer,    \* flows of the host that drain: start() and poll()
    Capacity,   \* of the queue
    DispatchBudget, \* of a pass
    MaxTokens, MaxEvents    \* bounds on subscriptions and events

ASSUME EventBusAssumption ==
    /\ Capacity \in Nat \ {0} /\ DispatchBudget \in Nat \ {0}
    /\ MaxTokens \in Nat /\ MaxEvents \in Nat

VARIABLES
    subs,       \* the name and owner of every token ever given
    live,       \* the tokens in the subscriptions map
    queue,      \* numbers of the queued events
    draining,   \* the flag of drain()
    pass,       \* the drain() of each drainer and the deliver() in it
    \* What happened:
    named,      \* the name of every event published
    taken,      \* the events dequeued
    since,      \* what had been dequeued when a token was given
    got         \* what a token's sink was called with, in order

subVars == <<subs, live, since>>
queueVars == <<queue, named>>
vars == <<subVars, queueVars, draining, pass, taken, got>>

Token == 1 .. MaxTokens
Event == 1 .. MaxEvents
Idle == [at |-> "idle", left |-> 0, event |-> 0, tokens |-> {}]

Init ==
    /\ subs = <<>> /\ live = {} /\ since = <<>> /\ got = <<>>
    /\ queue = <<>> /\ named = <<>> /\ taken = {}
    /\ draining = FALSE
    /\ pass = [d \in Drainer |-> Idle]

-----------------------------------------------------------------------------
(* Subscribers and publishers                                              *)

Subscribe(name, owner) ==
    /\ Len(subs) < MaxTokens
    /\ subs' = Append(subs, [name |-> name, owner |-> owner])
    /\ live' = live \cup {Len(subs) + 1}
    /\ since' = Append(since, taken)
    /\ got' = Append(got, <<>>)
    /\ UNCHANGED <<queueVars, draining, pass, taken>>

Unsubscribe(t) ==
    /\ t \in live
    /\ live' = live \ {t}
    /\ UNCHANGED <<subs, since, queueVars, draining, pass, taken, got>>

\* The host's, when the owner is unloaded.
UnsubscribeAll(owner) ==
    /\ \E t \in live : subs[t].owner = owner
    /\ live' = {t \in live : subs[t].owner # owner}
    /\ UNCHANGED <<subs, since, queueVars, draining, pass, taken, got>>

\* At capacity it throws 'limit_exceeded'.
Fits == Len(queue) < Capacity

Publish(name) ==
    /\ Len(named) < MaxEvents /\ Fits
    /\ named' = Append(named, name)
    /\ queue' = Append(queue, Len(named) + 1)
    /\ UNCHANGED <<subVars, draining, pass, taken, got>>

-----------------------------------------------------------------------------
(* drain()                                                                 *)

\* The tokens of deliver() are checked again before each call.
\* (mutant: they are not)
Unchecked(tokens) == tokens
Callable(tokens) == tokens \cap live

\* deliver() calls the next sink of event e, or returns to the loop of drain().
Deliver(d, left, e, tokens) ==
    LET callable == Callable(tokens)
    IN  \/ /\ callable = {}
           /\ pass' = [pass EXCEPT ![d] = [Idle EXCEPT !.at = "loop", !.left = left]]
           /\ UNCHANGED got
        \/ \E t \in callable :
             /\ \A u \in callable : t <= u
             /\ pass' = [pass EXCEPT ![d] = [at |-> "sink", left |-> left, event |-> e,
                                             tokens |-> {u \in tokens : u > t}]]
             /\ got' = [got EXCEPT ![t] = Append(@, e)]

\* shift(), and the snapshot of deliver(): all that match now.
Dequeue(d, budget) ==
    LET e == Head(queue)
    IN  /\ queue' = Tail(queue) /\ taken' = taken \cup {e}
        /\ Deliver(d, budget - 1, e, {t \in live : subs[t].name = named[e]})

\* A drain() beside another resolves to 0.  (mutant: it runs)
AlwaysOpen == TRUE
PassOpen == ~draining

\* A pass over an empty queue changes nothing.
Drain(d) ==
    /\ pass[d].at = "idle" /\ PassOpen
    /\ queue # <<>>
    /\ draining' = TRUE
    /\ Dequeue(d, DispatchBudget)
    /\ UNCHANGED <<subVars, named>>

DrainOn(d) ==
    /\ pass[d].at = "loop" /\ pass[d].left > 0 /\ queue # <<>>
    /\ Dequeue(d, pass[d].left)
    /\ UNCHANGED <<subVars, named, draining>>

\* The finally clause.  (mutant: only when the budget was used up)
ResetOnBudget(d) == pass[d].left # 0
DrainingAfter(d) == FALSE

DrainEnds(d) ==
    /\ pass[d].at = "loop" /\ (pass[d].left = 0 \/ queue = <<>>)
    /\ draining' = DrainingAfter(d)
    /\ pass' = [pass EXCEPT ![d] = Idle]
    /\ UNCHANGED <<subVars, queueVars, taken, got>>

\* A sink's failure is reported and the next one called: of the snapshot.
\* (mutant: the rest is skipped)
RestIfFine(d, fine) == IF fine THEN pass[d].tokens ELSE {}
Rest(d, fine) == pass[d].tokens

SinkReturns(d, fine) ==
    /\ pass[d].at = "sink"
    /\ Deliver(d, pass[d].left, pass[d].event, Rest(d, fine))
    /\ UNCHANGED <<subVars, queueVars, draining, taken>>

Pass(d) == Drain(d) \/ DrainOn(d) \/ DrainEnds(d) \/ \E fine \in BOOLEAN : SinkReturns(d, fine)

Next ==
    \/ \E n \in Name : Publish(n) \/ \E o \in Owner : Subscribe(n, o)
    \/ \E t \in Token : Unsubscribe(t)
    \/ \E o \in Owner : UnsubscribeAll(o)
    \/ \E d \in Drainer : Pass(d)

Spec == Init /\ [][Next]_vars

\* Sinks return and the host polls again: both are the plugins' and the
\* program's own part.
FairSpec == Spec /\ WF_vars(\E d \in Drainer : Pass(d))

-----------------------------------------------------------------------------
(* Correctness properties                                                  *)

TypeOK ==
    /\ subs \in Seq([name : Name, owner : Owner]) /\ Len(subs) <= MaxTokens
    /\ live \subseteq DOMAIN subs
    /\ queue \in Seq(DOMAIN named) /\ Len(queue) <= Capacity
    /\ draining \in BOOLEAN
    /\ pass \in [Drainer -> [at : {"idle", "loop", "sink"}, left : 0 .. DispatchBudget - 1,
                             event : Event \cup {0}, tokens : SUBSET Token]]
    /\ named \in Seq(Name) /\ Len(named) <= MaxEvents /\ taken \subseteq Event
    /\ since \in Seq(SUBSET Event) /\ Len(since) = Len(subs)
    /\ got \in Seq(Seq(Event)) /\ Len(got) = Len(subs)

\* drain(): "serially in global FIFO order": no subscriber is given an event
\* twice or after a later one, whatever flows drain at the same time and
\* however often a pass is left and entered.
FifoOnce ==
    \A t \in DOMAIN got : \A i, j \in DOMAIN got[t] : i < j => got[t][i] < got[t][j]

\* subscribe(): a subscription is only given events of its name that were
\* dequeued after it was made, also when it is made inside their delivery.
NotBeforeSubscribing ==
    \A t \in DOMAIN got : \A i \in DOMAIN got[t] :
        LET e == got[t][i] IN named[e] = subs[t].name /\ e \notin since[t]

\* deliver(): a subscription that is still there has been given every event of
\* its name whose delivery, begun after it was made, is over: failing sinks and
\* others that come and go meanwhile lose it nothing.
NoneMissed ==
    \A t \in live : \A e \in taken \ since[t] :
        (named[e] = subs[t].name /\ \A d \in Drainer : pass[d].event # e) =>
            \E i \in DOMAIN got[t] : got[t][i] = e

\* unsubscribe(), unsubscribeAll(): nothing is delivered to a subscription that
\* is gone, though it was there when the event's delivery began.
GoneHearsNothing ==
    [][\A t \in DOMAIN got : got'[t] # got[t] => t \in live]_vars

\* Every event in the queue is dequeued in the end, if sinks return and the
\* host goes on draining.
AllDequeued == \A e \in Event : (e \in DOMAIN named) ~> (e \in taken)
=============================================================================
