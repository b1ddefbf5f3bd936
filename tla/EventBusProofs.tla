--------------------------- MODULE EventBusProofs ---------------------------
(***************************************************************************)
(* Proofs about the event bus, for any number of drainers, subscriptions   *)
(* and events, any capacity and any budget.                                *)
(***************************************************************************)
EXTENDS EventBus, SequenceTheorems, TLAPS

USE EventBusAssumption

\* Numbers rise along the queue, above those of the events that left it.
Numbered ==
    /\ \A i, j \in DOMAIN queue : i < j => queue[i] < queue[j]
    /\ \A x \in taken : x \in DOMAIN named /\ \A i \in DOMAIN queue : x < queue[i]

\* The flag keeps passes apart.
OnePass ==
    /\ \A d \in Drainer : pass[d].at # "idle" => draining
    /\ \A c, d \in Drainer : (pass[c].at # "idle" /\ pass[d].at # "idle") => c = d

\* A subscription an event is due to: older than its delivery, and not past it.
Due(t, e) ==
    /\ t \in DOMAIN subs
    /\ subs[t].name = named[e] /\ e \notin since[t]
    /\ \A i \in DOMAIN got[t] : got[t][i] < e

\* The event being delivered is the last one taken, and due to all still waiting.
Current ==
    \A d \in Drainer : pass[d].at = "sink" =>
        /\ pass[d].event \in taken
        /\ \A t \in pass[d].tokens : Due(t, pass[d].event)

\* Sinks have heard events that were taken.
Heard ==
    /\ \A t \in DOMAIN subs : since[t] \subseteq taken
    /\ \A t \in DOMAIN got : \A i \in DOMAIN got[t] : got[t][i] \in taken

IInv ==
    /\ TypeOK /\ Numbered /\ OnePass /\ Current /\ Heard
    /\ FifoOnce /\ NotBeforeSubscribing

-----------------------------------------------------------------------------
(* Delivery                                                                *)

\* What the typing of sequences says of their indices.
LEMMA Indices ==
    ASSUME TypeOK
    PROVE  /\ Len(subs) \in Nat /\ DOMAIN subs = 1 .. Len(subs)
           /\ Len(named) \in Nat /\ DOMAIN named = 1 .. Len(named)
           /\ Len(queue) \in Nat /\ DOMAIN queue = 1 .. Len(queue)
           /\ DOMAIN since = DOMAIN subs /\ DOMAIN got = DOMAIN subs
           /\ DOMAIN subs \subseteq Token /\ DOMAIN named \subseteq Event
           /\ \A t \in DOMAIN got : got[t] \in Seq(Event)
  BY DEF TypeOK, Token, Event

\* One call of a sink with an event due to it, or none: what sinks have heard
\* stays in order, and the event stays due to those that still wait.
LEMMA DeliverStep ==
    ASSUME IInv, NEW d \in Drainer, NEW left \in 0 .. DispatchBudget - 1,
           NEW e \in Event, NEW tokens \in SUBSET Token,
           \A t \in tokens : Due(t, e),
           e \in taken', taken \subseteq taken', taken' \subseteq Event,
           UNCHANGED <<subVars, named>>,
           Deliver(d, left, e, tokens)
    PROVE  /\ got' \in Seq(Seq(Event)) /\ Len(got') = Len(subs)
           /\ Heard' /\ FifoOnce' /\ NotBeforeSubscribing'
           /\ pass' \in [Drainer -> [at : {"idle", "loop", "sink"}, left : 0 .. DispatchBudget - 1,
                                     event : Event \cup {0}, tokens : SUBSET Token]]
           /\ \A c \in Drainer \ {d} : pass'[c] = pass[c]
           /\ pass'[d].at \in {"loop", "sink"}
           /\ pass'[d].at = "sink" =>
                /\ pass'[d].event = e
                /\ \A t \in pass'[d].tokens : Due(t, e)'
  <1> USE Indices DEF IInv
  <1>1. /\ subs' = subs /\ since' = since /\ named' = named
        /\ DOMAIN got = DOMAIN subs /\ DOMAIN subs \subseteq Nat
    BY DEF subVars, TypeOK
  <1>2. CASE Callable(tokens) = {}
    <2>1. /\ got' = got
          /\ pass' = [pass EXCEPT ![d] = [Idle EXCEPT !.at = "loop", !.left = left]]
      BY <1>2 DEF Deliver
    <2>2. pass' \in [Drainer -> [at : {"idle", "loop", "sink"}, left : 0 .. DispatchBudget - 1,
                                 event : Event \cup {0}, tokens : SUBSET Token]]
      BY <2>1 DEF TypeOK, Idle
    <2>3. pass'[d].at = "loop" /\ \A c \in Drainer \ {d} : pass'[c] = pass[c]
      BY <2>1 DEF TypeOK, Idle
    <2>4. Heard' /\ FifoOnce' /\ NotBeforeSubscribing'
      BY <1>1, <2>1 DEF Heard, FifoOnce, NotBeforeSubscribing
    <2> QED
      BY <2>1, <2>2, <2>3, <2>4 DEF TypeOK
  <1>3. ASSUME NEW t \in Callable(tokens),
               pass' = [pass EXCEPT ![d] = [at |-> "sink", left |-> left, event |-> e,
                                            tokens |-> {u \in tokens : u > t}]],
               got' = [got EXCEPT ![t] = Append(@, e)]
        PROVE  /\ got' \in Seq(Seq(Event)) /\ Len(got') = Len(subs)
               /\ Heard' /\ FifoOnce' /\ NotBeforeSubscribing'
               /\ pass' \in [Drainer -> [at : {"idle", "loop", "sink"}, left : 0 .. DispatchBudget - 1,
                                         event : Event \cup {0}, tokens : SUBSET Token]]
               /\ \A c \in Drainer \ {d} : pass'[c] = pass[c]
               /\ pass'[d].at = "sink" /\ pass'[d].event = e
               /\ \A u \in pass'[d].tokens : Due(u, e)'
    <2>1. t \in tokens /\ Due(t, e) /\ t \in DOMAIN got
      BY <1>1, <1>3 DEF Callable, Due
    <2>2. got[t] \in Seq(Event) /\ Append(got[t], e) \in Seq(Event)
      BY <2>1
    <2>3. got' \in Seq(Seq(Event)) /\ Len(got') = Len(got) /\ DOMAIN got' = DOMAIN got
      BY <1>3, <2>1, <2>2, ExceptSeq DEF TypeOK
    <2>4. /\ got'[t] = Append(got[t], e)
          /\ \A u \in DOMAIN got \ {t} : got'[u] = got[u]
      BY <1>3, <2>1
    <2>5. /\ Len(got[t]) \in Nat /\ DOMAIN got[t] = 1 .. Len(got[t])
          /\ DOMAIN got'[t] = 1 .. Len(got[t]) + 1
          /\ got'[t][Len(got[t]) + 1] = e
          /\ \A i \in DOMAIN got[t] : got'[t][i] = got[t][i]
      BY <2>2, <2>4
    <2>6. Heard'
      <3>1. \A u \in DOMAIN subs' : since'[u] \subseteq taken'
        BY <1>1 DEF Heard
      <3>2. ASSUME NEW u \in DOMAIN got, NEW i \in DOMAIN got'[u]
            PROVE  got'[u][i] \in taken'
        <4>1. CASE u # t
          BY <2>4, <4>1 DEF Heard
        <4>2. CASE u = t
          BY <2>5, <4>2, <3>2 DEF Heard
        <4> QED
          BY <4>1, <4>2
      <3> QED
        BY <2>3, <3>1, <3>2 DEF Heard
    <2>7. FifoOnce'
      <3> SUFFICES ASSUME NEW u \in DOMAIN got, NEW i \in DOMAIN got'[u],
                          NEW j \in DOMAIN got'[u], i < j
                   PROVE  got'[u][i] < got'[u][j]
        BY <2>3 DEF FifoOnce
      <3>1. CASE u # t
        BY <2>4, <3>1 DEF FifoOnce
      <3>2. CASE u = t /\ j \in DOMAIN got[t]
        <4>1. i \in DOMAIN got[t]
          BY <2>5, <3>2
        <4> QED
          BY <2>5, <3>2, <4>1 DEF FifoOnce
      <3>3. CASE u = t /\ j = Len(got[t]) + 1
        <4>1. i \in DOMAIN got[t] /\ got'[t][j] = e
          BY <2>5, <3>3
        <4> QED
          BY <2>1, <2>5, <3>3, <4>1 DEF Due
      <3> QED
        BY <2>5, <3>1, <3>2, <3>3
    <2>8. NotBeforeSubscribing'
      <3> SUFFICES ASSUME NEW u \in DOMAIN got, NEW i \in DOMAIN got'[u]
                   PROVE  named[got'[u][i]] = subs[u].name /\ got'[u][i] \notin since[u]
        BY <1>1, <2>3 DEF NotBeforeSubscribing
      <3>1. CASE u # t
        BY <2>4, <3>1 DEF NotBeforeSubscribing
      <3>2. CASE u = t /\ i \in DOMAIN got[t]
        BY <2>5, <3>2 DEF NotBeforeSubscribing
      <3>3. CASE u = t /\ i = Len(got[t]) + 1
        BY <2>1, <2>5, <3>3 DEF Due
      <3> QED
        BY <2>5, <3>1, <3>2, <3>3
    <2>9. /\ pass'[d].at = "sink" /\ pass'[d].event = e
          /\ pass'[d].tokens = {u \in tokens : u > t}
          /\ \A c \in Drainer \ {d} : pass'[c] = pass[c]
      BY <1>3 DEF TypeOK
    <2>10. pass' \in [Drainer -> [at : {"idle", "loop", "sink"}, left : 0 .. DispatchBudget - 1,
                                  event : Event \cup {0}, tokens : SUBSET Token]]
      BY <1>3 DEF TypeOK
    <2>11. ASSUME NEW u \in pass'[d].tokens
           PROVE  Due(u, e)'
      <3>1. u \in tokens /\ u # t /\ Due(u, e)
        BY <2>1, <2>9, <1>1 DEF Due
      <3>2. got'[u] = got[u]
        BY <1>1, <2>4, <3>1 DEF Due
      <3> QED
        BY <1>1, <3>1, <3>2 DEF Due
    <2> QED
      BY <2>3, <2>6, <2>7, <2>8, <2>9, <2>10, <2>11, <1>1 DEF TypeOK
  <1> QED
    BY <1>2, <1>3 DEF Deliver

-----------------------------------------------------------------------------
(* The inductive invariant                                                 *)

LEMMA InitIInv == Init => IInv
  <1> SUFFICES ASSUME Init
               PROVE  IInv
    OBVIOUS
  <1>1. TypeOK
    <2>1. /\ subs \in Seq([name : Name, owner : Owner]) /\ Len(subs) = 0
          /\ queue \in Seq(DOMAIN named) /\ Len(queue) = 0
          /\ named \in Seq(Name) /\ Len(named) = 0
          /\ since \in Seq(SUBSET Event) /\ Len(since) = 0
          /\ got \in Seq(Seq(Event)) /\ Len(got) = 0
      BY DEF Init
    <2>2. pass \in [Drainer -> [at : {"idle", "loop", "sink"}, left : 0 .. DispatchBudget - 1,
                                event : Event \cup {0}, tokens : SUBSET Token]]
      BY DEF Init, Idle
    <2>3. live \subseteq DOMAIN subs /\ taken \subseteq Event
      BY DEF Init
    <2>4. draining \in BOOLEAN
      BY DEF Init
    <2>5. Len(subs) <= MaxTokens /\ Len(queue) <= Capacity /\ Len(named) <= MaxEvents
      BY <2>1
    <2>6. Len(since) = Len(subs) /\ Len(got) = Len(subs)
      BY <2>1
    <2> QED
      BY <2>1, <2>2, <2>3, <2>4, <2>5, <2>6, Zenon DEF TypeOK
  <1>2. Numbered /\ OnePass /\ Current /\ Heard
    BY DEF Init, Numbered, OnePass, Current, Heard, Idle
  <1>3. FifoOnce /\ NotBeforeSubscribing
    BY DEF Init, FifoOnce, NotBeforeSubscribing
  <1> QED
    BY <1>1, <1>2, <1>3 DEF IInv

\* shift() and the first call of a sink.
LEMMA DequeueStep ==
    ASSUME IInv, NEW d \in Drainer, NEW budget \in 1 .. DispatchBudget,
           queue # <<>>, Dequeue(d, budget), UNCHANGED <<subVars, named>>,
           draining', \A c \in Drainer \ {d} : pass[c].at = "idle"
    PROVE  IInv'
  <1> USE Indices DEF IInv
  <1>a. PICK e : e = Head(queue)
    OBVIOUS
  <1>b. PICK tokens : tokens = {t \in live : subs[t].name = named[e]}
    OBVIOUS
  <1>1. /\ queue' = Tail(queue) /\ taken' = taken \cup {e}
        /\ Deliver(d, budget - 1, e, tokens)
        /\ subs' = subs /\ live' = live /\ since' = since /\ named' = named
    BY <1>a, <1>b DEF Dequeue, subVars
  <1>2. /\ queue \in Seq(DOMAIN named) /\ Len(queue) # 0 /\ e = queue[1] /\ e \in DOMAIN named
        /\ 1 \in DOMAIN queue
        /\ queue' \in Seq(DOMAIN named) /\ Len(queue') = Len(queue) - 1
        /\ \A i \in DOMAIN queue' : i + 1 \in DOMAIN queue /\ queue'[i] = queue[i + 1]
    BY <1>1, <1>a DEF TypeOK
  <1>3. e \in Event /\ taken' \subseteq Event /\ e \in taken' /\ taken \subseteq taken'
    BY <1>1, <1>2 DEF TypeOK
  <1>4. \A x \in taken : x < e
    BY <1>2 DEF Numbered
  <1>5. e \notin taken
    BY <1>4, <1>3 DEF Event
  <1>6. \A t \in tokens : Due(t, e)
    <2> SUFFICES ASSUME NEW t \in tokens
                 PROVE  Due(t, e)
      OBVIOUS
    <2>1. t \in DOMAIN subs /\ t \in DOMAIN got /\ subs[t].name = named[e]
      BY <1>b DEF TypeOK
    <2>2. e \notin since[t]
      BY <1>5, <2>1 DEF Heard
    <2>3. \A i \in DOMAIN got[t] : got[t][i] < e
      BY <1>4, <2>1 DEF Heard
    <2> QED
      BY <2>1, <2>2, <2>3 DEF Due
  <1>7. tokens \in SUBSET Token /\ budget - 1 \in 0 .. DispatchBudget - 1
    BY <1>b DEF TypeOK
  <1>8. /\ got' \in Seq(Seq(Event)) /\ Len(got') = Len(subs)
        /\ Heard' /\ FifoOnce' /\ NotBeforeSubscribing'
        /\ pass' \in [Drainer -> [at : {"idle", "loop", "sink"}, left : 0 .. DispatchBudget - 1,
                                  event : Event \cup {0}, tokens : SUBSET Token]]
        /\ \A c \in Drainer \ {d} : pass'[c] = pass[c]
        /\ pass'[d].at = "sink" =>
             /\ pass'[d].event = e
             /\ \A t \in pass'[d].tokens : Due(t, e)'
    BY <1>1, <1>3, <1>6, <1>7, DeliverStep
  <1>9. TypeOK'
    BY <1>1, <1>2, <1>3, <1>8 DEF TypeOK
  <1>10. Numbered'
    <2>1. \A i, j \in DOMAIN queue' : i < j => queue'[i] < queue'[j]
      <3> SUFFICES ASSUME NEW i \in DOMAIN queue', NEW j \in DOMAIN queue', i < j
                   PROVE  queue'[i] < queue'[j]
        OBVIOUS
      <3>1. DOMAIN queue' = 1 .. Len(queue') /\ Len(queue') \in Nat
        BY <1>2
      <3>2. i \in Int /\ j \in Int /\ i + 1 < j + 1
        BY <3>1
      <3> QED
        BY <3>2, <1>2 DEF Numbered
    <2>2. \A i \in DOMAIN queue' : e < queue'[i]
      <3> SUFFICES ASSUME NEW i \in DOMAIN queue'
                   PROVE  e < queue'[i]
        OBVIOUS
      <3>1. DOMAIN queue' = 1 .. Len(queue') /\ Len(queue') \in Nat
        BY <1>2
      <3>2. i \in Nat /\ 1 < i + 1 /\ i + 1 \in DOMAIN queue
        BY <3>1, <1>2
      <3> QED
        BY <3>2, <1>2 DEF Numbered
    <2>3. \A x \in taken : \A i \in DOMAIN queue' : x < queue'[i]
      BY <1>2 DEF Numbered
    <2> QED
      BY <1>1, <1>2, <2>1, <2>2, <2>3 DEF Numbered
  <1>11. OnePass'
    BY <1>8 DEF OnePass
  <1>12. Current'
    <2>1. \A c \in Drainer : pass'[c].at = "sink" => c = d
      BY <1>8
    <2> QED
      BY <1>3, <1>8, <2>1 DEF Current
  <1> QED
    BY <1>8, <1>9, <1>10, <1>11, <1>12 DEF IInv

\* What subscribers and publishers do leaves the passes as they are.
LEMMA NextIInv == IInv /\ [Next]_vars => IInv'
  <1> SUFFICES ASSUME IInv, [Next]_vars
               PROVE  IInv'
    OBVIOUS
  <1> USE Indices DEF IInv
  <1>1. ASSUME NEW n \in Name, NEW o \in Owner, Subscribe(n, o)
        PROVE  IInv'
    <2>0. PICK t : t = Len(subs) + 1
      OBVIOUS
    <2>1. /\ subs' = Append(subs, [name |-> n, owner |-> o]) /\ live' = live \cup {t}
          /\ since' = Append(since, taken) /\ got' = Append(got, <<>>)
          /\ UNCHANGED <<queue, named, draining, pass, taken>> /\ Len(subs) < MaxTokens
      BY <1>1, <2>0 DEF Subscribe, queueVars
    <2>2. /\ DOMAIN subs' = 1 .. t /\ DOMAIN got' = 1 .. t /\ DOMAIN subs = 1 .. t - 1
          /\ \A u \in DOMAIN subs : /\ subs'[u] = subs[u] /\ since'[u] = since[u]
                                    /\ got'[u] = got[u]
          /\ since'[t] = taken /\ got'[t] = <<>> /\ t \in Nat
      <3>1. /\ subs \in Seq([name : Name, owner : Owner]) /\ since \in Seq(SUBSET Event)
            /\ got \in Seq(Seq(Event)) /\ Len(since) = Len(subs) /\ Len(got) = Len(subs)
        BY DEF TypeOK
      <3>2. DOMAIN subs' = 1 .. t /\ \A u \in DOMAIN subs : subs'[u] = subs[u]
        BY <2>0, <2>1, <3>1
      <3>3. since'[t] = taken /\ \A u \in DOMAIN subs : since'[u] = since[u]
        BY <2>0, <2>1, <3>1
      <3>4. DOMAIN got' = 1 .. t /\ got'[t] = <<>> /\ \A u \in DOMAIN subs : got'[u] = got[u]
        BY <2>0, <2>1, <3>1
      <3> QED
        BY <2>0, <3>1, <3>2, <3>3, <3>4
    <2>3. TypeOK'
      <3>1. /\ subs' \in Seq([name : Name, owner : Owner]) /\ Len(subs') = t
            /\ since' \in Seq(SUBSET Event) /\ Len(since') = t
            /\ got' \in Seq(Seq(Event)) /\ Len(got') = t /\ t <= MaxTokens
        BY <2>0, <2>1 DEF TypeOK
      <3>2. live' \subseteq DOMAIN subs'
        BY <2>1, <2>2 DEF TypeOK
      <3> QED
        BY <2>1, <3>1, <3>2 DEF TypeOK
    <2>4. Numbered' /\ OnePass'
      BY <2>1 DEF Numbered, OnePass
    <2>5. Current'
      <3>1. \A u, e : Due(u, e) => Due(u, e)'
        BY <2>1, <2>2 DEF Due
      <3> QED
        BY <2>1, <3>1 DEF Current
    <2>6. Heard' /\ FifoOnce' /\ NotBeforeSubscribing'
      <3>1. \A u \in DOMAIN got' : u \in DOMAIN got \/ u = t
        BY <2>2
      <3>2. DOMAIN got'[t] = {}
        BY <2>2
      <3>3. Heard'
        BY <2>1, <2>2, <3>1, <3>2 DEF Heard
      <3>4. FifoOnce'
        BY <2>1, <2>2, <3>1, <3>2 DEF FifoOnce
      <3>5. NotBeforeSubscribing'
        BY <2>1, <2>2, <3>1, <3>2 DEF NotBeforeSubscribing
      <3> QED
        BY <3>3, <3>4, <3>5
    <2> QED
      BY <2>3, <2>4, <2>5, <2>6 DEF IInv
  <1>2. ASSUME UNCHANGED <<subs, since, queueVars, draining, pass, taken, got>>, live' \subseteq live
        PROVE  IInv'
    <2>1. UNCHANGED <<subs, since, queue, named, draining, pass, taken, got>>
      BY <1>2 DEF queueVars
    <2>2. TypeOK'
      BY <1>2, <2>1 DEF TypeOK
    <2>3. Numbered' /\ OnePass' /\ Heard' /\ FifoOnce' /\ NotBeforeSubscribing'
      BY <2>1 DEF Numbered, OnePass, Heard, FifoOnce, NotBeforeSubscribing
    <2>4. Current'
      BY <2>1 DEF Current, Due
    <2> QED
      BY <2>2, <2>3, <2>4 DEF IInv
  <1>3. ASSUME NEW t \in Token, Unsubscribe(t)
        PROVE  IInv'
    BY <1>2, <1>3 DEF Unsubscribe
  <1>4. ASSUME NEW o \in Owner, UnsubscribeAll(o)
        PROVE  IInv'
    BY <1>2, <1>4 DEF UnsubscribeAll
  <1>5. ASSUME NEW n \in Name, Publish(n)
        PROVE  IInv'
    <2>0. PICK e : e = Len(named) + 1
      OBVIOUS
    <2>1. /\ named' = Append(named, n) /\ queue' = Append(queue, e)
          /\ Len(named) < MaxEvents /\ Len(queue) < Capacity
          /\ UNCHANGED <<subs, live, since, draining, pass, taken, got>>
      BY <1>5, <2>0 DEF Publish, Fits, subVars
    <2>2. /\ named' \in Seq(Name) /\ Len(named') = e /\ DOMAIN named' = 1 .. e
          /\ \A x \in DOMAIN named : named'[x] = named[x] /\ x < e
          /\ e \in Nat /\ e <= MaxEvents
      BY <2>0, <2>1 DEF TypeOK
    <2>3. /\ queue \in Seq(DOMAIN named') /\ e \in DOMAIN named'
      <3>1. queue \in Seq(DOMAIN named)
        BY DEF TypeOK
      <3>2. DOMAIN named \subseteq DOMAIN named' /\ e \in DOMAIN named'
        BY <2>0, <2>2
      <3> QED
        BY <3>1, <3>2, SeqMonotonic
    <2>4. /\ queue' \in Seq(DOMAIN named') /\ Len(queue') = Len(queue) + 1
          /\ DOMAIN queue' = 1 .. Len(queue) + 1
          /\ \A i \in DOMAIN queue : queue'[i] = queue[i]
          /\ queue'[Len(queue) + 1] = e
      BY <2>1, <2>3
    <2>5. TypeOK'
      BY <2>1, <2>2, <2>4 DEF TypeOK
    <2>6. \A i \in DOMAIN queue : queue[i] \in DOMAIN named
      BY DEF TypeOK
    <2>7. Numbered'
      BY <2>1, <2>2, <2>4, <2>6 DEF Numbered
    <2>8. \A x \in taken : named'[x] = named[x]
      BY <2>2 DEF Numbered
    <2>9. OnePass' /\ Heard' /\ FifoOnce'
      BY <2>1 DEF OnePass, Heard, FifoOnce
    <2>10. Current'
      <3>1. ASSUME NEW x \in taken, NEW u, Due(u, x)
            PROVE  Due(u, x)'
        BY <2>1, <2>8, <3>1 DEF Due
      <3> QED
        BY <2>1, <3>1 DEF Current
    <2>11. NotBeforeSubscribing'
      BY <2>1, <2>8 DEF NotBeforeSubscribing, Heard
    <2> QED
      BY <2>5, <2>7, <2>9, <2>10, <2>11 DEF IInv
  <1>6. ASSUME NEW d \in Drainer, Drain(d)
        PROVE  IInv'
    <2>1. /\ queue # <<>> /\ Dequeue(d, DispatchBudget) /\ draining' = TRUE /\ ~draining
          /\ UNCHANGED <<subVars, named>>
      BY <1>6 DEF Drain, PassOpen
    <2>2. \A c \in Drainer \ {d} : pass[c].at = "idle"
      BY <2>1 DEF OnePass
    <2>3. DispatchBudget \in 1 .. DispatchBudget
      OBVIOUS
    <2> QED
      BY <2>1, <2>2, <2>3, DequeueStep
  <1>7. ASSUME NEW d \in Drainer, pass[d].at # "idle"
        PROVE  draining /\ \A c \in Drainer \ {d} : pass[c].at = "idle"
    BY <1>7 DEF OnePass
  <1>8. ASSUME NEW d \in Drainer, DrainOn(d)
        PROVE  IInv'
    <2>1. /\ queue # <<>> /\ Dequeue(d, pass[d].left) /\ draining' = draining
          /\ UNCHANGED <<subVars, named>> /\ pass[d].at = "loop" /\ pass[d].left > 0
      BY <1>8 DEF DrainOn
    <2>2. pass[d].left \in 1 .. DispatchBudget
      BY <2>1 DEF TypeOK
    <2> QED
      BY <1>7, <2>1, <2>2, DequeueStep
  <1>9. ASSUME NEW d \in Drainer, DrainEnds(d)
        PROVE  IInv'
    <2>1. /\ pass[d].at = "loop" /\ draining' = FALSE /\ pass' = [pass EXCEPT ![d] = Idle]
          /\ UNCHANGED <<subs, live, since, queue, named, taken, got>>
      BY <1>9 DEF DrainEnds, DrainingAfter, subVars, queueVars
    <2>2. \A c \in Drainer : pass'[c].at = "idle"
      BY <1>7, <2>1 DEF Idle, TypeOK
    <2>3. TypeOK'
      <3>1. Idle \in [at : {"idle", "loop", "sink"}, left : 0 .. DispatchBudget - 1,
                      event : Event \cup {0}, tokens : SUBSET Token]
        BY DEF Idle
      <3>2. pass' \in [Drainer -> [at : {"idle", "loop", "sink"}, left : 0 .. DispatchBudget - 1,
                                   event : Event \cup {0}, tokens : SUBSET Token]]
        BY <2>1, <3>1 DEF TypeOK
      <3> QED
        BY <2>1, <3>2 DEF TypeOK
    <2>4. OnePass' /\ Current'
      BY <2>2 DEF OnePass, Current
    <2>5. Numbered' /\ Heard' /\ FifoOnce' /\ NotBeforeSubscribing'
      BY <2>1 DEF Numbered, Heard, FifoOnce, NotBeforeSubscribing
    <2> QED
      BY <2>3, <2>4, <2>5 DEF IInv
  <1>10. ASSUME NEW d \in Drainer, NEW fine \in BOOLEAN, SinkReturns(d, fine)
         PROVE  IInv'
    <2>0. PICK e, tokens, left :
            e = pass[d].event /\ tokens = pass[d].tokens /\ left = pass[d].left
      OBVIOUS
    <2>1. /\ pass[d].at = "sink"
          /\ Deliver(d, left, e, tokens)
          /\ UNCHANGED <<subVars, queue, named, draining, taken>>
      BY <1>10, <2>0 DEF SinkReturns, Rest, queueVars
    <2>2. /\ e \in taken /\ e \in Event
          /\ \A t \in tokens : Due(t, e)
          /\ tokens \in SUBSET Token /\ left \in 0 .. DispatchBudget - 1
          /\ taken' = taken /\ taken \subseteq Event
      BY <2>0, <2>1 DEF Current, TypeOK
    <2>3. /\ got' \in Seq(Seq(Event)) /\ Len(got') = Len(subs)
          /\ Heard' /\ FifoOnce' /\ NotBeforeSubscribing'
          /\ pass' \in [Drainer -> [at : {"idle", "loop", "sink"}, left : 0 .. DispatchBudget - 1,
                                    event : Event \cup {0}, tokens : SUBSET Token]]
          /\ \A c \in Drainer \ {d} : pass'[c] = pass[c]
          /\ pass'[d].at = "sink" =>
               /\ pass'[d].event = e
               /\ \A t \in pass'[d].tokens : Due(t, e)'
      BY <2>1, <2>2, DeliverStep
    <2>4. UNCHANGED <<subs, live, since, queue, named, draining, taken>>
      BY <2>1 DEF subVars
    <2>5. TypeOK'
      BY <2>3, <2>4 DEF TypeOK
    <2>6. Numbered'
      BY <2>4 DEF Numbered
    <2>7. draining' /\ \A c \in Drainer \ {d} : pass'[c].at = "idle"
      <3>1. draining /\ draining' = draining
        BY <1>7, <2>1
      <3>2. \A c \in Drainer \ {d} : pass'[c].at = "idle"
        BY <1>7, <2>1, <2>3
      <3> QED
        BY <3>1, <3>2, Zenon
    <2>8. OnePass'
      BY <2>7 DEF OnePass
    <2>9. Current'
      <3>1. \A c \in Drainer : pass'[c].at = "sink" => c = d
        BY <2>7
      <3> QED
        BY <2>2, <2>3, <3>1 DEF Current
    <2> QED
      BY <2>3, <2>5, <2>6, <2>8, <2>9 DEF IInv
  <1>11. CASE UNCHANGED vars
    BY <1>2, <1>11 DEF vars, subVars
  <1> QED
    BY <1>1, <1>3, <1>4, <1>5, <1>6, <1>8, <1>9, <1>10, <1>11 DEF Next, Pass

LEMMA Inductive == Spec => []IInv
  BY InitIInv, NextIInv, PTL DEF Spec

-----------------------------------------------------------------------------
(* Theorems                                                                *)

\* The bus keeps its types: the queue never outgrows its capacity.
THEOREM TypeCorrect == Spec => []TypeOK
  <1>1. IInv => TypeOK
    BY DEF IInv
  <1> QED
    BY <1>1, Inductive, PTL

\* No subscriber is given an event twice or after a later one.
THEOREM DeliveryInOrder == Spec => []FifoOnce
  <1>1. IInv => FifoOnce
    BY DEF IInv
  <1> QED
    BY <1>1, Inductive, PTL

\* No subscriber is given an event of another name, or one whose delivery began
\* before it subscribed.
THEOREM DeliveryMatches == Spec => []NotBeforeSubscribing
  <1>1. IInv => NotBeforeSubscribing
    BY DEF IInv
  <1> QED
    BY <1>1, Inductive, PTL

\* Nothing is delivered to a subscription that is gone.
THEOREM NothingOnceGone == Spec => GoneHearsNothing
  <1>1. ASSUME IInv, [Next]_vars, NEW t \in DOMAIN got, got'[t] # got[t]
        PROVE  t \in live
    <2> USE Indices DEF IInv
    <2>1. ASSUME NEW d \in Drainer, NEW left, NEW e, NEW tokens, Deliver(d, left, e, tokens)
          PROVE  t \in live
      <3>1. PICK u \in Callable(tokens) : got' = [got EXCEPT ![u] = Append(@, e)]
        BY <1>1, <2>1 DEF Deliver
      <3>2. t = u
        BY <1>1, <3>1
      <3> QED
        BY <3>1, <3>2 DEF Callable
    <2>2. ASSUME NEW d \in Drainer, NEW budget, Dequeue(d, budget)
          PROVE  t \in live
      BY <2>1, <2>2 DEF Dequeue
    <2>3. ASSUME NEW n \in Name, NEW o \in Owner, Subscribe(n, o)
          PROVE  FALSE
      <3>1. got \in Seq(Seq(Event)) /\ got' = Append(got, <<>>)
        BY <1>1, <2>3 DEF Subscribe, TypeOK
      <3> QED
        BY <1>1, <3>1
    <2>4. ASSUME NEW d \in Drainer, NEW fine \in BOOLEAN, SinkReturns(d, fine)
          PROVE  t \in live
      BY <2>1, <2>4 DEF SinkReturns
    <2> QED
      BY <1>1, <2>2, <2>3, <2>4
         DEF Next, Pass, Publish, Unsubscribe, UnsubscribeAll, Drain, DrainOn, DrainEnds, vars
  <1>2. IInv /\ [Next]_vars => [\A t \in DOMAIN got : got'[t] # got[t] => t \in live]_vars
    BY <1>1
  <1> QED
    BY <1>2, Inductive, PTL DEF Spec, GoneHearsNothing

-----------------------------------------------------------------------------
(* Nothing is missed: what was taken is given, or waits in the one pass     *)
(* that is inside a sink.                                                   *)

Given(t, e) == \E i \in DOMAIN got[t] : got[t][i] = e
Awaited(t, e) ==
    \E d \in Drainer : pass[d].at = "sink" /\ pass[d].event = e /\ t \in pass[d].tokens

Complete ==
    \A t \in live : \A e \in taken \ since[t] :
        named[e] = subs[t].name => Given(t, e) \/ Awaited(t, e)

\* One call of a sink takes nothing back, and leaves out none of the snapshot
\* that are still there.
LEMMA DeliverKeeps ==
    ASSUME IInv, NEW d \in Drainer, NEW left, NEW e \in Event, NEW tokens \in SUBSET Token,
           Deliver(d, left, e, tokens)
    PROVE  /\ \A t \in live : \A x : Given(t, x) => Given(t, x)'
           /\ \A t \in tokens \cap live : Given(t, e)' \/ Awaited(t, e)'
           /\ \A c \in Drainer \ {d} : pass'[c] = pass[c]
  <1> USE Indices DEF IInv
  <1>1. CASE Callable(tokens) = {}
    <2>1. got' = got /\ tokens \cap live = {}
      BY <1>1 DEF Deliver, Callable
    <2>2. \A c \in Drainer \ {d} : pass'[c] = pass[c]
      BY <1>1 DEF Deliver, TypeOK
    <2> QED
      BY <2>1, <2>2 DEF Given
  <1>2. ASSUME NEW u \in Callable(tokens), \A t \in Callable(tokens) : u <= t,
               pass' = [pass EXCEPT ![d] = [at |-> "sink", left |-> left, event |-> e,
                                            tokens |-> {t \in tokens : t > u}]],
               got' = [got EXCEPT ![u] = Append(@, e)]
        PROVE  /\ \A t \in live : \A x : Given(t, x) => Given(t, x)'
               /\ \A t \in tokens \cap live : Given(t, e)' \/ Awaited(t, e)'
               /\ \A c \in Drainer \ {d} : pass'[c] = pass[c]
    <2>1. /\ u \in tokens /\ u \in live /\ u \in DOMAIN got
          /\ got[u] \in Seq(Event) /\ live \subseteq DOMAIN got
      BY <1>2 DEF Callable, TypeOK
    <2>2. /\ got'[u] = Append(got[u], e)
          /\ \A t \in DOMAIN got \ {u} : got'[t] = got[t]
      BY <1>2, <2>1
    <2>3. /\ Len(got[u]) \in Nat /\ DOMAIN got[u] = 1 .. Len(got[u])
          /\ DOMAIN got'[u] = 1 .. Len(got[u]) + 1
          /\ got'[u][Len(got[u]) + 1] = e
          /\ \A i \in DOMAIN got[u] : got'[u][i] = got[u][i]
      BY <2>1, <2>2
    <2>4. ASSUME NEW t \in live, NEW x, Given(t, x)
          PROVE  Given(t, x)'
      <3>1. PICK i \in DOMAIN got[t] : got[t][i] = x
        BY <2>4 DEF Given
      <3>2. CASE t = u
        <4>1. i \in DOMAIN got'[t] /\ got'[t][i] = x
          BY <2>3, <3>1, <3>2
        <4> QED
          BY <4>1 DEF Given
      <3>3. CASE t # u
        <4>1. got'[t] = got[t]
          BY <2>1, <2>2, <3>3
        <4> QED
          BY <3>1, <4>1 DEF Given
      <3> QED
        BY <3>2, <3>3
    <2>5. Given(u, e)'
      BY <2>3 DEF Given
    <2>6. /\ pass'[d].at = "sink" /\ pass'[d].event = e
          /\ pass'[d].tokens = {t \in tokens : t > u}
          /\ \A c \in Drainer \ {d} : pass'[c] = pass[c]
      BY <1>2 DEF TypeOK
    <2>7. \A t \in tokens \cap live : t = u \/ t \in pass'[d].tokens
      BY <1>2, <2>1, <2>6 DEF Callable, Token
    <2> QED
      BY <2>4, <2>5, <2>6, <2>7 DEF Awaited
  <1> QED
    BY <1>1, <1>2 DEF Deliver

\* The event dequeued waits for all it is due to.
LEMMA DequeueKeeps ==
    ASSUME IInv, Complete, NEW d \in Drainer, NEW budget, pass[d].at # "sink",
           queue # <<>>, Dequeue(d, budget), UNCHANGED <<subVars, named>>,
           \A c \in Drainer \ {d} : pass[c].at = "idle"
    PROVE  Complete'
  <1> USE Indices DEF IInv
  <1>1. PICK e, tokens : e = Head(queue) /\ tokens = {t \in live : subs[t].name = named[e]}
    OBVIOUS
  <1>2. /\ taken' = taken \cup {e} /\ Deliver(d, budget - 1, e, tokens)
        /\ subs' = subs /\ live' = live /\ since' = since /\ named' = named
    BY <1>1 DEF Dequeue, subVars
  <1>3. e \in Event
    BY <1>1 DEF TypeOK
  <1>4. tokens \in SUBSET Token /\ tokens \subseteq live
    BY <1>1 DEF TypeOK
  <1>5. /\ \A t \in live : \A x : Given(t, x) => Given(t, x)'
        /\ \A t \in tokens \cap live : Given(t, e)' \/ Awaited(t, e)'
    BY <1>2, <1>3, <1>4, DeliverKeeps
  <1>6. \A t, x : ~Awaited(t, x)
    BY DEF Awaited
  <1> QED
    BY <1>1, <1>2, <1>4, <1>5, <1>6 DEF Complete

LEMMA NextComplete == IInv /\ Complete /\ [Next]_vars => Complete'
  <1> SUFFICES ASSUME IInv, Complete, [Next]_vars
               PROVE  Complete'
    OBVIOUS
  <1> USE Indices DEF IInv
  <1>1. ASSUME NEW n \in Name, NEW o \in Owner, Subscribe(n, o)
        PROVE  Complete'
    <2>0. PICK t : t = Len(subs) + 1
      OBVIOUS
    <2>1. /\ subs' = Append(subs, [name |-> n, owner |-> o]) /\ live' = live \cup {t}
          /\ since' = Append(since, taken) /\ got' = Append(got, <<>>)
          /\ UNCHANGED <<named, pass, taken>>
      BY <1>1, <2>0 DEF Subscribe, queueVars
    <2>2. /\ subs \in Seq([name : Name, owner : Owner]) /\ since \in Seq(SUBSET Event)
          /\ got \in Seq(Seq(Event)) /\ Len(since) = Len(subs) /\ Len(got) = Len(subs)
          /\ live \subseteq DOMAIN subs
      BY DEF TypeOK
    <2>3. \A u \in DOMAIN subs : subs'[u] = subs[u]
      BY <2>1, <2>2
    <2>4. since'[t] = taken /\ \A u \in DOMAIN subs : since'[u] = since[u]
      BY <2>0, <2>1, <2>2
    <2>5. \A u \in DOMAIN subs : got'[u] = got[u]
      BY <2>1, <2>2
    <2>6. ASSUME NEW u \in live', NEW e \in taken' \ since'[u], named'[e] = subs'[u].name
          PROVE  Given(u, e)' \/ Awaited(u, e)'
      <3>1. u \in live /\ u \in DOMAIN subs
        BY <2>1, <2>2, <2>4, <2>6
      <3>2. e \in taken \ since[u] /\ named[e] = subs[u].name
        BY <2>1, <2>3, <2>4, <2>6, <3>1
      <3>3. Given(u, e) \/ Awaited(u, e)
        BY <3>1, <3>2 DEF Complete
      <3>4. got'[u] = got[u] /\ pass' = pass
        BY <2>1, <2>5, <3>1
      <3> QED
        BY <3>3, <3>4 DEF Given, Awaited
    <2> QED
      BY <2>6 DEF Complete
  <1>2. ASSUME UNCHANGED <<subs, since, queueVars, draining, pass, taken, got>>, live' \subseteq live
        PROVE  Complete'
    BY <1>2 DEF Complete, Given, Awaited, queueVars
  <1>3. ASSUME NEW t \in Token, Unsubscribe(t)
        PROVE  Complete'
    BY <1>2, <1>3 DEF Unsubscribe
  <1>4. ASSUME NEW o \in Owner, UnsubscribeAll(o)
        PROVE  Complete'
    BY <1>2, <1>4 DEF UnsubscribeAll
  <1>5. ASSUME NEW n \in Name, Publish(n)
        PROVE  Complete'
    <2>1. named' = Append(named, n) /\ UNCHANGED <<subs, live, since, pass, taken, got>>
      BY <1>5 DEF Publish, subVars
    <2>2. \A x \in taken : named'[x] = named[x]
      BY <2>1 DEF Numbered, TypeOK
    <2>3. \A t, x : (Given(t, x) => Given(t, x)') /\ (Awaited(t, x) => Awaited(t, x)')
      BY <2>1 DEF Given, Awaited
    <2> QED
      BY <2>1, <2>2, <2>3 DEF Complete
  <1>6. ASSUME NEW d \in Drainer, Drain(d)
        PROVE  Complete'
    <2>1. \A c \in Drainer : pass[c].at = "idle"
      BY <1>6 DEF Drain, PassOpen, OnePass
    <2> QED
      BY <1>6, <2>1, DequeueKeeps DEF Drain
  <1>7. ASSUME NEW d \in Drainer, pass[d].at # "idle"
        PROVE  \A c \in Drainer \ {d} : pass[c].at = "idle"
    BY <1>7 DEF OnePass
  <1>8. ASSUME NEW d \in Drainer, DrainOn(d)
        PROVE  Complete'
    <2>1. pass[d].at = "loop" /\ \A c \in Drainer \ {d} : pass[c].at = "idle"
      BY <1>7, <1>8 DEF DrainOn
    <2> QED
      BY <1>8, <2>1, DequeueKeeps DEF DrainOn
  <1>9. ASSUME NEW d \in Drainer, DrainEnds(d)
        PROVE  Complete'
    <2>1. /\ pass[d].at = "loop" /\ pass' = [pass EXCEPT ![d] = Idle]
          /\ UNCHANGED <<subs, live, since, named, taken, got>>
      BY <1>9 DEF DrainEnds, subVars, queueVars
    <2>2. \A c \in Drainer : pass[c].at = "sink" => pass'[c] = pass[c]
      BY <2>1 DEF TypeOK
    <2> QED
      BY <2>1, <2>2 DEF Complete, Given, Awaited
  <1>10. ASSUME NEW d \in Drainer, NEW fine \in BOOLEAN, SinkReturns(d, fine)
         PROVE  Complete'
    <2>1. PICK e, tokens : e = pass[d].event /\ tokens = pass[d].tokens
      OBVIOUS
    <2>2. /\ pass[d].at = "sink" /\ Deliver(d, pass[d].left, e, tokens)
          /\ UNCHANGED <<subs, live, since, named, taken>>
      BY <1>10, <2>1 DEF SinkReturns, Rest, subVars, queueVars
    <2>3. tokens \in SUBSET Token /\ e \in Event
      BY <2>1, <2>2 DEF Current, TypeOK
    <2>4. /\ \A t \in live : \A x : Given(t, x) => Given(t, x)'
          /\ \A t \in tokens \cap live : Given(t, e)' \/ Awaited(t, e)'
      BY <2>2, <2>3, DeliverKeeps
    <2>5. \A t, x : Awaited(t, x) => t \in tokens /\ x = e
      BY <1>7, <2>1, <2>2 DEF Awaited
    <2> QED
      BY <2>2, <2>4, <2>5 DEF Complete
  <1>11. CASE UNCHANGED vars
    BY <1>2, <1>11 DEF vars, subVars
  <1> QED
    BY <1>1, <1>3, <1>4, <1>5, <1>6, <1>8, <1>9, <1>10, <1>11 DEF Next, Pass

\* Every subscription that is still there has been given every event of its
\* name whose delivery began after it was made and is over.
THEOREM NothingMissed == Spec => []NoneMissed
  <1>1. Init => Complete
    BY DEF Init, Complete
  <1>2. Complete => NoneMissed
    BY DEF Complete, NoneMissed, Given, Awaited
  <1> QED
    BY <1>1, <1>2, Inductive, NextComplete, PTL DEF Spec
=============================================================================
