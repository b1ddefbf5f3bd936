----------------------------- MODULE RouteTable -----------------------------
(***************************************************************************)
(* std.http-server as the plugins that mount routes on it see it: the      *)
(* management methods of ts/src/plugins/http-server/index.ts, the          *)
(* generations of the instance, the leases on it and the gateway its       *)
(* callers go through.  What it does for HTTP requests is in HttpServer.   *)
(*                                                                         *)
(* Its handlers are synchronous: a call takes effect when it begins, the   *)
(* instance stays "already executing a call" for some microtasks, and the  *)
(* caller goes on some microtasks after that.  A new generation comes      *)
(* after listen(), in a later macrotask: no caller is then under way.      *)
(***************************************************************************)
EXTENDS Integers, SequencesExt

CONSTANTS
    MaxGen,     \* bound on the generations of std.http-server
    MaxLife     \* bounds on the instances of the two consumers

Who == {"rest", "rpc"}      \* std.rest-server and std.rpc

ASSUME RouteTableAssumption == MaxGen \in Nat /\ MaxLife \in [Who -> Nat]

VARIABLES
    srv,        \* [state, gen]: the instance of std.http-server
    table,      \* its routes by routeId; a route is <<name, slot>>
    seq,        \* routeSeq
    guard,      \* the gateway's guard: the task whose call is running
    leases,     \* the outstanding leases, [by, gen], in order of acquiring
    watchers,   \* the consumers that watch the registry, in order
    telling,    \* those still to be told of the last fact
    revoking,   \* those still to be told to return their lease
    life,       \* the state the host has a consumer in
    lives,      \* how often each consumer was created
    \* What happened:
    spoiled     \* a route.remove was refused or named an id of an older generation,
                \* or an instance that ended left routes behind

srvVars == <<srv, table, seq, guard, spoiled>>
rackVars == <<leases, watchers, telling, revoking, life, lives>>
rtVars == <<srvVars, rackVars>>

Nobody == <<"none", "none">>
Gone == <<"none", "gone">>      \* the call of an instance that was destroyed

InitTable ==
    /\ srv = [state |-> "off", gen |-> 0] /\ table = <<>> /\ seq = 0 /\ guard = Nobody
    /\ spoiled = FALSE
    /\ leases = <<>> /\ watchers = <<>> /\ telling = <<>> /\ revoking = <<>>
    /\ life = [w \in Who |-> "absent"] /\ lives = [w \in Who |-> 0]

\* What is left of the sequence s at the indices K, in the same order.
Kept(s, K) == [n \in 1 .. Cardinality(K) |-> s[CHOOSE i \in K : Cardinality({k \in K : k < i}) = n - 1]]

Available == srv.state = "active"
LeasesOf(w, g) == {i \in DOMAIN leases : leases[i] = [by |-> w, gen |-> g]}
Leased(w, g) == LeasesOf(w, g) # {}
Calm == telling = <<>>

-----------------------------------------------------------------------------
(* The gateway and the two methods                                         *)

\* Business calls need an active consumer; a rollback leaves its state.
ConsumerActive(w) == life[w] \in {"active", "stopping"}

\* call() with a lease of generation g is let through to the instance.  A call
\* made while an offer is told is made under the lease just acquired.
Admits(w, g) ==
    /\ ConsumerActive(w) /\ guard = Nobody
    /\ Available /\ g = srv.gen /\ (Leased(w, g) \/ ~Calm)

Duplicate(route) == \E id \in DOMAIN table : table[id] = route

\* routeSeq is counted up first.
NewId == seq + 1

\* The answer: the routeId, or 0 for a failure of any kind.
AddAnswer(w, g, route) == IF Admits(w, g) /\ ~Duplicate(route) THEN NewId ELSE 0
RouteAdd(task, w, g, route) ==
    /\ guard' = IF Admits(w, g) THEN task ELSE guard
    /\ IF ~Admits(w, g) \/ Duplicate(route) THEN UNCHANGED <<table, seq>>
       ELSE seq' = seq + 1 /\ table' = [id \in DOMAIN table \cup {NewId} |->
                                          IF id = NewId THEN route ELSE table[id]]
    /\ UNCHANGED <<srv, spoiled>>

\* The gateway makes 'failed' of whatever the handler threw, its 'not_found' too.
\* (of: the generation that gave the id)
RemoveAnswer(w, g, id) == Admits(w, g) /\ id \in DOMAIN table
RouteRemove(task, w, g, id, of) ==
    /\ guard' = IF Admits(w, g) THEN task ELSE guard
    /\ table' = IF Admits(w, g) THEN [i \in DOMAIN table \ {id} |-> table[i]] ELSE table
    /\ spoiled' = (spoiled \/ ~RemoveAnswer(w, g, id) \/ of # srv.gen)
    /\ UNCHANGED <<srv, seq>>

CallReturns ==
    /\ guard # Nobody
    /\ guard' = Nobody
    /\ UNCHANGED <<srv, table, seq, spoiled, rackVars>>

-----------------------------------------------------------------------------
(* Leases and notices                                                      *)

\* acquire() of the registered generation.
Acquires(w) == leases' = Append(leases, [by |-> w, gen |-> srv.gen])

\* release() inside onRevoke(): 'busy' while a call runs under the lease.
Returned(w) == IF guard[1] = w THEN leases
               ELSE Kept(leases, DOMAIN leases \ LeasesOf(w, srv.gen))

Told(w) == telling # <<>> /\ Head(telling) = w /\ telling' = Tail(telling)
Asked(w) == Calm /\ revoking # <<>> /\ Head(revoking) = w /\ revoking' = Tail(revoking)

\* The lease was returned before its turn came.
RevokeSkips ==
    /\ Calm /\ revoking # <<>> /\ ~Leased(Head(revoking), srv.gen)
    /\ revoking' = Tail(revoking)
    /\ UNCHANGED <<srvVars, leases, watchers, telling, life, lives>>

Unwatches(w) == watchers' = Kept(watchers, {i \in DOMAIN watchers : watchers[i] # w})

\* The host forgets a consumer: its leases, its subscriptions, its record.
Forgotten(w) ==
    /\ life' = [life EXCEPT ![w] = "absent"]
    /\ leases' = Kept(leases, {i \in DOMAIN leases : leases[i].by # w})
    /\ Unwatches(w)

-----------------------------------------------------------------------------
(* The life of std.http-server                                             *)

\* start() listens, publishes, and the host registers: everyone is told.
SrvRegisters(busy) ==
    /\ Calm /\ ~busy /\ srv.state = "off" /\ srv.gen < MaxGen
    /\ srv' = [state |-> "active", gen |-> srv.gen + 1]
    /\ UNCHANGED <<table, seq, guard, spoiled>>
    /\ telling' = watchers
    /\ UNCHANGED <<leases, watchers, revoking, life, lives>>

OfThis == Kept(leases, {i \in DOMAIN leases : leases[i].gen = srv.gen})

SrvWithdraws ==
    /\ Calm /\ Available
    /\ srv' = [srv EXCEPT !.state = "revoking"]
    /\ telling' = watchers /\ revoking' = [i \in DOMAIN OfThis |-> OfThis[i].by]
    /\ UNCHANGED <<table, seq, guard, spoiled, leases, watchers, life, lives>>

\* A lease not returned quarantines it; a call still running makes the unload
\* answer 'busy', to be tried again.  stop() closes the listener, a macrotask:
\* no caller is under way (busy) when it ends.
SrvVerdict(busy) ==
    /\ Calm /\ srv.state = "revoking" /\ revoking = <<>>
    /\ \/ OfThis # <<>> /\ srv' = [srv EXCEPT !.state = "faulted"] /\ UNCHANGED table
       \/ OfThis = <<>> /\ guard = Nobody /\ ~busy
          /\ srv' = [srv EXCEPT !.state = "off"] /\ table' = <<>>
    /\ seq' = (IF srv'.state = "off" THEN 0 ELSE seq)
    /\ UNCHANGED <<guard, spoiled, rackVars>>

\* The rollback of a batch that std.http-server started in: it is withdrawn and
\* stopped, and nobody is asked for a lease.
SrvRollsBack ==
    /\ Calm /\ Available
    /\ srv' = [srv EXCEPT !.state = "dropping"] /\ telling' = watchers
    /\ UNCHANGED <<table, seq, guard, spoiled, leases, watchers, revoking, life, lives>>

SrvDropped(busy) ==
    /\ Calm /\ ~busy /\ srv.state = "dropping"
    /\ srv' = [srv EXCEPT !.state = "off"] /\ table' = <<>> /\ seq' = 0
    /\ UNCHANGED <<guard, spoiled, rackVars>>
=============================================================================
