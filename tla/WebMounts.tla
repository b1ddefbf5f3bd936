----------------------------- MODULE WebMounts -----------------------------
(***************************************************************************)
(* std.rest-server and std.rpc on one std.http-server that comes and goes. *)
(* Both watch it, lease it and mount routes on it, and meet at the         *)
(* gateway's guard, which refuses a call while another one is running.     *)
(***************************************************************************)
EXTENDS RestServer, RpcEndpoint

vars == <<rtVars, restVars, rpcVars>>

Init == InitTable /\ RestInitial /\ RpcInitial

Working == guard # Nobody \/ (\E j \in Job : Running(j)) \/ (\E m \in Mount : MountRuns(m))

Next ==
    \/ /\ SrvRegisters(Working) \/ SrvWithdraws \/ SrvVerdict(Working)
          \/ SrvRollsBack \/ SrvDropped(Working) \/ RevokeSkips \/ CallReturns
       /\ UNCHANGED <<restVars, rpcVars>>
    \/ RestNext /\ UNCHANGED rpcVars
    \/ RpcNext /\ UNCHANGED restVars

Spec == Init /\ [][Next]_vars

-----------------------------------------------------------------------------
(* Properties                                                              *)

\* The types; and a consumer has at most one lease outstanding, which is the one it
\* has cached if it has one: no offer makes it borrow a second one and lose the first,
\* no revocation leaves it with one that was returned (capSink, onRevoke of both).
TypeOK ==
    /\ srv \in [state : {"off", "active", "revoking", "dropping", "faulted"}, gen : 0 .. MaxGen]
    /\ DOMAIN table \subseteq 1 .. seq
    /\ guard \in ({"rest"} \X Job) \cup ({"rpc"} \X Mount) \cup {Nobody, Gone}
    /\ {watchers, telling, revoking} \subseteq Seq(Who)
    /\ leases \in Seq([by : Who, gen : 1 .. MaxGen])
    /\ life \in [Who -> {"absent", "initialized", "active", "stopping"}]
    /\ lives \in [Who -> Nat] /\ spoiled \in BOOLEAN
    /\ rest \in [lease : 0 .. MaxGen, usable : BOOLEAN]
    /\ DOMAIN mounts \subseteq Resource /\ stamps \in 0 .. MaxMount
    /\ rpc \in [lease : 0 .. MaxGen, usable : BOOLEAN, mounted : BOOLEAN, id : Nat, of : 0 .. MaxGen,
                scheduled : BOOLEAN]
    /\ \A i, j \in DOMAIN leases : leases[i].by = leases[j].by => i = j
    /\ rest.lease # 0 => Leased("rest", rest.lease)
    /\ rpc.lease # 0 => Leased("rpc", rpc.lease)

\* Between sequences of calls the routes of resources on the server are those of
\* the records, none less and none more: a mount that fails half-way leaves nothing
\* behind (addConventionRoutes()).  Void once a removal was refused, used an old id or
\* was cut short by the end of the instance, and while a remount that failed has left
\* a record on an older generation.
RoutesAreRecorded ==
    Available /\ ~Working /\ Calm /\ ~spoiled /\ (\A r \in DOMAIN mounts : mounts[r].gen = srv.gen)
        => {<<id, table[id]>> : id \in {i \in DOMAIN table : table[i] # RpcRoute}}
           = UNION {{<<mounts[r].ids[i], <<r, i>>>> : i \in 1 .. Size[r]} : r \in DOMAIN mounts}

\* Between calls POST /rpc is on the server exactly if std.rpc had the answer of its
\* mounting from this generation, and under the routeId it would remove: also when the
\* answer came late, after a withdrawal or a revocation (mountRoute(), unmountRoute(),
\* serverRevoker).  Void once a route.remove was refused or named an id of an older
\* generation (of either plugin), and once an instance of either ended with a route of
\* its own still on the server.
RpcInStep ==
    Available /\ ~Working /\ Calm /\ ~spoiled /\ rpc.lease = srv.gen
        => (rpc.mounted /\ rpc.of = srv.gen <=> \E id \in DOMAIN table : table[id] = RpcRoute /\ id = rpc.id)

\* What would follow were no answer late, and does not hold (no run checks it): what
\* std.rpc takes for mounted is mounted on the generation it has its lease on.  An
\* answer of route.add that comes after serverRevoker marks the route mounted again
\* (rpc/index.ts:771), and the next generation is then not mounted on.
MountedIsOfThis == rpc.lease = srv.gen /\ rpc.mounted => rpc.of = srv.gen

\* What std.rpc says of itself: a server that comes later is mounted on then.  Once it
\* is offered to an active std.rpc, and the calls this causes are over, POST /rpc is
\* on it: even if no answer was late.
RpcComesBack ==
    Available /\ ~Working /\ Calm /\ ~spoiled /\ life["rpc"] = "active" /\ rpc.lease = srv.gen /\ ~rpc.scheduled
      /\ MountedIsOfThis
        => \E id \in DOMAIN table : table[id] = RpcRoute
=============================================================================
