---------------------------- MODULE RpcEndpoint ----------------------------
(***************************************************************************)
(* The endpoint of std.rpc, ts/src/plugins/rpc/index.ts: one POST /rpc     *)
(* route on the leased std.http-server, mounted when the server is offered *)
(* or, for the first time, in a macrotask after start() (setImmediate).    *)
(***************************************************************************)
EXTENDS RouteTable

VARIABLES
    rpc,        \* [lease, usable, mounted, id, scheduled], and with the id what the code
                \* does not keep: the generation it is of (only the properties read it)
    mounting    \* the generation and answer of route.add by the mount under way
                \* ("sink", "first"), of route.remove by "stop"

rpcVars == <<rpc, mounting>>

RpcRoute == <<"rpc", 1>>
Mount == {"sink", "first", "stop"}
NoMount == [gen |-> 0, ans |-> 0]
MountTask(m) == <<"rpc", m>>
MountRuns(m) == mounting[m] # NoMount

Fresh == [lease |-> 0, usable |-> FALSE, mounted |-> FALSE, id |-> 0, of |-> 0,
          scheduled |-> FALSE]
RpcInitial == rpc = Fresh /\ mounting = [m \in Mount |-> NoMount]

-----------------------------------------------------------------------------
(* mountRoute() and unmountRoute()                                         *)

Mountable(lease, mounted) == lease # 0 /\ ~mounted

MountRoute(m, lease) ==
    IF Mountable(lease, rpc.mounted)
    THEN /\ RouteAdd(MountTask(m), "rpc", lease, RpcRoute)
         /\ mounting' = [mounting EXCEPT ![m] = [gen |-> lease, ans |-> AddAnswer("rpc", lease, RpcRoute)]]
    ELSE UNCHANGED <<mounting, srvVars>>

\* (mutant: the route counts as mounted however the call ended)
MountedAnyway(ans) == TRUE
MountedIf(ans) == ans # 0

\* The answer of route.add is seen, whatever became of the lease meanwhile.
MountAnswered(m) ==
    /\ Calm /\ m # "stop" /\ MountRuns(m) /\ guard # MountTask(m)
    /\ rpc' = IF MountedIf(mounting[m].ans)
              THEN [rpc EXCEPT !.mounted = TRUE, !.id = mounting[m].ans, !.of = mounting[m].gen] ELSE rpc
    /\ mounting' = [mounting EXCEPT ![m] = NoMount]
    /\ UNCHANGED <<srvVars, rackVars>>

\* The first mount is a macrotask: no call is under way.
FirstMount ==
    /\ Calm /\ rpc.scheduled /\ guard = Nobody /\ ~\E m \in Mount : MountRuns(m)
    /\ rpc' = [rpc EXCEPT !.scheduled = FALSE]
    /\ IF life["rpc"] = "active" THEN MountRoute("first", rpc.lease)
       ELSE UNCHANGED <<mounting, srvVars>>
    /\ UNCHANGED rackVars

-----------------------------------------------------------------------------
(* The lease                                                               *)

\* onCapability()
RpcOffered ==
    LET borrowed == rpc.lease = 0
        lease == IF borrowed THEN srv.gen ELSE rpc.lease
    IN  /\ IF borrowed THEN Acquires("rpc") ELSE UNCHANGED leases
        /\ rpc' = [rpc EXCEPT !.lease = lease, !.usable = TRUE]
        /\ IF life["rpc"] = "active" THEN MountRoute("sink", lease)
           ELSE UNCHANGED <<mounting, srvVars>>

RpcToldOffer ==
    /\ Told("rpc") /\ Available
    /\ RpcOffered
    /\ UNCHANGED <<watchers, revoking, life, lives>>

RpcToldGone ==
    /\ Told("rpc") /\ ~Available
    /\ rpc' = [rpc EXCEPT !.usable = FALSE]
    /\ UNCHANGED <<mounting, srvVars, leases, watchers, revoking, life, lives>>

RpcOnRevoke ==
    /\ Leased("rpc", srv.gen) /\ Asked("rpc")
    /\ IF rpc.lease # srv.gen THEN UNCHANGED <<rpc, leases>>
       ELSE /\ rpc' = [rpc EXCEPT !.lease = 0, !.usable = FALSE, !.mounted = FALSE]
            /\ leases' = Returned("rpc")
    /\ UNCHANGED <<mounting, srvVars, watchers, telling, life, lives>>

-----------------------------------------------------------------------------
(* Its life                                                                *)

RpcInits ==
    /\ Calm /\ life["rpc"] = "absent" /\ lives["rpc"] < MaxLife["rpc"]
    /\ life' = [life EXCEPT !["rpc"] = "initialized"] /\ lives' = [lives EXCEPT !["rpc"] = @ + 1]
    /\ watchers' = Append(watchers, "rpc")
    /\ IF Available THEN RpcOffered ELSE UNCHANGED <<rpcVars, leases, srvVars>>
    /\ UNCHANGED <<telling, revoking>>

\* start() schedules the first mount, it may not call yet.
Schedules == rpc.usable /\ rpc.lease # 0 /\ ~rpc.mounted
RpcStarts ==
    /\ Calm /\ life["rpc"] = "initialized"
    /\ life' = [life EXCEPT !["rpc"] = "active"]
    /\ rpc' = [rpc EXCEPT !.scheduled = Schedules]
    /\ UNCHANGED <<mounting, srvVars, leases, watchers, telling, revoking, lives>>

RpcEnds ==
    /\ Forgotten("rpc")
    /\ rpc' = Fresh /\ mounting' = [m \in Mount |-> NoMount]
    /\ guard' = IF guard[1] = "rpc" THEN Gone ELSE guard
    /\ spoiled' = (spoiled \/ Duplicate(RpcRoute))
    /\ UNCHANGED <<srv, table, seq, telling, revoking, lives>>

\* As for std.rest-server: stop() of an unload may not call route.remove, that
\* of a rollback may.
RpcUnloads == Calm /\ life["rpc"] = "active" /\ RpcEnds

RpcRollsBack ==
    /\ Calm /\ life["rpc"] = "active"
    /\ life' = [life EXCEPT !["rpc"] = "stopping"]
    /\ Unwatches("rpc")
    /\ rpc' = [rpc EXCEPT !.usable = FALSE]
    /\ mounting' = [mounting EXCEPT !["stop"] = [gen |-> srv.gen, ans |-> 1]]
    /\ IF rpc.lease # 0 /\ rpc.mounted THEN RouteRemove(MountTask("stop"), "rpc", rpc.lease, rpc.id, rpc.of)
       ELSE UNCHANGED srvVars
    /\ UNCHANGED <<leases, telling, revoking, lives>>

RpcStopGoesOn == Calm /\ MountRuns("stop") /\ guard # MountTask("stop") /\ RpcEnds

-----------------------------------------------------------------------------
RpcStep ==
    \/ \E m \in Mount : MountAnswered(m)
    \/ FirstMount \/ RpcToldOffer \/ RpcToldGone \/ RpcOnRevoke \/ RpcStopGoesOn

RpcNext == RpcStep \/ RpcInits \/ RpcStarts \/ RpcUnloads \/ RpcRollsBack
=============================================================================
