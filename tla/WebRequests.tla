---------------------------- MODULE WebRequests ----------------------------
(***************************************************************************)
(* HTTP requests through std.http-server to their targets, one of which is *)
(* std.rpc with its own calls, while targets are unloaded and loaded again *)
(* and the server itself is.                                               *)
(***************************************************************************)
EXTENDS HttpServer, RpcBridge

\* A request is told from std.rpc as a borrower.
ASSUME WebAssumption == "rpc" \notin Req

vars == <<plugVars, httpVars, bridge>>

Init == InitRack /\ InitHttp /\ InitBridge

\* An invocation of std.rpc begins with the call of its bridge.
BodyForwarded(r) ==
    /\ BodyRead(r)
    /\ IF running'["rpc"] = r THEN BridgeBegins ELSE UNCHANGED bridge

Revoked(l) == Revokes(l, l.by # "rpc")

Next ==
    \/ \E r \in Req : BodyForwarded(r)
    \/ HttpNext /\ UNCHANGED bridge
    \/ BridgeNext /\ UNCHANGED httpVars
    \/ /\ PlugNext \/ (\E l \in leases : Revoked(l)) \/ (\E p \in Plug \ {"rpc"} : InvokeEnds(p))
       /\ UNCHANGED <<httpVars, bridge>>

Spec == Init /\ [][Next]_vars

\* What the process does by itself: invocations end and the event loop runs what
\* they resolve.  Nothing is said of clients: headers and body may never end, an
\* answer may never be read.
Work ==
    \/ BridgeNext /\ UNCHANGED httpVars
    \/ /\ \/ \E r \in Req : CallAnswered(r) \/ TaskEnds(r)
          \/ Closed \/ StopEnds
       /\ UNCHANGED bridge
    \/ (\E p \in Plug \ {"rpc"} : InvokeEnds(p)) /\ UNCHANGED <<httpVars, bridge>>

FairSpec == Spec /\ WF_vars(Work)

-----------------------------------------------------------------------------
(* Properties                                                              *)

\* A lease is out for one call only: a request or an entry that is not between
\* acquire() and release() holds none, however its call or the unload of its
\* target went (dispatchHttpRequest(), executeRpcRequest()).  And nothing of it
\* outlives its target: an instance that was unloaded executes no call and is leased
\* by nobody, and a new generation has no lease of an older one.
LeasesAreOneShot ==
    /\ \A r \in Req : /\ Cardinality(LeasesBy(r)) <= 1
                      /\ LeasesBy(r) # {} => req[r].pc \in {"called", "answered"}
    /\ Cardinality(LeasesBy("rpc")) <= 1
    /\ LeasesBy("rpc") # {} => bridge.pc = "called"
    /\ \A p \in Plug : plug[p].state = "off" => running[p] = Nobody /\ LeasesOn(p) = {}
    /\ \A l \in leases : l.gen = plug[l.of].gen

\* A request is answered once, by the time its task is over; and when stop() is
\* over, so is every request, and no lease of one is left.
StopWaits ==
    /\ \A r \in Req : req[r].answers = (IF req[r].pc \in {"answered", "done"} THEN 1 ELSE 0)
    /\ srv = "stopped" => \A r \in Req : req[r].pc \in {"idle", "done"} /\ LeasesBy(r) = {}

\* Of two routes the earlier one serves: a request never goes to a route behind
\* one of the same method that matches all it matches (lookupRoute()).
EarlierRouteServes ==
    [][\A r \in Req : req[r].pc = "connected" /\ req'[r].pc = "body" =>
         \E i \in DOMAIN routes :
           /\ routes[i].to = req'[r].to
           /\ ~\E j \in 1 .. i - 1 : /\ routes[j].method = routes[i].method
                                     /\ routes[i].urls \subseteq routes[j].urls]_vars

\* stop() ends unless a client keeps its connection open: it does not finish its
\* headers or its body, or does not read its answer.  A call that runs, and a client
\* that went during it, do not keep it.
StopReturns ==
    srv \in Closing ~> srv = "stopped" \/ \E r \in Req : req[r].open /\ req[r].pc \in {"connected", "body", "done"}
=============================================================================
