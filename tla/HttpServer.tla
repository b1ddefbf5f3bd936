----------------------------- MODULE HttpServer -----------------------------
(***************************************************************************)
(* The requests of std.http-server, ts/src/plugins/http-server/index.ts,   *)
(* from the socket to the answer, and its stop().  Routes are a sequence   *)
(* in the order they were added; a path pattern is the set of urls it      *)
(* matches.  Who adds and removes routes is in RouteTable.                 *)
(*                                                                         *)
(* A connection carries one request.  The next one on a connection that is *)
(* kept alive is that of another connection accepted before: one that had  *)
(* its answer and sends nothing more is closed by node:http, at once if it *)
(* is idle when stop() begins and else after its keep-alive timeout.       *)
(***************************************************************************)
EXTENDS OneShot

CONSTANTS
    Req,        \* requests, one connection each
    Url, Method,
    Route       \* [urls, method, to]

ASSUME HttpAssumption ==
    /\ Route \subseteq [urls : SUBSET Url, method : Method, to : STRING]
    /\ Nobody \notin Req

VARIABLES
    srv,        \* what is left of the listener
    routes,     \* the table
    req         \* of each request where it is, its target, how often it was answered, and
                \* whether its connection is open

httpVars == <<srv, routes, req>>

Pending == {"body", "called", "answered"}   \* the task is in the set pending
Closing == {"closing", "dropping"}          \* stop() runs: of an unload, of a rollback

InitHttp ==
    /\ srv = "new" /\ routes = <<>>
    /\ req = [r \in Req |-> [pc |-> "idle", to |-> "none", answers |-> 0, open |-> FALSE]]

-----------------------------------------------------------------------------
(* route.add and route.remove                                              *)

RouteAdded(route) ==
    /\ srv = "listening"
    /\ ~\E i \in DOMAIN routes : routes[i] = route
    /\ routes' = Append(routes, route)
    /\ UNCHANGED <<srv, req>>

RouteRemoved(i) ==
    /\ srv = "listening"
    /\ i \in DOMAIN routes
    /\ routes' = RemoveAt(routes, i)
    /\ UNCHANGED <<srv, req>>

-----------------------------------------------------------------------------
(* A request                                                               *)

\* lookupRoute(): the first match in the order of adding.  (mutant: the last)
LastOf(hits) == CHOOSE i \in hits : \A j \in hits : i >= j
FirstOf(hits) == CHOOSE i \in hits : \A j \in hits : i <= j

\* respondError() and sendJson(): one answer, and the task is over but for the
\* lease.
Answers(r, open) == req' = [req EXCEPT ![r].pc = "answered", ![r].answers = @ + 1, ![r].open = open]

\* The listener accepts a connection, which has sent no headers yet or not all.
Accepts(r) ==
    /\ srv = "listening" /\ req[r].pc = "idle"
    /\ req' = [req EXCEPT ![r].pc = "connected", ![r].open = TRUE]
    /\ UNCHANGED <<srv, routes, plugVars>>

\* The headers are complete, also after stop() began: the route is looked up
\* before the body is read.
Sends(r, url, method) ==
    /\ req[r].pc = "connected"
    /\ LET path == {i \in DOMAIN routes : url \in routes[i].urls}
           hits == {i \in path : routes[i].method = method}
       IN  \/ path = {} /\ Answers(r, TRUE)               \* 404
           \/ path # {} /\ hits = {} /\ Answers(r, TRUE)   \* 405
           \/ hits # {} /\ req' = [req EXCEPT ![r].pc = "body", ![r].to = routes[FirstOf(hits)].to]
    /\ UNCHANGED <<srv, routes, plugVars>>

\* It is too long, or the connection fails: 413 or 400.
BodyBad(r) ==
    /\ req[r].pc = "body"
    /\ \E open \in BOOLEAN : Answers(r, open)
    /\ UNCHANGED <<srv, routes, plugVars>>

\* The target is borrowed for one call.  It is refused when the instance is being
\* unloaded; in a rollback, which stops it while it is active, it is not.
BodyRead(r) ==
    /\ req[r].pc = "body"
    /\ LET p == req[r].to
       IN  \/ /\ ~Offered(p)
              /\ Answers(r, req[r].open)    \* 503
              /\ UNCHANGED plugVars
           \/ /\ Offered(p)
              /\ req' = [req EXCEPT ![r].pc = "called"]
              /\ BorrowsAndCalls(r, p, srv \in {"listening", "dropping"})
    /\ UNCHANGED <<srv, routes>>

\* The call ended or was refused: 200, whatever it said.
CallAnswered(r) ==
    /\ req[r].pc = "called" /\ running[req[r].to] # r
    /\ Answers(r, req[r].open)
    /\ UNCHANGED <<srv, routes, plugVars>>

\* finally: the lease goes back, unless onRevoke() did it.
TaskEnds(r) ==
    /\ req[r].pc = "answered"
    /\ req' = [req EXCEPT ![r].pc = "done", ![r].to = "none"]
    /\ LeaseGoesBack(r)
    /\ UNCHANGED <<srv, routes, plug, running>>

\* The client has read its answer, or goes without it: the connection is over.
Leaves(r) ==
    /\ req[r].open /\ req[r].pc \in {"connected", "called", "done"}
    /\ req' = [req EXCEPT ![r].open = FALSE, ![r].pc = IF @ = "connected" THEN "idle" ELSE @]
    /\ UNCHANGED <<srv, routes, plugVars>>

-----------------------------------------------------------------------------
(* Its life                                                                *)

\* start() listens, or it fails and there is no server.
Listens ==
    /\ srv = "new"
    /\ srv' \in {"listening", "failed"}
    /\ UNCHANGED <<routes, req, plugVars>>

StopBegins ==
    /\ srv = "listening"
    /\ srv' \in Closing
    /\ UNCHANGED <<routes, req, plugVars>>

\* close() calls back when the last connection is over: without headers, with an
\* unfinished body or with an answer not yet read it is not.
Closed ==
    /\ srv \in Closing /\ \A r \in Req : ~req[r].open
    /\ srv' = "draining"
    /\ UNCHANGED <<routes, req, plugVars>>

\* The loop over the pending tasks.  (mutants: there is none, a task never leaves the set)
NoneWaited == TRUE
NoneEver == \A r \in Req : req[r].pc = "idle"
NonePending == \A r \in Req : req[r].pc \notin Pending

\* After stop() the host deletes the leases that are left.
StopEnds ==
    /\ srv = "draining" /\ NonePending
    /\ srv' = "stopped" /\ routes' = <<>>
    /\ UNCHANGED <<req, plugVars>>

HttpNext ==
    \/ \E r \in Req : \/ \E url \in Url, method \in Method : Sends(r, url, method)
                      \/ Accepts(r) \/ BodyBad(r) \/ CallAnswered(r) \/ TaskEnds(r) \/ Leaves(r)
    \/ (\E route \in Route : RouteAdded(route)) /\ UNCHANGED plugVars
    \/ (\E i \in 1 .. Cardinality(Route) : RouteRemoved(i)) /\ UNCHANGED plugVars
    \/ Listens \/ StopBegins \/ Closed \/ StopEnds
=============================================================================
