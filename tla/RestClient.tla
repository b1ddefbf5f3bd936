----------------------------- MODULE RestClient -----------------------------
(***************************************************************************)
(* std.rest-client, ts/src/plugins/rest-client/index.ts: requests made of  *)
(* one std.http-client request each, under a lease that follows the        *)
(* generations of std.http-client.                                         *)
(***************************************************************************)
EXTENDS HttpClient, Versions, CrudRoutes

CONSTANTS
    MaxGen,         \* bound on the generations of std.http-client
    HttpVersions,   \* the versions it comes in
    HTTP_CLIENT_RANGE,
    Id              \* ids of items

ASSUME RestClientAssumption ==
    MaxGen \in Nat /\ HttpVersions \subseteq Version /\ HTTP_CLIENT_RANGE \in VersionRange

\* parseCrudRequest() refuses an empty one.
ASSUME IdAssumption == "" \notin Id

VARIABLES
    gen,        \* [number, version] of std.http-client
    rc          \* the client: [up, lease, usable, ask], ask is what it is executing

rcVars == <<gen, rc>>

NoAsk == [verb |-> "nothing", id |-> <<>>, item |-> FALSE]
Busy == rc.ask # NoAsk

InitRestClient ==
    /\ gen \in [number : {1}, version : {v \in HttpVersions : AcceptsVersion(HTTP_CLIENT_RANGE, v)}]
    /\ rc = [up |-> TRUE, lease |-> 1, usable |-> TRUE, ask |-> NoAsk]

-----------------------------------------------------------------------------
(* A request                                                               *)

\* The method resource sends what it is given, without conventions.
Plain == [verb |-> "resource", id |-> <<>>, item |-> FALSE]

\* performRequest() of what parseResourceRequest() or parseCrudRequest() let through:
\* a call of std.http-client without retries.  What the parser, the want of a usable
\* lease or the gateway refuses changes nothing.
Performs ==
    /\ rc.up /\ ~Busy /\ rc.usable /\ rc.lease = gen.number
    /\ RequestBegins("rest", 0)
    /\ \E ask \in {Plain} \cup {x \in Ask(Id) : WellFormed(x)} : rc' = [rc EXCEPT !.ask = ask]
    /\ UNCHANGED gen

PerformEnds ==
    /\ Busy /\ http.by # "rest"
    /\ rc' = [rc EXCEPT !.ask = NoAsk]
    /\ UNCHANGED <<gen, http, life, calls>>

-----------------------------------------------------------------------------
(* The lease                                                               *)

\* onCapability(): a version out of range is as good as none; a lease in hand is
\* kept.  (mutant: and then nothing is noted)
OfferIgnored(version) == IF rc.lease = 0 THEN [rc EXCEPT !.usable = TRUE, !.lease = gen.number + 1] ELSE rc
OfferNoted(version) ==
    IF ~AcceptsVersion(HTTP_CLIENT_RANGE, version) THEN [rc EXCEPT !.usable = FALSE]
    ELSE [rc EXCEPT !.usable = TRUE, !.lease = IF @ = 0 THEN gen.number + 1 ELSE @]

\* std.http-client is registered again, perhaps in another version, and offered.
HttpComesBack ==
    /\ life["http"] = "stopped" /\ gen.number < MaxGen
    /\ gen' \in [number : {gen.number + 1}, version : HttpVersions]
    /\ Becomes("http", "active") /\ http' = Fresh
    /\ rc' = IF rc.up THEN OfferNoted(gen'.version) ELSE rc
    /\ UNCHANGED calls

\* The withdrawal is told at once.
Withdrawn == [rc EXCEPT !.usable = FALSE]

\* A rollback asks for no lease back.
HttpRollsBack ==
    /\ Stopping("http") /\ HttpStops
    /\ rc' = Withdrawn
    /\ UNCHANGED gen

\* An unload asks: onRevoke() forgets the lease before it returns it, which is
\* 'busy' while the call runs; then the instance is quarantined.
HttpUnloads ==
    /\ life["http"] = "active"
    /\ Becomes("http", IF Idle THEN "stopping" ELSE "faulted")
    /\ rc' = [Withdrawn EXCEPT !.lease = IF @ = gen.number THEN 0 ELSE @]
    /\ UNCHANGED <<http, gen, calls>>

\* stop() of the client.
RestClientStops ==
    /\ rc.up
    /\ rc' = [rc EXCEPT !.up = FALSE, !.usable = FALSE, !.lease = 0]
    /\ UNCHANGED <<http, gen, life, calls>>

RestClientNext ==
    \/ Performs \/ PerformEnds \/ HttpComesBack \/ HttpRollsBack \/ HttpUnloads \/ RestClientStops
=============================================================================
