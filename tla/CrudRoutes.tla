----------------------------- MODULE CrudRoutes -----------------------------
(***************************************************************************)
(* From a CRUD request to the method of a mounted resource: what the       *)
(* method crud of std.rest-client sends, the routes std.rest-server makes  *)
(* of a declaration, and the one std.http-server finds, each in            *)
(* ts/src/plugins/<name>/index.ts.  The two sides share conventions only.  *)
(*                                                                         *)
(* A path is the sequence of its segments, each as one value: the client   *)
(* encodes a segment by itself and the server decodes it by itself, so     *)
(* that an id may hold a slash.  A trailing slash is a last segment "".    *)
(***************************************************************************)
EXTENDS Integers, SequencesExt

-----------------------------------------------------------------------------
(* std.rest-client                                                         *)

\* What an operation sends and needs: CRUD_VERBS and CRUD_RULES.
Crud == [list   |-> [verb |-> "GET",    id |-> FALSE, item |-> FALSE],
         get    |-> [verb |-> "GET",    id |-> TRUE,  item |-> FALSE],
         create |-> [verb |-> "POST",   id |-> FALSE, item |-> TRUE],
         update |-> [verb |-> "PUT",    id |-> TRUE,  item |-> TRUE],
         remove |-> [verb |-> "DELETE", id |-> TRUE,  item |-> FALSE]]

\* The arguments of the method: the verb, "none" if absent; the id, <<>> if absent
\* and a sequence of one otherwise; whether there is an item.
Ask(Id) ==
    [verb : {"none", "GET", "POST", "PUT", "DELETE", "PATCH"}, id : {<<>>} \cup {<<x>> : x \in Id}, item : BOOLEAN]
HasId(ask) == ask.id # <<>>

\* resolveCrudOp(): what the verb and the fields select.
CrudOp(ask) ==
    CASE ask.verb \in {"none", "GET"} /\ ~ask.item -> IF HasId(ask) THEN "get" ELSE "list"
      [] ask.verb = "none" /\ ask.item -> IF HasId(ask) THEN "update" ELSE "create"
      [] ask.verb = "POST" /\ ask.item -> "create"
      [] ask.verb = "PUT" /\ ask.item -> "update"
      [] ask.verb = "DELETE" -> "remove"
      [] OTHER -> "refused"

\* parseCrudRequest(): the fields have to be those of the operation.  (mutant:
\* nobody looks at them)
Unlooked(ask, op) == TRUE
FieldsFit(ask, op) == Crud[op].id = HasId(ask) /\ Crud[op].item = ask.item
WellFormed(ask) == CrudOp(ask) \in DOMAIN Crud /\ FieldsFit(ask, CrudOp(ask))

\* What the URL parser does to dot segments; encodeURIComponent() lets them be.
AfterSegment(done, seg) ==
    CASE seg = "." -> done
      [] seg = ".." -> IF done = <<>> THEN done ELSE Front(done)
      [] OTHER -> Append(done, seg)
Resolved(path) ==
    LET done[n \in 0 .. Len(path)] == IF n = 0 THEN <<>> ELSE AfterSegment(done[n - 1], path[n])
    IN  done[Len(path)] \o (IF Last(path) \in {".", ".."} THEN <<"">> ELSE <<>>)

\* buildTargetUrl(): the base's own path is kept in front.
TargetPath(base, resource, ask) == Resolved(base \o <<resource>> \o ask.id)

-----------------------------------------------------------------------------
(* std.rest-server                                                         *)

\* CONVENTIONS, in the order of registration.
Conventions ==
    << [verb |-> "GET",    slot |-> "list",   id |-> FALSE],
       [verb |-> "GET",    slot |-> "get",    id |-> TRUE],
       [verb |-> "POST",   slot |-> "create", id |-> FALSE],
       [verb |-> "PUT",    slot |-> "update", id |-> TRUE],
       [verb |-> "DELETE", slot |-> "remove", id |-> TRUE] >>

Slots == {c.slot : c \in Range(Conventions)}

IdParam == ":id"

\* conventionPath()
ConventionPath(prefix, withId) == IF withId THEN Append(prefix, IdParam) ELSE prefix

\* The routes of a declaration that names methods for some of the slots.
RouteOf(prefix, c) ==
    [path |-> ConventionPath(prefix, c.id), verb |-> c.verb, prefix |-> prefix, slot |-> c.slot]
RoutesOf(prefix, slots) ==
    LET upTo[n \in 0 .. Len(Conventions)] ==
          IF n = 0 THEN <<>>
          ELSE IF Conventions[n].slot \in slots THEN Append(upTo[n - 1], RouteOf(prefix, Conventions[n]))
          ELSE upTo[n - 1]
    IN  upTo[Len(Conventions)]

-----------------------------------------------------------------------------
(* std.http-server                                                         *)

\* matchSegments() of a compiled route: no path that ends in a slash matches.
MatchSegments(route, path) ==
    /\ path # <<>> /\ Last(path) # ""
    /\ Len(path) = Len(route.path)
    /\ \A i \in DOMAIN path : route.path[i] \in {IdParam, path[i]}

\* lookupRoute() and the parameters, <<>> for 404 or 405.
LookupRoute(routes, path, verb) ==
    LET hits == {i \in DOMAIN routes : MatchSegments(routes[i], path) /\ routes[i].verb = verb}
        route == routes[CHOOSE i \in hits : \A j \in hits : i <= j]
    IN  IF hits = {} THEN <<>>
        ELSE << [prefix |-> route.prefix, slot |-> route.slot,
                 id |-> SetToSeq({path[i] : i \in {j \in DOMAIN path : route.path[j] = IdParam}})] >>
=============================================================================
