----------------------------- MODULE StdDevices -----------------------------
(***************************************************************************)
(* The devices std.http-client with std.rest-client, std.oauth, std.rpc as *)
(* a client, std.net and std.log, and rack-cli.  Apart from the first two, *)
(* which share a lease, they share no state: a behaviour looks at one.     *)
(***************************************************************************)
EXTENDS RestClient, TokenCache, RpcClient, NetProbe, LogDevice, RackCli

VARIABLE seen   \* the part this behaviour looks at

vars == <<life, calls, http, rcVars, tokVars, rpcc, netVars, logVars, cliVars, seen>>

Init ==
    /\ InitDevices /\ InitHttpClient /\ InitRestClient /\ InitTokens /\ InitRpcClient /\ InitNet /\ InitCli
    /\ \E withFile \in BOOLEAN : InitLog(withFile)
    /\ seen \in Device \cup {"cli"}

\* Who calls std.http-client itself, with any number of retries.
HttpNext ==
    \/ \E retries \in 0 .. MaxRetries : RequestBegins("direct", retries) /\ UNCHANGED rcVars
    \/ (HttpWork \/ HttpNetwork) /\ UNCHANGED <<life, calls, rcVars>>
    \/ HttpStopEnds /\ UNCHANGED rcVars
    \/ RestClientNext

Next ==
    /\ UNCHANGED seen
    /\ \/ seen = "cli" /\ CliNext /\ UNCHANGED <<life, calls, http, rcVars, tokVars, rpcc, netVars, logVars>>
       \/ seen = "http" /\ HttpNext /\ UNCHANGED <<tokVars, rpcc, netVars, logVars, cliVars>>
       \/ seen = "oauth" /\ TokenNext /\ UNCHANGED <<http, rcVars, rpcc, netVars, logVars, cliVars>>
       \/ seen = "rpc" /\ RpcClientNext /\ UNCHANGED <<http, rcVars, tokVars, netVars, logVars, cliVars>>
       \/ seen = "net" /\ NetNext /\ UNCHANGED <<http, rcVars, tokVars, rpcc, logVars, cliVars>>
       \/ seen = "log" /\ LogNext /\ UNCHANGED <<http, rcVars, tokVars, rpcc, netVars, cliVars>>

\* What the event loop, the timers and the file system do without being asked.
\* Nothing is expected of the network, and nothing of the callers.
Work ==
    /\ UNCHANGED seen
    /\ \/ /\ \/ HttpWork /\ UNCHANGED <<life, calls, rcVars>>
             \/ HttpStopEnds /\ UNCHANGED rcVars
          /\ UNCHANGED <<tokVars, rpcc, netVars, logVars, cliVars>>
       \/ /\ ExchangeTimesOut \/ ExchangeEnds
          /\ UNCHANGED <<life, calls, http, rcVars, tokVars, netVars, logVars, cliVars>>
       \/ (ProbeTimesOut \/ NetStopEnds) /\ UNCHANGED <<http, rcVars, tokVars, rpcc, logVars, cliVars>>
       \/ (Appends \/ LogStopEnds) /\ UNCHANGED <<http, rcVars, tokVars, rpcc, netVars, cliVars>>

Spec == Init /\ [][Next]_vars /\ WF_vars(Work)

-----------------------------------------------------------------------------
(* Properties                                                              *)

\* What the callers of std.http-client and std.rpc are told is what happened: no
\* failure of an attempt, and no 5xx response, is the answer to a request that has an
\* attempt left and is not being stopped, and none is made beyond the budget; a result
\* of the method call was sent by the remote under the id of this call, and a status
\* other than "failed" was said by it.
AnswersAreTrue ==
    /\ http.attempt <= http.budget
    /\ http.pc = "said" =>
           \/ http.said \in {"ok", "client", "limit"}
           \/ http.said \in {"server", "failed"} /\ (http.attempt = http.budget \/ Closed)
           \/ http.said = "stopped" /\ Closed
    /\ rpcc.pc = "said" =>
           /\ rpcc.said = Fine => rpcc.answer.wrap # "refused" /\ rpcc.answer.holds = "result"
           /\ rpcc.said \notin {Fine, "failed"} =>
                  /\ rpcc.said = rpcc.answer.status
                  /\ rpcc.answer.wrap = "refused" \/ rpcc.answer.holds = "error"

\* A CRUD request reaches the method mounted for what was asked, with the id that was
\* given, or none: of a resource with any of the five methods, with another one under
\* the same prefix mounted before or after it (one mounted at the prefix itself would
\* take it).  With all five mounted it reaches one, unless the
\* id is a dot segment, which the URL parser takes out.
CrudReachesItsMethod ==
    http.pc = "fetch" /\ rc.ask \notin {NoAsk, Plain} =>
        LET path == TargetPath(<<"api">>, "users", rc.ask)
            users(some) == RoutesOf(<<"api", "users">>, some)
            beside == RoutesOf(<<"api", "items">>, Slots)
            verb == Crud[CrudOp(rc.ask)].verb
        IN  \A some \in SUBSET Slots : \A routes \in {users(some) \o beside, beside \o users(some)} :
              LET reached == LookupRoute(routes, path, verb)
              IN  /\ some = Slots /\ Range(rc.ask.id) \cap {".", ".."} = {} => reached # <<>>
                  /\ \A m \in Range(reached) :
                       /\ m.prefix = <<"api", "users">> /\ m.slot \in some /\ m.id = rc.ask.id
                       /\ m.slot \in {"create", "update"} <=> rc.ask.item
                       /\ m.slot \in {"get", "update", "remove"} <=> HasId(rc.ask)
                       /\ m.slot = "remove" <=> rc.ask.verb = "DELETE"

\* A rest-client that runs takes std.http-client for usable exactly while it is there
\* in a version of its range.
RestFollows ==
    rc.up => (rc.usable <=> life["http"] = "active" /\ AcceptsVersion(HTTP_CLIENT_RANGE, gen.version))

\* token() serves from the cache only what the server that issued it still takes,
\* unless the reply was longer on its way than EXPIRY_MARGIN_MS; and a refresh token
\* that failed is not sent again: servers that rotate them take a second use for a
\* theft.
TokensAreGood ==
    /\ served.entry # NoEntry => served.entry.slow \/ served.entry.ends > served.when
    /\ tok.pc = "refresh" => tok.old \notin burnt

\* The log file has the accepted lines in their order and without a gap: up to the
\* last but those on the chain, or up to the append that failed; when stop() has
\* returned, none is on the chain.
LinesKept ==
    LET lines(n) == [i \in 1 .. n |-> i]
    IN  /\ IsPrefix(file, lines(accepted))
        /\ ~failed => file \o chain = lines(accepted)
        /\ life["log"] = "stopped" => chain = <<>>

\* An invocation of rack-cli leaves nothing undone on any path: the code is 0 exactly
\* if nothing was thrown and 2 only if no rack was made; a rack that was made is shut
\* down once, when its operation is over and the lease of a call returned, also after
\* a boot() that failed; and a rack that is still up at the end was executing
\* something and refused, which is told, but for one that failed to boot.
CliTidiesUp ==
    /\ cli.pc = "over" /\ cli.code # 2 => (cli.code = 0 <=> cli.ok)
    /\ cli.code = 2 => rack.state = "none"
    /\ leased => shutdowns = 0
    /\ cli.pc = "over" => /\ ~leased
                          /\ shutdowns = (IF rack.state = "none" THEN 0 ELSE 1)
                          /\ rack.state = "up" => warned

\* Every request of std.http-client, every exchange of std.rpc and every probe of
\* std.net ends, whatever the network does, and so does stop() of std.http-client,
\* std.net and std.log.
CallsEnd ==
    /\ ~Idle ~> Idle
    /\ rpcc.pc # "idle" ~> rpcc.pc = "idle"
    /\ net.pc = "probe" ~> net.pc # "probe"
    /\ \A d \in Device : life[d] = "stopping" ~> life[d] # "stopping"
=============================================================================
