--------------------------- MODULE MCWebRequests ---------------------------
(* A small instance of WebRequests for TLC; the bounds are in               *)
(* WebRequests.cfg: a route with a parameter and one without it overlap.    *)
EXTENDS WebRequests
SmallRoute == {[urls |-> {"u"}, method |-> "GET", to |-> "a"],
               [urls |-> {"u", "v"}, method |-> "GET", to |-> "rpc"]}
\* The body asks std.rpc for a call to itself first.
SmallPayload == {<<"rpc", "a">>}
=============================================================================
