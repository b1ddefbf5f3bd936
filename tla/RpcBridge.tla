----------------------------- MODULE RpcBridge -----------------------------
(***************************************************************************)
(* The server side of std.rpc, ts/src/plugins/rpc/index.ts: the method     *)
(* bridge, which std.http-server calls with the body of POST /rpc, runs    *)
(* the requests in it one after the other, each under a lease of its own,  *)
(* and makes one envelope of each, in their order.                         *)
(***************************************************************************)
EXTENDS OneShot

CONSTANT Payload    \* the bodies: sequences of entries, the providers they ask for

ASSUME BridgeAssumption == "rpc" \in Plug /\ \A body \in Payload : body \in Seq(STRING)

VARIABLE bridge     \* [pc, todo, out]: the entries to do and the envelopes made

InitBridge == bridge = [pc |-> "idle", todo |-> <<>>, out |-> <<>>]

\* handleBridge() with a payload: an entry for nobody that is there stands for a
\* request that is none as well, and for an empty batch.
BridgeBegins ==
    \E todo \in Payload : bridge' = [pc |-> "entry", todo |-> todo, out |-> <<>>]

\* An envelope, with a result or an error, for the first entry to do.
Envelope == bridge' = [pc |-> "entry", todo |-> Tail(bridge.todo), out |-> Append(bridge.out, Head(bridge.todo))]

\* executeRpcRequest(): acquire() and call(), which needs std.rpc to be active.
EntryBegins ==
    /\ bridge.pc = "entry" /\ bridge.todo # <<>>
    /\ LET p == Head(bridge.todo)
       IN  \/ /\ ~Offered(p)
              /\ Envelope /\ UNCHANGED plugVars
           \/ /\ Offered(p)
              /\ bridge' = [bridge EXCEPT !.pc = "called"]
              /\ BorrowsAndCalls("rpc", p, plug["rpc"].state = "active")

\* The call ended or was refused; the lease goes back.
EntryEnds ==
    /\ bridge.pc = "called" /\ running[Head(bridge.todo)] # "rpc"
    /\ Envelope
    /\ LeaseGoesBack("rpc")
    /\ UNCHANGED <<plug, running>>

\* The array of envelopes is the result of the invocation.
BridgeEnds ==
    /\ bridge.pc = "entry" /\ bridge.todo = <<>>
    /\ bridge' = [bridge EXCEPT !.pc = "idle", !.out = <<>>]
    /\ InvokeEnds("rpc")

BridgeNext == EntryBegins \/ EntryEnds \/ BridgeEnds
=============================================================================
