----------------------------- MODULE RpcClient -----------------------------
(***************************************************************************)
(* The client side of std.rpc, ts/src/plugins/rpc/index.ts: one exchange   *)
(* under a timeout, and what the method call makes of any answer to it.    *)
(***************************************************************************)
EXTENDS OneCall

VARIABLE rpcc   \* [pc, timer, aborted, answer, said]

Fine == "ok"
Status == {"not_found", "invalid_argument", "busy", "failed"}

\* How an answer is wrapped: a JSON-RPC envelope by itself, in the envelope of a
\* std.http-server, or an error of that server; and what it holds: a result under
\* our id or another one, an error, or nothing that is either.
Answer == [wrap : {"bare", "ok", "refused"}, holds : {"result", "other id", "error", "junk"}, status : Status]
NoAnswer == [wrap |-> "none", holds |-> "none", status |-> "none"]

Quiet == [pc |-> "idle", timer |-> FALSE, aborted |-> FALSE, answer |-> NoAnswer, said |-> "nothing"]
InitRpcClient == rpcc = Quiet

-----------------------------------------------------------------------------
(* Statuses and codes                                                      *)

\* statusToCode() of the server and codeToStatus() of the client.
StatusToCode(status) ==
    CASE status = "not_found" -> -32601 [] status = "invalid_argument" -> -32602 [] OTHER -> -32603
CodeToStatus(code) ==
    CASE code = -32601 -> "not_found" [] code = -32602 -> "invalid_argument" [] OTHER -> "failed"

\* unwrapSingleResponse(): the status call() throws, or Fine with the result.
Unwrapped(answer) ==
    CASE answer.wrap = "refused" -> answer.status
      [] answer.wrap # "refused" /\ answer.holds = "error" -> CodeToStatus(StatusToCode(answer.status))
      [] answer.wrap # "refused" /\ answer.holds = "result" -> Fine
      [] OTHER -> "failed"

-----------------------------------------------------------------------------
(* exchange()                                                              *)

\* handleCall() and handleBatch(): arguments that are refused change nothing.
ExchangeBegins ==
    /\ rpcc.pc = "idle" /\ Invoked("rpc")
    /\ rpcc' = [Quiet EXCEPT !.pc = "fetch", !.timer = TRUE]
    /\ UNCHANGED life

RpcSays(status, answer) == rpcc' = [Quiet EXCEPT !.pc = "said", !.answer = answer, !.said = status]
Throws(status) == RpcSays(status, NoAnswer)

\* The timer rejects the race, whatever fetch() does.
ExchangeTimesOut == rpcc.timer /\ Throws("failed")

ExchangeFails == rpcc.pc \in {"fetch", "text"} /\ Throws("failed")

\* The timer runs on until the body was read.
HeadersCome == rpcc.pc = "fetch" /\ ~rpcc.aborted /\ rpcc' = [rpcc EXCEPT !.pc = "text"]

\* The body: no JSON, or an answer.
BodyComes ==
    /\ rpcc.pc = "text" /\ ~rpcc.aborted
    /\ \E answer \in Answer : RpcSays(Unwrapped(answer), answer)

\* stop() of std.rpc aborts; it does not wait.
RpcStops ==
    /\ life["rpc"] = "active" /\ Becomes("rpc", "stopped")
    /\ rpcc' = [rpcc EXCEPT !.aborted = rpcc.pc \in {"fetch", "text"}]
    /\ UNCHANGED calls

ExchangeEnds == rpcc.pc = "said" /\ rpcc' = Quiet

RpcClientNext ==
    \/ ExchangeBegins \/ RpcStops
    \/ /\ ExchangeTimesOut \/ ExchangeFails \/ HeadersCome \/ BodyComes \/ ExchangeEnds
       /\ UNCHANGED <<life, calls>>
=============================================================================
