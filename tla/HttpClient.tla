----------------------------- MODULE HttpClient -----------------------------
(***************************************************************************)
(* std.http-client, ts/src/plugins/http-client/index.ts: one request with  *)
(* its attempts, their timeout, the backoff between them, and stop().      *)
(***************************************************************************)
EXTENDS OneCall

CONSTANT MaxRetries     \* bound on the argument retries

ASSUME HttpClientAssumption == MaxRetries \in Nat

VARIABLE http   \* where the request is, its attempt and budget, for whom it is;
                \* whether its controller was aborted; the class of the response;
                \* what the request came to

Fresh == [pc |-> "idle", attempt |-> 0, budget |-> 1, by |-> "nobody",
          aborted |-> FALSE, status |-> "none", said |-> "nothing"]

InitHttpClient == http = Fresh

Idle == http.pc = "idle"
Closed == life["http"] \in {"stopping", "stopped"}
Steps(pc) == http' = [http EXCEPT !.pc = pc]
Says(what) == http' = [http EXCEPT !.pc = "said", !.aborted = FALSE, !.said = what]

\* invoke(), parseRequestArgs() and the first attempt.  Arguments that are
\* refused change nothing.
RequestBegins(by, retries) ==
    /\ Idle /\ Invoked("http")
    /\ http' = [Fresh EXCEPT !.pc = "fetch", !.attempt = 1, !.budget = 1 + retries, !.by = by]
    /\ UNCHANGED life

-----------------------------------------------------------------------------
(* One attempt                                                             *)

\* The timer is armed and the controller known to stop() from before fetch()
\* until the body was read.  (mutant: until the headers came)
TillHeaders == {"fetch"}
Timed == {"fetch", "response", "body"}

TimesOut ==
    /\ http.pc \in Timed /\ ~http.aborted
    /\ http' = [http EXCEPT !.aborted = TRUE]

\* The abort rejects what the attempt waits for.
AbortHits == http.aborted /\ http.pc \in {"fetch", "body"} /\ Steps("threw")

NetworkFails == http.pc \in {"fetch", "body"} /\ Steps("threw")

FetchAnswers(status) ==
    /\ http.pc = "fetch" /\ ~http.aborted
    /\ http' = [http EXCEPT !.pc = "response", !.status = status]

\* Whether an attempt is left.  (mutant: one less)
OneLess == http.attempt + 1 < http.budget
AttemptLeft == http.attempt < http.budget

\* A 5xx with budget left is retried, its body is not read.
ResponseSeen ==
    /\ http.pc = "response"
    /\ LET retryable == ~Closed /\ AttemptLeft /\ http.status = "server"
       IN  http' = [http EXCEPT !.pc = IF retryable THEN "retry" ELSE "body",
                                !.aborted = IF retryable THEN FALSE ELSE @]

\* buildFinalResult()
BodyEnds == http.pc = "body" /\ ~http.aborted /\ Says(http.status)

\* readBodyWithLimit() gives up; never retried.
BodyTooLong == http.pc = "body" /\ Says("limit")

-----------------------------------------------------------------------------
(* The retry loop of performRequest()                                      *)

ThrownSeen ==
    /\ http.pc = "threw"
    /\ \/ Closed /\ Says("stopped")
       \/ ~Closed /\ AttemptLeft /\ http' = [http EXCEPT !.pc = "backoff", !.aborted = FALSE]
       \/ ~Closed /\ ~AttemptLeft /\ Says("failed")

RetrySeen == http.pc = "retry" /\ Steps("backoff")

\* The timer of the backoff resolves a promise; its continuation is the next attempt.
BackoffEnds == http.pc = "backoff" /\ Steps("resume")

Resumes ==
    /\ http.pc = "resume"
    /\ http' = [http EXCEPT !.pc = "fetch", !.attempt = @ + 1, !.status = "none"]

\* The result or the error goes to the caller.
RequestEnds == http.pc = "said" /\ http' = Fresh

-----------------------------------------------------------------------------
\* stop(): aborts the attempt and cancels the backoff there is, and waits.  An
\* attempt that is between the two is not caught.
HttpStops ==
    http' = [http EXCEPT !.aborted = @ \/ http.pc \in Timed,
                         !.pc = IF @ = "backoff" THEN "threw" ELSE @]

HttpStopEnds == Idle /\ Stopped("http") /\ UNCHANGED http

\* What the event loop and the timers do, and what the network may do.
HttpWork ==
    \/ TimesOut \/ AbortHits \/ ResponseSeen \/ ThrownSeen \/ RetrySeen \/ BackoffEnds \/ Resumes \/ RequestEnds

HttpNetwork ==
    NetworkFails \/ BodyEnds \/ BodyTooLong \/ (\E s \in {"ok", "client", "server"} : FetchAnswers(s))
=============================================================================
