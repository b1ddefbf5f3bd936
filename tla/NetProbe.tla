------------------------------ MODULE NetProbe ------------------------------
(***************************************************************************)
(* std.net, ts/src/plugins/net/index.ts: TCP probes with a deadline, DNS   *)
(* lookups without one, and stop(), which settles every probe.             *)
(***************************************************************************)
EXTENDS OneCall

VARIABLES
    net,        \* [pc, timer, socket]: what runs, and what a probe holds
    probes,     \* inFlightProbes
    families    \* the outcomes of resolve4 and resolve6

netVars == <<net, probes, families>>

Resting == [pc |-> "idle", timer |-> FALSE, socket |-> FALSE]
InitNet == net = Resting /\ probes = 0 /\ families = <<"none", "none">>

\* probeTcp()
ProbeBegins ==
    /\ net.pc = "idle" /\ Invoked("net")
    /\ net' = [pc |-> "probe", timer |-> TRUE, socket |-> TRUE] /\ probes' = probes + 1
    /\ UNCHANGED <<families, life>>

\* finish(): tears everything down and settles.
Finish == net' = Resting /\ probes' = probes - 1

\* Connected or refused, or the deadline.
ProbeAnswered == net.socket /\ Finish /\ UNCHANGED <<families, life, calls>>
ProbeTimesOut == net.timer /\ Finish /\ UNCHANGED <<families, life, calls>>

\* resolveDns(): both families are asked and waited for.
LookupBegins ==
    /\ net.pc = "idle" /\ Invoked("net")
    /\ net' = [Resting EXCEPT !.pc = "dns"] /\ families' = <<"asked", "asked">>
    /\ UNCHANGED <<probes, life>>

FamilyAnswers(i) ==
    /\ families[i] = "asked"
    /\ families' \in {[families EXCEPT ![i] = how] : how \in {"addresses", "error"}}
    /\ UNCHANGED <<net, probes, life, calls>>

\* It fails only if both did.
LookupEnds ==
    /\ net.pc = "dns" /\ \A i \in {1, 2} : families[i] # "asked"
    /\ net' = Resting /\ families' = <<"none", "none">>
    /\ UNCHANGED <<probes, life, calls>>

\* stop(): the abort settles the probe in the same turn; then it waits for the count.
NetStops ==
    /\ Stopping("net")
    /\ IF net.pc = "probe" THEN Finish ELSE UNCHANGED <<net, probes>>
    /\ UNCHANGED families

NetStopEnds == probes = 0 /\ Stopped("net") /\ UNCHANGED netVars

NetNext ==
    \/ ProbeBegins \/ ProbeAnswered \/ ProbeTimesOut
    \/ LookupBegins \/ (\E i \in {1, 2} : FamilyAnswers(i)) \/ LookupEnds
    \/ NetStops \/ NetStopEnds
=============================================================================
