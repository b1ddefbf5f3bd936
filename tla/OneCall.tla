------------------------------ MODULE OneCall ------------------------------
(***************************************************************************)
(* The standard devices as the rack drives them.  The gateway lets one     *)
(* invocation at a time into an instance, and only while it is active.     *)
(* stop() comes when none runs, if the instance is unloaded, and whatever  *)
(* runs, if the batch it started in is rolled back.                        *)
(***************************************************************************)
EXTENDS Integers, SequencesExt

CONSTANT MaxCalls       \* bounds on the invocations of each device

Device == {"http", "oauth", "rpc", "net", "log"}

ASSUME OneCallAssumption == MaxCalls \in [Device -> Nat]

VARIABLES
    life,       \* of each device
    calls       \* how many invocations there were

InitDevices == life = [d \in Device |-> "active"] /\ calls = 0

Invoked(d) == life[d] = "active" /\ calls < MaxCalls[d] /\ calls' = calls + 1

Becomes(d, state) == life' = [life EXCEPT ![d] = state]
Stopping(d) == life[d] = "active" /\ Becomes(d, "stopping") /\ UNCHANGED calls
Stopped(d) == life[d] = "stopping" /\ Becomes(d, "stopped") /\ UNCHANGED calls
=============================================================================
