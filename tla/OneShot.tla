------------------------------ MODULE OneShot ------------------------------
(***************************************************************************)
(* The rack as a plugin sees it that borrows another one for a single call *)
(* and returns it at once: the providers and their unload, their leases    *)
(* and the gateway's guard.  Providers, unload and guard are those of      *)
(* LeaseGateway, cut down to what one call under one lease meets.          *)
(***************************************************************************)
EXTENDS Integers, SequencesExt

CONSTANTS
    Plug,       \* the providers
    MaxGen      \* bound on their generations

ASSUME OneShotAssumption == MaxGen \in Nat

VARIABLES
    plug,       \* [state, gen] of each provider
    running,    \* the borrower whose call a provider is executing
    leases,     \* the outstanding leases: [of, gen, by]
    asked       \* those of them whose borrower was told to return them

plugVars == <<plug, running, leases, asked>>

Nobody == "nobody"

InitRack ==
    /\ plug = [p \in Plug |-> [state |-> "off", gen |-> 0]]
    /\ running = [p \in Plug |-> Nobody]
    /\ leases = {} /\ asked = {}

Offered(p) == p \in Plug /\ plug[p].state = "active"
LeasesBy(by) == {l \in leases : l.by = by}
LeasesOn(p) == {l \in leases : l.of = p}

\* acquire() and, in the same turn, call(): refused if the borrower is not active
\* or the provider is executing a call; the lease is held either way.
BorrowsAndCalls(by, p, active) ==
    /\ leases' = leases \cup {[of |-> p, gen |-> plug[p].gen, by |-> by]}
    /\ running' = IF active /\ running[p] = Nobody THEN [running EXCEPT ![p] = by] ELSE running
    /\ UNCHANGED <<plug, asked>>

\* The finally block.  (mutant: a borrower that forgets the lease)
Forgets(by) == leases
Returns(by) == leases \ LeasesBy(by)
LeaseGoesBack(by) == leases' = Returns(by) /\ asked' = asked \ LeasesBy(by)

\* An invocation returns or throws; its caller goes on later.
InvokeEnds(p) ==
    /\ running[p] # Nobody
    /\ running' = [running EXCEPT ![p] = Nobody]
    /\ UNCHANGED <<plug, leases, asked>>

-----------------------------------------------------------------------------
(* Providers come and go                                                   *)

Comes(p) ==
    /\ plug[p].state = "off" /\ plug[p].gen < MaxGen
    /\ plug' = [plug EXCEPT ![p] = [state |-> "active", gen |-> @.gen + 1]]
    /\ UNCHANGED <<running, leases, asked>>

UnloadBegins(p) ==
    /\ plug[p].state = "active"
    /\ plug' = [plug EXCEPT ![p].state = "revoking"]
    /\ UNCHANGED <<running, leases, asked>>

\* onRevoke() of a borrower that returns (std.http-server) or does nothing
\* (std.rpc): release() is 'busy' while the call runs.
Revokes(l, returns) ==
    /\ l \in leases \ asked /\ plug[l.of].state = "revoking"
    /\ IF returns /\ running[l.of] # l.by THEN leases' = leases \ {l} /\ UNCHANGED asked
       ELSE asked' = asked \cup {l} /\ UNCHANGED leases
    /\ UNCHANGED <<plug, running>>

UnloadEnds(p) ==
    /\ plug[p].state = "revoking" /\ LeasesOn(p) \subseteq asked
    /\ plug' = [plug EXCEPT ![p].state = IF LeasesOn(p) = {} THEN "off" ELSE "faulted"]
    /\ UNCHANGED <<running, leases, asked>>

PlugNext == \E p \in Plug : Comes(p) \/ UnloadBegins(p) \/ UnloadEnds(p)
=============================================================================
