---------------------------- MODULE LeaseGateway ----------------------------
(***************************************************************************)
(* Borrowing and calling in the TypeScript rack: the lease table of        *)
(* ts/src/core/lease.ts, the invoke gateway of ts/src/core/calls.ts, the   *)
(* capability table of ts/src/core/caps.ts as far as lookup() reads it,    *)
(* and the lifecycle of ts/src/core/host.ts as far as it drives the three: *)
(* batch start, rollback, and the unload protocol with its revokers.       *)
(*                                                                         *)
(* Granularity: the rack runs on one event loop, so a step is the code     *)
(* between two awaits.  A plugin callback (init, start, onRevoke, stop,    *)
(* destroy, invoke) is two steps, its call and its return, and anything    *)
(* the loop can run may come between them.                                 *)
(*                                                                         *)
(* One unload at a time runs for an instance here, and one startup batch;  *)
(* what two overlapping host operations do to each other's records is the  *)
(* subject of RackHost.  Of their overlap this module has what reaches a   *)
(* credential: the generation number a load draws before it awaits its     *)
(* import and writes down after it (Overlap).                              *)
(***************************************************************************)
EXTENDS Integers, FiniteSets

CONSTANTS
    PlugId,     \* plugin identities, each one a consumer and a provider
    Handle,     \* lease credentials; one handle is minted at most once
    Call,       \* activations of the gateway's call()
    Load,       \* boots, loads and reloads that may await an import
    Overlap,    \* TRUE if records are numbered while one awaits its import
    MaxGen,     \* bound: the highest generation number
    NoPlug, NoHandle

ASSUME LeaseGatewayAssumption ==
    /\ MaxGen \in Nat
    /\ Overlap \in BOOLEAN
    /\ NoPlug \notin PlugId
    /\ NoHandle \notin Handle

VARIABLES
    (* host.ts: one InstanceRecord per plugId *)
    st,         \* InstanceState of the record, "absent" when there is none
    pc,         \* the host operation in progress on the record
    gen,        \* generation of the record (of the last one when absent)
    nextGen,    \* nextGeneration
    drawn,      \* local to boot(), load() and reload(): the generation drawn, or 0
    inBatch,    \* records of the startup batch that has not finished
    failing,    \* TRUE while that batch is being rolled back
    inFlight,   \* record.inFlight
    (* caps.ts: the entry lookup() returns *)
    caps,       \* generation registered for a plugId, 0 when there is none
    (* lease.ts: the lease table *)
    lease,      \* "free" not minted, "out" in the table, "gone" removed
    owner,      \* consumerId
    target,     \* <<providerPlugId, providerGeneration>>
    giver,      \* history: who took the lease out of the table
    open,       \* record.inFlight of the lease
    toNotify,   \* revokeProvider: snapshot still to be notified, per provider
    notified,   \* revokeProvider: lease whose onRevoke is running
    (* calls.ts: call() activations *)
    call,       \* "idle", "invoking" (provider runs), "left" (it runs on, and
                \* its record is gone) or "returned"
    callLease,  \* credential of the activation
    callKey,    \* instance it invokes
    busy        \* inFlightProviders

numVars   == <<gen, nextGen, drawn>>
hostVars  == <<st, pc, numVars, inBatch, failing>>
leaseVars == <<lease, owner, target, giver>>
revVars   == <<toNotify, notified>>
callVars  == <<call, callLease, callKey, busy>>
vars == <<hostVars, caps, inFlight, leaseVars, open, revVars, callVars>>

Gen == 1 .. MaxGen
Instance == PlugId \X Gen
NoInstance == <<NoPlug, 0>>

InstanceState ==
    {"absent", "created", "initialized", "active", "revoking", "faulted"}
HostPc ==
    {"idle", "init", "start", "withdrawn", "revoke", "stop", "destroy",
     "rollwithdrawn", "rollstop", "rolldestroy", "discard"}

HostTypeOK ==
    /\ st \in [PlugId -> InstanceState]
    /\ pc \in [PlugId -> HostPc]
    /\ gen \in [PlugId -> 0 .. MaxGen]
    /\ nextGen \in 0 .. MaxGen
    /\ drawn \in [Load -> 0 .. MaxGen]
    /\ inBatch \in SUBSET PlugId
    /\ failing \in BOOLEAN
    /\ caps \in [PlugId -> 0 .. MaxGen]

LeaseTypeOK ==
    /\ lease \in [Handle -> {"free", "out", "gone"}]
    /\ owner \in [Handle -> PlugId \cup {NoPlug}]
    /\ target \in [Handle -> Instance \cup {NoInstance}]
    /\ giver \in [Handle -> PlugId \cup {NoPlug}]
    /\ open \in [Handle -> Nat]
    /\ toNotify \in [PlugId -> SUBSET Handle]
    /\ notified \in [PlugId -> Handle \cup {NoHandle}]

CallTypeOK ==
    /\ call \in [Call -> {"idle", "invoking", "left", "returned"}]
    /\ callLease \in [Call -> Handle \cup {NoHandle}]
    /\ callKey \in [Call -> Instance \cup {NoInstance}]
    /\ busy \in SUBSET Instance
    /\ inFlight \in [PlugId -> Nat]

\* The shape of the state.  That inFlight never goes negative, although it is
\* decremented on whatever record the wrapper holds, is not a matter of shape.
TypeOK == HostTypeOK /\ LeaseTypeOK /\ CallTypeOK

Init ==
    /\ st = [p \in PlugId |-> "absent"]
    /\ pc = [p \in PlugId |-> "idle"]
    /\ gen = [p \in PlugId |-> 0]
    /\ nextGen = 0
    /\ drawn = [l \in Load |-> 0]
    /\ inBatch = {}
    /\ failing = FALSE
    /\ inFlight = [p \in PlugId |-> 0]
    /\ caps = [p \in PlugId |-> 0]
    /\ lease = [h \in Handle |-> "free"]
    /\ owner = [h \in Handle |-> NoPlug]
    /\ target = [h \in Handle |-> NoInstance]
    /\ giver = [h \in Handle |-> NoPlug]
    /\ open = [h \in Handle |-> 0]
    /\ toNotify = [p \in PlugId |-> {}]
    /\ notified = [p \in PlugId |-> NoHandle]
    /\ call = [k \in Call |-> "idle"]
    /\ callLease = [k \in Call |-> NoHandle]
    /\ callKey = [k \in Call |-> NoInstance]
    /\ busy = {}

-----------------------------------------------------------------------------
(* State functions                                                         *)

\* The instance whose record the host holds for p.
Current(p) == <<p, gen[p]>>

\* (mutant: leases with an open call are forgotten)
OutstandingAtRest(i) ==
    \E h \in Handle : lease[h] = "out" /\ target[h] = i /\ open[h] = 0

\* hasOutstandingFor: some lease on the instance is still in the table.
Outstanding(i) == \E h \in Handle : lease[h] = "out" /\ target[h] = i

\* Some activation is still inside the invoke() of p's record.
Invoking(p) == \E k \in Call : call[k] = "invoking" /\ callKey[k][1] = p

\* p's code runs: from the call of init() until stop() has returned, which
\* "must end all plugin-side asynchronous work".
Live(p) ==
    \/ pc[p] = "init"
    \/ /\ st[p] \in {"initialized", "active", "revoking", "faulted"}
       /\ pc[p] \notin {"destroy", "rolldestroy"}

\* A startup batch is sequential: one callback of its members at a time.
BatchIdle == \A q \in inBatch : pc[q] = "idle"

\* Between batches: only here is anything staged or imported made a record.
Staging == ~failing /\ \A q \in inBatch : st[q] = "created" /\ pc[q] = "idle"

\* The failure is one of phase two, whose members were all initialized.
PhaseTwo == \A q \in inBatch : st[q] # "created"

\* Nobody awaits an import with a number drawn, or that is no hindrance.
MayNumber == Overlap \/ \A l \in Load : drawn[l] = 0

\* The generation of a new record.  (mutant: a plugId keeps its generation)
KeptNumber(p, n) == IF gen[p] = 0 THEN n ELSE gen[p]
Numbered(p, n) == n

\* (mutant: the table keeps its entry until the record goes)
StillOffered(p) == caps

\* lookup() after withdraw(): the entry goes only if it is this generation.
Withdrawn(p) == [caps EXCEPT ![p] = IF @ = gen[p] THEN 0 ELSE @]

\* (mutant: no cleanup of what the consumer borrowed)
NothingReleased(p) == lease

\* releaseAllFrom(): every lease of the consumer leaves the table.
Released(p) ==
    [h \in Handle |-> IF lease[h] = "out" /\ owner[h] = p THEN "gone" ELSE lease[h]]
LeftBy(p) ==
    [h \in Handle |-> IF lease[h] = "out" /\ owner[h] = p THEN p ELSE giver[h]]

\* revokeProvider's loop: each lease of the snapshot is visited once.
\* (mutant: a lease that is not returned is notified again)
VisitedUntilReturned(p, h) ==
    IF lease[h] = "out" THEN toNotify[p] ELSE toNotify[p] \ {h}
Visited(p, h) == toNotify[p] \ {h}

\* release() answers 'ok' to the consumer of the lease, with no call open on it.
\* (mutant: to whoever has the credential)
AnyonesReturnable(c, h) == open[h] = 0
Returnable(c, h) == owner[h] = c /\ open[h] = 0

\* The reentrancy guard.  (mutant: no guard)
NeverReentrant(i) == FALSE
Reentrant(i) == i \in busy

\* A record that goes has its inFlight go with it: the wrapper of a call that is
\* still in it counts down a record that nobody looks at any more.
Orphaned(p) ==
    [k \in Call |-> IF call[k] = "invoking" /\ callKey[k][1] = p THEN "left" ELSE call[k]]

\* endCall(): decrement, unless the lease is gone.  (mutant: not called)
EndCallSkipped(h) == open[h]
EndCall(h) == IF lease[h] = "out" /\ open[h] > 0 THEN open[h] - 1 ELSE open[h]

-----------------------------------------------------------------------------
(* The startup batch: host.ts createRecord, initInstance, startInstance.   *)

\* The record of p enters the table.
Recorded(p, n) ==
    /\ st[p] = "absent"
    /\ gen' = [gen EXCEPT ![p] = Numbered(p, n)]
    /\ st' = [st EXCEPT ![p] = "created"]
    /\ inBatch' = inBatch \cup {p}
    /\ UNCHANGED <<pc, failing, caps, inFlight, leaseVars, open, revVars, callVars>>

\* start() makes a staged factory's plugin.
CreateRecord(p) ==
    /\ Staging /\ MayNumber
    /\ nextGen < MaxGen
    /\ nextGen' = nextGen + 1
    /\ Recorded(p, nextGen + 1)
    /\ UNCHANGED drawn

\* boot(), load() or reload() draws a number and awaits the import.  (In a batch
\* nothing is numbered, so to draw one there is to draw it after the batch.)
Draws(l) ==
    /\ drawn[l] = 0 /\ MayNumber /\ Staging
    /\ nextGen < MaxGen
    /\ drawn' = [drawn EXCEPT ![l] = nextGen + 1]
    /\ UNCHANGED <<st, pc, gen, nextGen, inBatch, failing>>
    /\ UNCHANGED <<caps, inFlight, leaseVars, open, revVars, callVars>>

\* The import is there.  The counter is set to the number drawn before it, which
\* with Overlap may have been given out meanwhile, or be behind.
Loaded(l, p) ==
    /\ drawn[l] # 0 /\ Staging
    /\ nextGen' = drawn[l]
    /\ drawn' = [drawn EXCEPT ![l] = 0]
    /\ Recorded(p, drawn[l])

\* The import failed; or, the counter being set, createRecord() refused what it
\* brought.  A boot then discards the records it has made.
LoadFails(l) ==
    /\ drawn[l] # 0 /\ Staging
    /\ nextGen' \in {nextGen, drawn[l]}
    /\ drawn' = [drawn EXCEPT ![l] = 0]
    /\ failing' \in BOOLEAN /\ (failing' => inBatch # {})
    /\ UNCHANGED <<st, pc, gen, inBatch>>
    /\ UNCHANGED <<caps, inFlight, leaseVars, open, revVars, callVars>>

InitBegin(p) ==
    /\ p \in inBatch /\ BatchIdle /\ ~failing
    /\ st[p] = "created"
    /\ pc' = [pc EXCEPT ![p] = "init"]
    /\ UNCHANGED <<st, numVars, inBatch, failing>>
    /\ UNCHANGED <<caps, inFlight, leaseVars, open, revVars, callVars>>

InitReturns(p) ==
    /\ pc[p] = "init"
    /\ st' = [st EXCEPT ![p] = "initialized"]
    /\ pc' = [pc EXCEPT ![p] = "idle"]
    /\ UNCHANGED <<numVars, inBatch, failing>>
    /\ UNCHANGED <<caps, inFlight, leaseVars, open, revVars, callVars>>

\* The record stays 'created', to be destroyed without stop().
InitThrows(p) ==
    /\ pc[p] = "init"
    /\ pc' = [pc EXCEPT ![p] = "idle"]
    /\ failing' = TRUE
    /\ UNCHANGED <<st, numVars, inBatch>>
    /\ UNCHANGED <<caps, inFlight, leaseVars, open, revVars, callVars>>

\* Phase two begins once every member is initialized.
StartBegin(p) ==
    /\ p \in inBatch /\ BatchIdle /\ ~failing
    /\ st[p] = "initialized"
    /\ \A q \in inBatch : st[q] \in {"initialized", "active"}
    /\ pc' = [pc EXCEPT ![p] = "start"]
    /\ UNCHANGED <<st, numVars, inBatch, failing>>
    /\ UNCHANGED <<caps, inFlight, leaseVars, open, revVars, callVars>>

\* The instance turns Active and, if start() published, is registered at once.
StartReturns(p, published) ==
    /\ pc[p] = "start"
    /\ published => caps[p] = 0
    /\ st' = [st EXCEPT ![p] = "active"]
    /\ pc' = [pc EXCEPT ![p] = "idle"]
    /\ caps' = IF published THEN [caps EXCEPT ![p] = gen[p]] ELSE caps
    /\ UNCHANGED <<numVars, inBatch, failing>>
    /\ UNCHANGED <<inFlight, leaseVars, open, revVars, callVars>>

\* start() threw, or (the instance being Active already) register() refused.
StartThrows(p) ==
    /\ pc[p] = "start"
    /\ \E reached \in {"initialized", "active"} : st' = [st EXCEPT ![p] = reached]
    /\ pc' = [pc EXCEPT ![p] = "idle"]
    /\ failing' = TRUE
    /\ UNCHANGED <<numVars, inBatch>>
    /\ UNCHANGED <<caps, inFlight, leaseVars, open, revVars, callVars>>

BatchCommits ==
    /\ inBatch # {} /\ ~failing
    /\ \A q \in inBatch : st[q] = "active" /\ pc[q] = "idle"
    /\ inBatch' = {}
    /\ UNCHANGED <<st, pc, numVars, failing>>
    /\ UNCHANGED <<caps, inFlight, leaseVars, open, revVars, callVars>>

\* Members never initialized are destroyed only, after the others.
DiscardBegin(p) ==
    /\ p \in inBatch /\ BatchIdle /\ failing
    /\ \A q \in inBatch : st[q] = "created"
    /\ pc' = [pc EXCEPT ![p] = "discard"]
    /\ UNCHANGED <<st, numVars, inBatch, failing>>
    /\ UNCHANGED <<caps, inFlight, leaseVars, open, revVars, callVars>>

\* rollbackInstance(), without revoking anything: after a failure of phase two it
\* withdraws first, after one of phase one it calls stop() at once.
RollbackBegin(p) ==
    /\ p \in inBatch /\ BatchIdle /\ failing
    /\ \/ /\ ~PhaseTwo /\ st[p] = "initialized"
          /\ pc' = [pc EXCEPT ![p] = "rollstop"]
          /\ caps' = caps
       \/ /\ PhaseTwo /\ st[p] \in {"initialized", "active"}
          /\ pc' = [pc EXCEPT ![p] = "rollwithdrawn"]
          /\ caps' = Withdrawn(p)
    /\ UNCHANGED <<st, numVars, inBatch, failing>>
    /\ UNCHANGED <<inFlight, leaseVars, open, revVars, callVars>>

RollbackStops(p) ==
    /\ pc[p] = "rollwithdrawn"
    /\ pc' = [pc EXCEPT ![p] = "rollstop"]
    /\ UNCHANGED <<st, numVars, inBatch, failing>>
    /\ UNCHANGED <<caps, inFlight, leaseVars, open, revVars, callVars>>

\* A throwing stop() is reported and the rollback goes on.
RollbackStopEnds(p) ==
    /\ pc[p] = "rollstop"
    /\ lease' = Released(p) /\ giver' = LeftBy(p)
    /\ pc' = [pc EXCEPT ![p] = "rolldestroy"]
    /\ UNCHANGED <<st, numVars, inBatch, failing>>
    /\ UNCHANGED <<caps, inFlight, owner, target, open, revVars, callVars>>

\* destroy() returned or threw: the record is dropped regardless.
DestroyEnds(p) ==
    /\ pc[p] \in {"destroy", "rolldestroy", "discard"}
    /\ st' = [st EXCEPT ![p] = "absent"]
    /\ pc' = [pc EXCEPT ![p] = "idle"]
    /\ inBatch' = inBatch \ {p}
    /\ failing' = (failing /\ inBatch \ {p} # {})
    /\ inFlight' = [inFlight EXCEPT ![p] = 0]
    /\ call' = Orphaned(p)
    /\ UNCHANGED <<numVars, caps, leaseVars, open, revVars, callLease, callKey, busy>>

-----------------------------------------------------------------------------
(* The unload protocol: host.ts runUnloadProtocol, lease.ts revokeProvider *)

\* First attempt on an Active instance, or a retry after 'busy'.  unload() asks
\* for it with no callback on the stack; poll() and shutdown() look at the
\* stack once and then unload one instance after another, so a call may be
\* running in this one.
UnloadBegin(p) ==
    /\ p \notin inBatch
    /\ st[p] \in {"active", "revoking"}
    /\ pc[p] = "idle"
    /\ st' = [st EXCEPT ![p] = "revoking"]
    /\ caps' = Withdrawn(p)
    /\ pc' = [pc EXCEPT ![p] = "withdrawn"]
    /\ UNCHANGED <<numVars, inBatch, failing>>
    /\ UNCHANGED <<inFlight, leaseVars, open, revVars, callVars>>

RevokeSnapshot(p) ==
    /\ pc[p] = "withdrawn"
    /\ toNotify' = [toNotify EXCEPT ![p] =
            {h \in Handle : lease[h] = "out" /\ target[h] = Current(p)}]
    /\ pc' = [pc EXCEPT ![p] = "revoke"]
    /\ UNCHANGED <<st, numVars, inBatch, failing>>
    /\ UNCHANGED <<caps, inFlight, leaseVars, open, notified, callVars>>

\* A lease returned meanwhile is skipped, any other has its revoker called.
RevokeNotify(p, h) ==
    /\ pc[p] = "revoke" /\ notified[p] = NoHandle
    /\ h \in toNotify[p]
    /\ toNotify' = [toNotify EXCEPT ![p] = Visited(p, h)]
    /\ notified' = [notified EXCEPT ![p] = IF lease[h] = "out" THEN h ELSE @]
    /\ UNCHANGED <<hostVars, caps, inFlight, leaseVars, open, callVars>>

\* onRevoke() returned or threw; whether it released is Release's business.
RevokerEnds(p) ==
    /\ pc[p] = "revoke" /\ notified[p] # NoHandle
    /\ notified' = [notified EXCEPT ![p] = NoHandle]
    /\ UNCHANGED <<hostVars, caps, inFlight, leaseVars, open, toNotify, callVars>>

\* Every revoker has run: quarantine, 'busy', or on to stop().
RevokeVerdict(p) ==
    /\ pc[p] = "revoke" /\ notified[p] = NoHandle /\ toNotify[p] = {}
    /\ IF Outstanding(Current(p))
       THEN /\ st' = [st EXCEPT ![p] = "faulted"]
            /\ pc' = [pc EXCEPT ![p] = "idle"]
       ELSE /\ st' = st
            /\ pc' = [pc EXCEPT ![p] =
                        IF inFlight[p] > 0 THEN "idle" ELSE "stop"]
    /\ UNCHANGED <<numVars, inBatch, failing>>
    /\ UNCHANGED <<caps, inFlight, leaseVars, open, revVars, callVars>>

StopReturns(p) ==
    /\ pc[p] = "stop"
    /\ lease' = Released(p) /\ giver' = LeftBy(p)
    /\ pc' = [pc EXCEPT ![p] = "destroy"]
    /\ UNCHANGED <<st, numVars, inBatch, failing>>
    /\ UNCHANGED <<caps, inFlight, owner, target, open, revVars, callVars>>

StopThrows(p) ==
    /\ pc[p] = "stop"
    /\ st' = [st EXCEPT ![p] = "faulted"]
    /\ pc' = [pc EXCEPT ![p] = "idle"]
    /\ UNCHANGED <<numVars, inBatch, failing>>
    /\ UNCHANGED <<caps, inFlight, leaseVars, open, revVars, callVars>>

-----------------------------------------------------------------------------
(* What a consumer does with the lease table                               *)

\* acquire(): mint a credential bound to the registered generation.
Acquire(c, p, h) ==
    /\ Live(c)
    /\ caps[p] # 0
    /\ lease[h] = "free"
    /\ lease' = [lease EXCEPT ![h] = "out"]
    /\ owner' = [owner EXCEPT ![h] = c]
    /\ target' = [target EXCEPT ![h] = <<p, caps[p]>>]
    /\ UNCHANGED <<hostVars, caps, inFlight, giver, open, revVars, callVars>>

\* release() by c: 'stale' if the lease is gone or another's, 'busy' while a call
\* is open on it.
Release(c, h) ==
    /\ lease[h] = "out"
    /\ Returnable(c, h)
    /\ lease' = [lease EXCEPT ![h] = "gone"]
    /\ giver' = [giver EXCEPT ![h] = c]
    /\ UNCHANGED <<hostVars, caps, inFlight, owner, target, open, revVars, callVars>>

-----------------------------------------------------------------------------
(* The invoke gateway: calls.ts call(), services.ts assertConsumerActive,  *)
(* host.ts resolveProvider.  A refused call leaves nothing behind.         *)

CallBegin(k, h) ==
    LET c == owner[h]
        i == target[h]
        p == i[1]
    IN  /\ call[k] = "idle"
        /\ lease[h] = "out"
        /\ st[c] = "active"                           \* assertConsumerActive
        /\ caps[p] = i[2]                             \* beginCall, lookupCaps
        /\ st[p] = "active" /\ gen[p] = i[2]          \* resolveProvider
        /\ ~Reentrant(i)                              \* reentrancy guard
        /\ open' = [open EXCEPT ![h] = @ + 1]
        /\ busy' = busy \cup {i}
        /\ inFlight' = [inFlight EXCEPT ![p] = @ + 1]
        /\ call' = [call EXCEPT ![k] = "invoking"]
        /\ callLease' = [callLease EXCEPT ![k] = h]
        /\ callKey' = [callKey EXCEPT ![k] = i]
        /\ UNCHANGED <<hostVars, caps, leaseVars, revVars>>

\* The provider's invoke() settled: the host's in-flight wrapper ends first.
InvokeEnds(k) ==
    /\ call[k] \in {"invoking", "left"}
    /\ call' = [call EXCEPT ![k] = "returned"]
    /\ inFlight' = IF call[k] = "invoking" THEN [inFlight EXCEPT ![callKey[k][1]] = @ - 1] ELSE inFlight
    /\ UNCHANGED <<hostVars, caps, leaseVars, open, revVars, callLease, callKey, busy>>

\* The gateway's finally blocks, a few microtasks later.
CallEnds(k) ==
    LET h == callLease[k]
    IN  /\ call[k] = "returned"
        /\ call' = [call EXCEPT ![k] = "idle"]
        /\ busy' = busy \ {callKey[k]}
        /\ open' = [open EXCEPT ![h] = EndCall(h)]
        /\ callLease' = [callLease EXCEPT ![k] = NoHandle]
        /\ callKey' = [callKey EXCEPT ![k] = NoInstance]
        /\ UNCHANGED <<hostVars, caps, inFlight, leaseVars, revVars>>

-----------------------------------------------------------------------------
LoadStep(l) ==
    \/ Draws(l) \/ LoadFails(l)
    \/ \E p \in PlugId : Loaded(l, p)

StartupStep(p) ==
    \/ CreateRecord(p)
    \/ InitBegin(p) \/ InitReturns(p) \/ InitThrows(p)
    \/ StartBegin(p) \/ StartThrows(p)
    \/ \E published \in BOOLEAN : StartReturns(p, published)
    \/ DiscardBegin(p) \/ RollbackBegin(p) \/ RollbackStops(p) \/ RollbackStopEnds(p)
    \/ DestroyEnds(p)

UnloadStep(p) ==
    \/ UnloadBegin(p) \/ RevokeSnapshot(p)
    \/ \E h \in Handle : RevokeNotify(p, h)
    \/ RevokerEnds(p) \/ RevokeVerdict(p)
    \/ StopReturns(p) \/ StopThrows(p)

LeaseStep(h) ==
    \/ \E c, p \in PlugId : Acquire(c, p, h)
    \/ \E c \in PlugId : Release(c, h)

CallStep(k) ==
    \/ \E h \in Handle : CallBegin(k, h)
    \/ InvokeEnds(k)
    \/ CallEnds(k)

Next ==
    \/ BatchCommits
    \/ \E l \in Load : LoadStep(l)
    \/ \E p \in PlugId : StartupStep(p) \/ UnloadStep(p)
    \/ \E h \in Handle : LeaseStep(h)
    \/ \E k \in Call : CallStep(k)

Spec == Init /\ [][Next]_vars

\* What the event loop and plugins that return from their callbacks grant an
\* unload that has begun: each of its steps is eventually taken.  Nothing is
\* assumed of invoke(), of consumers, or of when an unload is asked for.
UnloadFairness ==
    \A p \in PlugId :
        /\ WF_vars(RevokeSnapshot(p))
        /\ WF_vars(\E h \in Handle : RevokeNotify(p, h))
        /\ WF_vars(RevokerEnds(p))
        /\ WF_vars(RevokeVerdict(p))
        /\ WF_vars(StopReturns(p) \/ StopThrows(p))
        /\ WF_vars(DestroyEnds(p))

FairSpec == Spec /\ UnloadFairness

-----------------------------------------------------------------------------
(* Correctness properties                                                  *)

\* A provider instance never has two activations at once, whichever leases
\* and consumers they come through (calls.ts, per-instance reentrancy guard).
OneCallPerInstance ==
    \A j, k \in Call :
        (call[j] # "idle" /\ call[k] # "idle" /\ callKey[j] = callKey[k]) => j = k

\* The counters kept in three files agree with the calls there are: a lease
\* still in the table counts its unfinished activation, a record counts the
\* invoke() running in it, and the reentrancy guard holds exactly the
\* instances with an unfinished activation, each for one of them.  Were one
\* off, release() would answer 'busy' for ever or an unload would stop a
\* running provider.
InFlightAccounting ==
    /\ \A h \in Handle : lease[h] = "out" =>
         open[h] = Cardinality({k \in Call : call[k] # "idle" /\ callLease[k] = h})
    /\ \A p \in PlugId :
         inFlight[p] = Cardinality({k \in Call : call[k] = "invoking" /\ callKey[k][1] = p})
    /\ busy = {callKey[k] : k \in {c \in Call : call[c] # "idle"}}
    /\ OneCallPerInstance

\* The capability table offers only the generation the host has on record,
\* only while it is Active, and never once its teardown has begun: what
\* acquire() and beginCall() read can not lead into a dying instance.
OfferedIsActive ==
    \A p \in PlugId : caps[p] # 0 =>
        /\ caps[p] = gen[p]
        /\ st[p] = "active"
        /\ pc[p] = "idle"

\* "Withdraw, revoke, prove zero in-flight calls, stop": from the moment an
\* unload calls stop() until the record is gone, no lease on the instance is
\* in the table and none of its methods is running.
UnloadStopsQuiet ==
    \A p \in PlugId : pc[p] \in {"stop", "destroy"} =>
        /\ ~Outstanding(Current(p))
        /\ ~Invoking(p)

\* A consumer that was stopped, by unload or by rollback, holds no lease when
\* its destroy() runs: releaseAllFrom() left nothing behind.
StoppedOwnsNoLease ==
    \A h \in Handle : lease[h] = "out" =>
        pc[owner[h]] \notin {"destroy", "rolldestroy"}

\* Once a credential is stale it is stale for ever: no later registration for
\* the same plugId, of whatever version, makes an old credential valid again.
\* That is so without Overlap only: if a record is numbered while an import is
\* awaited, its number may be one an old credential is on (host.ts:409), and
\* with Overlap TLC finds the credential valid again.
StaleStaysStale ==
    [][\A h \in Handle :
         (lease[h] = "out" /\ caps[target[h][1]] # target[h][2])
            => (lease'[h] = "out" => caps'[target[h][1]] # target[h][2])]_vars

RollingBack == {"rollwithdrawn", "rollstop", "rolldestroy"}

\* An instance that has begun to be torn down admits nothing new: no lease is
\* minted on it and no call enters it, even while its own revokers, its stop()
\* or other consumers run and even if the unload has to be retried.
RevokingAdmitsNothing ==
    [][\A p \in PlugId : (st[p] \in {"revoking", "faulted"} \/ pc[p] \in RollingBack) =>
         /\ \A h \in Handle :
              (lease[h] = "free" /\ lease'[h] = "out") => target'[h] # Current(p)
         /\ \A k \in Call :
              (call[k] = "idle" /\ call'[k] # "idle") => callKey'[k] # Current(p)]_vars

\* A lease is ended by the consumer it was minted for and by nobody else, whoever
\* got hold of the credential and whichever provider or other consumer is torn
\* down: the consumer returns it, and then no call is open on it, or the consumer
\* is being stopped.
OnlyOwnerGivesUpLease ==
    [][\A h \in Handle : (lease[h] = "out" /\ lease'[h] # "out") =>
         /\ giver'[h] = owner[h]
         /\ \/ pc[owner[h]] \in {"stop", "rollstop"} /\ pc'[owner[h]] # pc[owner[h]]
            \/ \A k \in Call : call[k] # "idle" => callLease[k] # h]_vars

\* An unload that has begun ends, with the record gone, quarantined, or kept
\* for a retry: no consumer can hang it by keeping, returning or minting leases.
UnloadEnds ==
    \A p \in PlugId : pc[p] \in {"withdrawn", "revoke", "stop", "destroy"} ~> pc[p] = "idle"

-----------------------------------------------------------------------------
(* What the rack promises of all this                                      *)

\* Where the instance stands, as its consumers see it: its entry in the capability
\* table, the unload that stops it, or whether start() is still before it.
PhaseOf(p, g) ==
    CASE caps[p] = g -> "serving"
      [] gen[p] = g /\ pc[p] \in {"stop", "destroy"} -> "stopping"
      [] g > gen[p] \/ (g = gen[p] /\ st[p] \in {"created", "initialized"}) -> "new"
      [] OTHER -> "closed"

Phase == [i \in Instance |-> PhaseOf(i[1], i[2])]
Running == [k \in Call |-> IF call[k] \in {"invoking", "left"} THEN callLease[k] ELSE NoHandle]

Promise == INSTANCE Rack WITH phase <- Phase, running <- Running

\* The tables and protocols implement it: an instance serves once, is borrowed and
\* called only while it does, and is stopped by an unload only when it is quiet;
\* nobody but who borrowed gives a lease back.  "Serves once" is of instances, which
\* are told apart by their numbers, and so holds without Overlap.
IsRack == Promise!Spec

-----------------------------------------------------------------------------
(* The inductive invariant behind the safety properties, by component      *)

\* A record's state, the host operation in progress on it, its batch and its
\* capability entry move together.
Lifecycle ==
    /\ \A p \in PlugId :
         /\ pc[p] \in {"init", "discard"} => st[p] = "created"
         /\ pc[p] = "start" => st[p] = "initialized"
         /\ pc[p] \in RollingBack => st[p] \in {"initialized", "active"}
         /\ pc[p] \in {"withdrawn", "revoke", "stop", "destroy"} => st[p] = "revoking"
         /\ p \in inBatch => st[p] \in {"created", "initialized", "active"}
         /\ st[p] \in {"created", "initialized"} => p \in inBatch
    /\ OfferedIsActive

\* A record and a lease have a generation.
Generations ==
    /\ \A p \in PlugId : st[p] # "absent" => gen[p] # 0
    /\ \A h \in Handle : lease[h] # "free" => owner[h] \in PlugId /\ target[h] \in Instance

\* Without Overlap the number that comes next is above every one in use: one import
\* at a time has drawn it, and a new record gets a generation above every one that
\* a lease, or a call left in a dropped record, is on.
Fresh ==
    /\ \A l \in Load : drawn[l] # 0 => /\ drawn[l] = nextGen + 1
                                       /\ \A m \in Load : drawn[m] # 0 => m = l
    /\ \A p \in PlugId : gen[p] <= nextGen
    /\ \A h \in Handle : lease[h] # "free" =>
         LET p == target[h][1]
             g == target[h][2]
         IN  g <= gen[p] /\ (g = gen[p] => st[p] \notin {"created", "initialized"})
    /\ \A k \in Call : call[k] = "left" =>
         LET p == callKey[k][1] IN callKey[k] = Current(p) => st[p] = "absent"

\* What an activation of call() has written down in the three tables.
CallTable ==
    /\ \A k \in Call : call[k] # "idle" =>
         /\ callLease[k] \in Handle
         /\ lease[callLease[k]] # "free"
         /\ callKey[k] = target[callLease[k]]
    /\ \A k \in Call : call[k] = "invoking" =>
         LET p == callKey[k][1] IN callKey[k] = Current(p) /\ st[p] # "absent"
    /\ OneCallPerInstance
    /\ \A i \in Instance : i \in busy <=> \E k \in Call : call[k] # "idle" /\ callKey[k] = i
    /\ \A p \in PlugId : inFlight[p] = IF Invoking(p) THEN 1 ELSE 0
    /\ \A h \in Handle : lease[h] # "gone" =>
         open[h] = IF \E k \in Call : call[k] # "idle" /\ callLease[k] = h THEN 1 ELSE 0

IInv ==
    /\ TypeOK
    /\ Lifecycle
    /\ Generations
    /\ CallTable
    /\ UnloadStopsQuiet
    /\ StoppedOwnsNoLease
    /\ ~Overlap => Fresh

-----------------------------------------------------------------------------
(* What the documentation says and the code does not do                    *)

\* host.ts, unload(): "'busy' while calls are in flight (the instance stays
\* 'revoking' and the unload can be retried)".  An unload that finds a call
\* running in the provider does not quarantine it.
InFlightUnloadIsRetryable ==
    [][\A p \in PlugId :
         (pc[p] = "revoke" /\ pc'[p] # "revoke" /\ Invoking(p))
            => st'[p] = "revoking"]_vars

\* docs/design.md, idea 7: quiescence is proved before stop() ("no call in
\* flight"), and an instance that can not prove it is isolated, never torn
\* down by force.  Stated of the rollback of a failed startup batch.
RollbackStopsQuiet ==
    \A p \in PlugId : pc[p] = "rollstop" => ~Invoking(p)

\* host.ts, runUnloadProtocol(): of a record that never got initialized,
\* "nothing is registered, subscribed or leased; discard only".
DiscardedOwnsNoLease ==
    \A h \in Handle : lease[h] = "out" => pc[owner[h]] # "discard"
=============================================================================
