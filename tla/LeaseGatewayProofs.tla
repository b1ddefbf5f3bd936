------------------------- MODULE LeaseGatewayProofs -------------------------
(***************************************************************************)
(* Proofs about LeaseGateway, for any plugins, handles, calls and MaxGen.  *)
(*                                                                         *)
(* The inductive invariant is IInv.  It has one part per component, each   *)
(* inductive relative to the parts before it:                              *)
(*   Lifecycle    where a record's state, its operation in progress, its   *)
(*                batch and its capability entry may stand to each other;  *)
(*   Generations  records and leases have a generation;                    *)
(*   CallTable    what an activation of call() has recorded in the lease   *)
(*                table, the instance record and the reentrancy guard;     *)
(*   UnloadStopsQuiet, StoppedOwnsNoLease, the properties themselves;      *)
(*   Fresh        without Overlap, no record is ever given a generation a  *)
(*                lease is on.  It is only for StaleForEver and the        *)
(*                refinement, which have ~Overlap as their premise.        *)
(* The refinement of Rack comes last: how one record stands (Stands), in   *)
(* which order that may change (Onward), and each step of the tables and   *)
(* protocols as one of the promise or as none.                             *)
(***************************************************************************)
EXTENDS LeaseGateway, FiniteSetTheorems, TLAPS

USE DEF Gen, Instance, NoInstance, numVars

-----------------------------------------------------------------------------
(* What kinds of steps there are, seen from the lease table and the calls. *)

\* A step of the host leaves the calls alone and can only empty the table.
HostStep ==
    /\ UNCHANGED <<inFlight, owner, target, open, callVars>>
    /\ \/ lease' = lease /\ giver' = giver
       \/ \E p \in PlugId :
            /\ pc[p] \in {"stop", "rollstop"}
            /\ pc' \in {[pc EXCEPT ![p] = "destroy"], [pc EXCEPT ![p] = "rolldestroy"]}
            /\ lease' = Released(p) /\ giver' = LeftBy(p)

\* Every step of the system is a step of the host, of a lease or of a call.
LEMMA StepKinds ==
    ASSUME Next
    PROVE  \/ HostStep
           \/ \E p \in PlugId : DestroyEnds(p)
           \/ \E c, p \in PlugId, h \in Handle : Acquire(c, p, h)
           \/ \E c \in PlugId, h \in Handle : Release(c, h)
           \/ \E k \in Call, h \in Handle : CallBegin(k, h)
           \/ \E k \in Call : InvokeEnds(k)
           \/ \E k \in Call : CallEnds(k)
<1>1. CASE BatchCommits
  BY <1>1 DEF BatchCommits, HostStep, leaseVars, callVars
<1>2. ASSUME NEW p \in PlugId, StartupStep(p), ~DestroyEnds(p)
      PROVE  HostStep
  BY <1>2 DEF StartupStep, CreateRecord, Recorded, InitBegin, InitReturns, InitThrows,
       StartBegin, StartThrows, StartReturns, DiscardBegin, RollbackBegin,
       RollbackStops, RollbackStopEnds, HostStep, leaseVars, callVars
<1>4. ASSUME NEW l \in Load, LoadStep(l)
      PROVE  HostStep
  BY <1>4 DEF LoadStep, Draws, Loaded, Recorded, LoadFails, HostStep, leaseVars, callVars
<1>3. ASSUME NEW p \in PlugId, UnloadStep(p)
      PROVE  HostStep
  BY <1>3 DEF UnloadStep, UnloadBegin, RevokeSnapshot, RevokeNotify,
       RevokerEnds, RevokeVerdict, StopReturns, StopThrows, HostStep,
       leaseVars, callVars, hostVars
<1> QED
  BY <1>1, <1>2, <1>3, <1>4 DEF Next, LeaseStep, CallStep

-----------------------------------------------------------------------------
(* Type correctness of the host's and of the lease table's state.          *)

LEMMA HostType ==
    ASSUME HostTypeOK, [Next]_vars
    PROVE  HostTypeOK'
<1> USE LeaseGatewayAssumption DEF LeaseGatewayAssumption, HostTypeOK, InstanceState, HostPc
<1>1. CASE UNCHANGED vars
  BY <1>1 DEF vars, hostVars
<1>2. CASE BatchCommits
  BY <1>2 DEF BatchCommits
<1>3. ASSUME NEW p \in PlugId, CreateRecord(p)
      PROVE  HostTypeOK'
  BY <1>3 DEF CreateRecord, Recorded, Numbered
<1>8. ASSUME NEW l \in Load, LoadStep(l)
      PROVE  HostTypeOK'
  <2>1. CASE Draws(l)
    BY <2>1 DEF Draws
  <2>2. ASSUME NEW p \in PlugId, Loaded(l, p)
        PROVE  HostTypeOK'
    BY <2>2 DEF Loaded, Recorded, Numbered
  <2>3. CASE LoadFails(l)
    BY <2>3 DEF LoadFails
  <2> QED
    BY <1>8, <2>1, <2>2, <2>3 DEF LoadStep
<1>4. ASSUME NEW p \in PlugId, StartupStep(p), ~CreateRecord(p)
      PROVE  HostTypeOK'
  <2>1. UNCHANGED numVars
    BY <1>4 DEF StartupStep, InitBegin, InitReturns, InitThrows, StartBegin,
       StartThrows, StartReturns, DiscardBegin, RollbackBegin,
       RollbackStops, RollbackStopEnds, DestroyEnds
  <2>2. st' \in [PlugId -> InstanceState] /\ pc' \in [PlugId -> HostPc]
    BY <1>4 DEF StartupStep, InitBegin, InitReturns, InitThrows, StartBegin,
       StartThrows, StartReturns, DiscardBegin, RollbackBegin,
       RollbackStops, RollbackStopEnds, DestroyEnds
  <2>3. inBatch' \in SUBSET PlugId /\ failing' \in BOOLEAN
    BY <1>4 DEF StartupStep, InitBegin, InitReturns, InitThrows, StartBegin,
       StartThrows, StartReturns, DiscardBegin, RollbackBegin,
       RollbackStops, RollbackStopEnds, DestroyEnds
  <2>4. caps' \in [PlugId -> 0 .. MaxGen]
    BY <1>4 DEF StartupStep, InitBegin, InitReturns, InitThrows, StartBegin,
       StartThrows, StartReturns, DiscardBegin, RollbackBegin,
       RollbackStops, RollbackStopEnds, DestroyEnds, Withdrawn
  <2> QED
    BY <2>1, <2>2, <2>3, <2>4
<1>5. ASSUME NEW p \in PlugId, UnloadStep(p)
      PROVE  HostTypeOK'
  BY <1>5 DEF UnloadStep, UnloadBegin, RevokeSnapshot, RevokeNotify,
     RevokerEnds, RevokeVerdict, StopReturns, StopThrows, Withdrawn, hostVars
<1>6. ASSUME NEW h \in Handle, LeaseStep(h)
      PROVE  HostTypeOK'
  BY <1>6 DEF LeaseStep, Acquire, Release, hostVars
<1>7. ASSUME NEW k \in Call, CallStep(k)
      PROVE  HostTypeOK'
  BY <1>7 DEF CallStep, CallBegin, InvokeEnds, CallEnds, hostVars
<1> QED
  BY <1>1, <1>2, <1>3, <1>4, <1>5, <1>6, <1>7, <1>8 DEF Next

LEMMA LeaseType ==
    ASSUME HostTypeOK, LeaseTypeOK, [Next]_vars
    PROVE  LeaseTypeOK'
<1> USE LeaseGatewayAssumption DEF LeaseGatewayAssumption, HostTypeOK, LeaseTypeOK
<1>1. CASE UNCHANGED vars
  BY <1>1 DEF vars, leaseVars, revVars
<1>2. CASE BatchCommits
  BY <1>2 DEF BatchCommits, leaseVars, revVars
<1>3. ASSUME NEW p \in PlugId, StartupStep(p)
      PROVE  LeaseTypeOK'
  BY <1>3 DEF StartupStep, CreateRecord, Recorded, InitBegin, InitReturns, InitThrows,
       StartBegin, StartThrows, StartReturns, DiscardBegin, RollbackBegin,
       RollbackStops, RollbackStopEnds, DestroyEnds, Released, LeftBy, leaseVars, revVars
<1>7. ASSUME NEW l \in Load, LoadStep(l)
      PROVE  LeaseTypeOK'
  BY <1>7 DEF LoadStep, Draws, Loaded, Recorded, LoadFails, leaseVars, revVars
<1>4. ASSUME NEW p \in PlugId, UnloadStep(p)
      PROVE  LeaseTypeOK'
  <2>1. ASSUME NEW h \in Handle, RevokeNotify(p, h)
        PROVE  LeaseTypeOK'
    BY <2>1 DEF RevokeNotify, Visited, leaseVars
  <2>2. CASE RevokeSnapshot(p)
    BY <2>2 DEF RevokeSnapshot, leaseVars
  <2> QED
    BY <1>4, <2>1, <2>2 DEF UnloadStep, UnloadBegin, RevokerEnds,
       RevokeVerdict, StopReturns, StopThrows, Released, LeftBy, leaseVars, revVars
<1>5. ASSUME NEW h \in Handle, LeaseStep(h)
      PROVE  LeaseTypeOK'
  <2>1. ASSUME NEW c \in PlugId, NEW p \in PlugId, Acquire(c, p, h)
        PROVE  LeaseTypeOK'
    <3>1. <<p, caps[p]>> \in Instance
      BY <2>1 DEF Acquire
    <3> QED
      BY <2>1, <3>1 DEF Acquire, revVars
  <2> QED
    BY <1>5, <2>1 DEF LeaseStep, Release, revVars
<1>6. ASSUME NEW k \in Call, CallStep(k)
      PROVE  LeaseTypeOK'
  BY <1>6 DEF CallStep, CallBegin, InvokeEnds, CallEnds, EndCall, leaseVars, revVars
<1> QED
  BY <1>1, <1>2, <1>3, <1>4, <1>5, <1>6, <1>7 DEF Next

-----------------------------------------------------------------------------
(* Lifecycle is inductive: it speaks of the host's state only.             *)

LEMMA LifecycleStep ==
    ASSUME HostTypeOK, Lifecycle, [Next]_vars
    PROVE  Lifecycle'
<1> USE LeaseGatewayAssumption DEF LeaseGatewayAssumption, HostTypeOK, Lifecycle,
        OfferedIsActive, InstanceState, HostPc, RollingBack
<1>1. CASE UNCHANGED <<hostVars, caps>>
  BY <1>1 DEF hostVars
<1>2. CASE BatchCommits
  BY <1>2 DEF BatchCommits
<1>9. ASSUME NEW p \in PlugId, NEW n, Staging, Recorded(p, n)
      PROVE  Lifecycle'
  BY <1>9 DEF Recorded, Numbered
<1>10. ASSUME NEW l \in Load, LoadStep(l)
      PROVE  Lifecycle'
  <2>1. CASE Draws(l)
    BY <1>1, <2>1 DEF Draws
  <2>2. CASE LoadFails(l)
    BY <2>2 DEF LoadFails
  <2>3. ASSUME NEW p \in PlugId, Loaded(l, p)
        PROVE  Lifecycle'
    BY <1>9, <2>3 DEF Loaded
  <2> QED
    BY <1>10, <2>1, <2>2, <2>3 DEF LoadStep
<1>3. ASSUME NEW p \in PlugId, StartupStep(p)
      PROVE  Lifecycle'
  <2>1. CASE CreateRecord(p)
    BY <1>9, <2>1 DEF CreateRecord
  <2>2. CASE InitBegin(p) \/ InitReturns(p) \/ InitThrows(p)
    BY <2>2 DEF InitBegin, InitReturns, InitThrows
  <2>3. CASE StartBegin(p) \/ StartThrows(p)
    BY <2>3 DEF StartBegin, StartThrows
  <2>4. ASSUME NEW published \in BOOLEAN, StartReturns(p, published)
        PROVE  Lifecycle'
    BY <2>4 DEF StartReturns
  <2>5. CASE DiscardBegin(p) \/ RollbackStops(p) \/ RollbackStopEnds(p)
    BY <2>5 DEF DiscardBegin, RollbackStops, RollbackStopEnds
  <2>6. CASE DestroyEnds(p)
    BY <2>6 DEF DestroyEnds
  <2>7. CASE RollbackBegin(p)
    BY <2>7 DEF RollbackBegin, Withdrawn
  <2> QED
    BY <1>3, <2>1, <2>2, <2>3, <2>4, <2>5, <2>6, <2>7 DEF StartupStep
<1>4. ASSUME NEW p \in PlugId, UnloadStep(p)
      PROVE  Lifecycle'
  <2>1. CASE UnloadBegin(p)
    BY <2>1 DEF UnloadBegin, Withdrawn
  <2>2. CASE RevokeSnapshot(p)
    BY <2>2 DEF RevokeSnapshot
  <2>3. CASE RevokeVerdict(p)
    BY <2>3 DEF RevokeVerdict
  <2>4. CASE StopReturns(p) \/ StopThrows(p)
    BY <2>4 DEF StopReturns, StopThrows
  <2> QED
    BY <1>1, <1>4, <2>1, <2>2, <2>3, <2>4
       DEF UnloadStep, RevokeNotify, RevokerEnds
<1>5. ASSUME NEW h \in Handle, LeaseStep(h)
      PROVE  Lifecycle'
  BY <1>1, <1>5 DEF LeaseStep, Acquire, Release
<1>6. ASSUME NEW k \in Call, CallStep(k)
      PROVE  Lifecycle'
  BY <1>1, <1>6 DEF CallStep, CallBegin, InvokeEnds, CallEnds
<1> QED
  BY <1>1, <1>2, <1>3, <1>4, <1>5, <1>6, <1>10 DEF Next, vars

-----------------------------------------------------------------------------
(* How the records go on, and what a lease is minted on.                   *)

\* A record of p is made, or it keeps its generation, does not return to a state
\* before start(), and goes only when its destroy() is over.
MovesOn(p) ==
    \/ /\ st[p] = "absent" /\ st'[p] = "created" /\ gen'[p] # 0
       /\ CreateRecord(p) \/ \E l \in Load : Loaded(l, p)
    \/ /\ gen'[p] = gen[p]
       /\ st'[p] # "absent" => st[p] # "absent"
       /\ st'[p] \in {"created", "initialized"} => st[p] \in {"created", "initialized"}
       /\ st[p] # "absent" => st'[p] # "absent" \/ DestroyEnds(p)

LEMMA RecordsMoveOn ==
    ASSUME HostTypeOK, Lifecycle, [Next]_vars, NEW p \in PlugId
    PROVE  MovesOn(p)
<1> USE DEF HostTypeOK, Lifecycle, MovesOn
<1>1. CASE UNCHANGED hostVars
  BY <1>1 DEF hostVars
<1>2. CASE BatchCommits
  BY <1>2 DEF BatchCommits
<1>3. ASSUME NEW q \in PlugId, NEW n \in Gen, Recorded(q, n),
             CreateRecord(q) \/ \E l \in Load : Loaded(l, q)
      PROVE  MovesOn(p)
  BY <1>3, LeaseGatewayAssumption DEF Recorded, Numbered, LeaseGatewayAssumption
<1>4. ASSUME NEW q \in PlugId, StartupStep(q)
      PROVE  MovesOn(p)
  <2>1. CASE CreateRecord(q)
    <3>1. nextGen + 1 \in Gen
      BY <2>1, LeaseGatewayAssumption DEF CreateRecord, LeaseGatewayAssumption
    <3> QED
      BY <1>3, <2>1, <3>1 DEF CreateRecord
  <2>2. CASE InitBegin(q) \/ InitReturns(q) \/ InitThrows(q)
    BY <2>2 DEF InitBegin, InitReturns, InitThrows
  <2>3. CASE StartBegin(q) \/ StartThrows(q)
    BY <2>3 DEF StartBegin, StartThrows
  <2>4. ASSUME NEW published \in BOOLEAN, StartReturns(q, published)
        PROVE  MovesOn(p)
    BY <2>4 DEF StartReturns
  <2>5. CASE DiscardBegin(q) \/ RollbackBegin(q) \/ RollbackStops(q) \/ RollbackStopEnds(q)
    BY <2>5 DEF DiscardBegin, RollbackBegin, RollbackStops, RollbackStopEnds
  <2>6. CASE DestroyEnds(q)
    <3>1. gen' = gen /\ st' = [st EXCEPT ![q] = "absent"]
      BY <2>6 DEF DestroyEnds
    <3> QED
      BY <2>6, <3>1
  <2> QED
    BY <1>4, <2>1, <2>2, <2>3, <2>4, <2>5, <2>6 DEF StartupStep
<1>5. ASSUME NEW q \in PlugId, UnloadStep(q)
      PROVE  MovesOn(p)
  <2>1. CASE UnloadBegin(q)
    BY <2>1 DEF UnloadBegin
  <2>2. CASE RevokeSnapshot(q) \/ RevokeVerdict(q)
    BY <2>2 DEF RevokeSnapshot, RevokeVerdict
  <2>3. CASE StopReturns(q) \/ StopThrows(q)
    BY <2>3 DEF StopReturns, StopThrows
  <2> QED
    BY <1>1, <1>5, <2>1, <2>2, <2>3 DEF UnloadStep, RevokeNotify, RevokerEnds
<1>6. ASSUME NEW l \in Load, LoadStep(l)
      PROVE  MovesOn(p)
  <2>1. CASE Draws(l) \/ LoadFails(l)
    BY <2>1 DEF Draws, LoadFails
  <2>2. ASSUME NEW q \in PlugId, Loaded(l, q)
        PROVE  MovesOn(p)
    <3>1. drawn[l] \in Gen
      BY <2>2, LeaseGatewayAssumption DEF Loaded, LeaseGatewayAssumption
    <3> QED
      BY <1>3, <2>2, <3>1 DEF Loaded
  <2> QED
    BY <1>6, <2>1, <2>2 DEF LoadStep
<1>7. ASSUME NEW h \in Handle, LeaseStep(h)
      PROVE  UNCHANGED hostVars
  BY <1>7 DEF LeaseStep, Acquire, Release
<1>8. ASSUME NEW k \in Call, CallStep(k)
      PROVE  UNCHANGED hostVars
  BY <1>8 DEF CallStep, CallBegin, InvokeEnds, CallEnds
<1> QED
  BY <1>1, <1>2, <1>4, <1>5, <1>6, <1>7, <1>8 DEF Next, vars

\* A step that mints no lease leaves every lease on the table where it was.
LEMMA MintingAside ==
    ASSUME LeaseTypeOK, [Next]_vars
    PROVE  \/ \E c, p \in PlugId, h \in Handle : Acquire(c, p, h)
           \/ /\ UNCHANGED <<owner, target>>
              /\ \A h \in Handle : lease'[h] = lease[h] \/ (lease[h] = "out" /\ lease'[h] = "gone")
<1>1. CASE UNCHANGED vars
  BY <1>1 DEF vars, leaseVars
<1>2. CASE HostStep
  BY <1>2 DEF HostStep, Released, LeaseTypeOK
<1>3. ASSUME NEW c \in PlugId, NEW h \in Handle, Release(c, h)
      PROVE  /\ UNCHANGED <<owner, target>>
             /\ \A g \in Handle : lease'[g] = lease[g] \/ (lease[g] = "out" /\ lease'[g] = "gone")
  BY <1>3 DEF Release, LeaseTypeOK
<1>5. ASSUME NEW p \in PlugId, DestroyEnds(p)
      PROVE  UNCHANGED <<lease, owner, target>>
  BY <1>5 DEF DestroyEnds, leaseVars
<1>4. ASSUME NEW k \in Call, CallStep(k)
      PROVE  UNCHANGED <<lease, owner, target>>
  BY <1>4 DEF CallStep, CallBegin, InvokeEnds, CallEnds, leaseVars
<1> QED
  BY <1>1, <1>2, <1>3, <1>4, <1>5, StepKinds DEF CallStep

\* Generations is inductive given Lifecycle.
LEMMA GenerationsStep ==
    ASSUME HostTypeOK, LeaseTypeOK, Lifecycle, Generations, [Next]_vars
    PROVE  Generations'
<1> USE DEF HostTypeOK, LeaseTypeOK, Generations
<1>1. \A p \in PlugId : st'[p] # "absent" => gen'[p] # 0
  BY RecordsMoveOn DEF MovesOn
<1>2. ASSUME NEW c \in PlugId, NEW q \in PlugId, NEW m \in Handle, Acquire(c, q, m),
             NEW h \in Handle, lease'[h] # "free"
      PROVE  owner'[h] \in PlugId /\ target'[h] \in Instance
  <2>1. CASE h = m
    BY <1>2, <2>1 DEF Acquire
  <2>2. CASE h # m
    BY <1>2, <2>2 DEF Acquire
  <2> QED
    BY <2>1, <2>2
<1> QED
  BY <1>1, <1>2, MintingAside

-----------------------------------------------------------------------------
(* CallTable is inductive given Lifecycle and Generations.  The consumers  *)
(* touch none of the activations and the host only those in the record it  *)
(* drops; the gateway's own three steps keep the tables in agreement       *)
(* because the reentrancy guard admits one activation per instance, hence  *)
(* at most one per lease and, a record being one instance, per record.     *)

\* A record there is keeps its generation and stays.
RecordsStay == \A p \in PlugId : st[p] # "absent" => gen'[p] = gen[p] /\ st'[p] # "absent"

LEMMA RecordsStayUnlessDestroyed ==
    ASSUME HostTypeOK, Lifecycle, [Next]_vars
    PROVE  RecordsStay \/ \E p \in PlugId : DestroyEnds(p)
BY RecordsMoveOn DEF MovesOn, RecordsStay

LEMMA CallTableStep ==
    ASSUME HostTypeOK, LeaseTypeOK, CallTypeOK, Lifecycle, Generations, CallTable, [Next]_vars
    PROVE  CallTypeOK' /\ CallTable'
<1> USE DEF LeaseTypeOK, CallTypeOK
<1>1. ASSUME UNCHANGED <<inFlight, owner, target, open, callVars>>, RecordsStay,
             \A h \in Handle : lease'[h] = lease[h] \/ (lease[h] = "out" /\ lease'[h] = "gone")
      PROVE  CallTypeOK' /\ CallTable'
  <2>1. \A k \in Call : call[k] = "invoking" => callKey[k][1] \in PlugId
    BY DEF CallTable, Generations
  <2>2. \A k \in Call : call[k] = "invoking" =>
           LET p == callKey[k][1] IN callKey[k] = <<p, gen'[p]>> /\ st'[p] # "absent"
    BY <1>1, <2>1 DEF CallTable, Current, RecordsStay
  <2> QED
    BY <1>1, <2>2 DEF callVars, CallTable, OneCallPerInstance, Invoking, Current
<1>2. ASSUME NEW c \in PlugId, NEW p \in PlugId, NEW m \in Handle, Acquire(c, p, m)
      PROVE  CallTypeOK' /\ CallTable'
  <2>1. UNCHANGED <<inFlight, open, call, callLease, callKey, busy>>
    BY <1>2 DEF Acquire, callVars
  <2>2. /\ lease[m] = "free"
        /\ \A h \in Handle : h # m => lease'[h] = lease[h] /\ target'[h] = target[h]
        /\ lease'[m] = "out"
    BY <1>2 DEF Acquire
  <2>3. CallTypeOK'
    BY <2>1
  <2>4. \A k \in Call : call[k] # "idle" => callLease[k] # m
    BY <2>2 DEF CallTable
  <2> QED
    BY <1>2, <2>1, <2>2, <2>3, <2>4
       DEF CallTable, OneCallPerInstance, Invoking, Acquire, hostVars, Current
<1>3. ASSUME NEW k \in Call, NEW h \in Handle, CallBegin(k, h)
      PROVE  CallTypeOK' /\ CallTable'
  <2> DEFINE i == target[h]
             p == i[1]
  <2>1. /\ call[k] = "idle" /\ lease[h] = "out" /\ i \notin busy
        /\ i \in Instance /\ p \in PlugId
        /\ i = Current(p) /\ st[p] # "absent"
    BY <1>3 DEF CallBegin, Reentrant, Generations, Current
  <2>2. /\ open' = [open EXCEPT ![h] = @ + 1]
        /\ busy' = busy \cup {i}
        /\ inFlight' = [inFlight EXCEPT ![p] = @ + 1]
        /\ call' = [call EXCEPT ![k] = "invoking"]
        /\ callLease' = [callLease EXCEPT ![k] = h]
        /\ callKey' = [callKey EXCEPT ![k] = i]
        /\ lease' = lease /\ target' = target /\ st' = st /\ gen' = gen
    BY <1>3 DEF CallBegin, leaseVars, hostVars
  <2>3. CallTypeOK'
    BY <2>1, <2>2
  <2>4. \A j \in Call : call[j] # "idle" => callKey[j] # i /\ callLease[j] # h
    BY <2>1 DEF CallTable
  <2>5. inFlight[p] = 0 /\ open[h] = 0
    BY <2>1, <2>4 DEF CallTable, Invoking
  <2>6. \A j \in Call : call'[j] # "idle" =>
             /\ callLease'[j] \in Handle
             /\ lease'[callLease'[j]] # "free"
             /\ callKey'[j] = target'[callLease'[j]]
    BY <2>1, <2>2 DEF CallTable
  <2>7. OneCallPerInstance'
    BY <2>1, <2>2, <2>4 DEF CallTable, OneCallPerInstance
  <2>8. \A j \in Instance : j \in busy' <=> \E l \in Call : call'[l] # "idle" /\ callKey'[l] = j
    BY <2>1, <2>2 DEF CallTable
  <2>9. \A q \in PlugId : inFlight'[q] = IF Invoking(q)' THEN 1 ELSE 0
    <3>1. Invoking(p)' /\ inFlight'[p] = 1
      BY <2>1, <2>2, <2>5 DEF Invoking
    <3>2. \A q \in PlugId : q # p => (inFlight'[q] = inFlight[q] /\ (Invoking(q)' <=> Invoking(q)))
      BY <2>1, <2>2 DEF Invoking
    <3>3. \A q \in PlugId : inFlight[q] = IF Invoking(q) THEN 1 ELSE 0
      BY DEF CallTable
    <3>4. ASSUME NEW q \in PlugId
          PROVE  inFlight'[q] = IF Invoking(q)' THEN 1 ELSE 0
      <4>1. CASE q = p
        BY <2>2, <3>1, <4>1 DEF Invoking
      <4>2. CASE q # p
        BY <3>2, <3>3, <4>2 DEF Invoking
      <4> QED
        BY <4>1, <4>2
    <3> QED
      BY <3>4
  <2>11. \A j \in Call : call'[j] = "invoking" =>
            LET q == callKey'[j][1] IN callKey'[j] = <<q, gen'[q]>> /\ st'[q] # "absent"
    BY <2>1, <2>2 DEF CallTable, Current
  <2>10. \A g \in Handle : lease'[g] # "gone" =>
            open'[g] = IF \E l \in Call : call'[l] # "idle" /\ callLease'[l] = g THEN 1 ELSE 0
    <3>1. open'[h] = 1 /\ \E l \in Call : call'[l] # "idle" /\ callLease'[l] = h
      BY <2>2, <2>5
    <3>2. \A g \in Handle : g # h =>
             /\ open'[g] = open[g]
             /\ (\E l \in Call : call'[l] # "idle" /\ callLease'[l] = g)
                  <=> (\E l \in Call : call[l] # "idle" /\ callLease[l] = g)
      BY <2>1, <2>2
    <3> QED
      BY <2>2, <3>1, <3>2 DEF CallTable
  <2> QED
    BY <2>3, <2>6, <2>7, <2>8, <2>9, <2>10, <2>11 DEF CallTable, Current
<1>4. ASSUME NEW k \in Call, InvokeEnds(k)
      PROVE  CallTypeOK' /\ CallTable'
  <2> DEFINE p == callKey[k][1]
  <2>1. /\ call[k] \in {"invoking", "left"} /\ p \in PlugId
        /\ call[k] = "invoking" => callKey[k] = Current(p)
    BY <1>4 DEF InvokeEnds, CallTable, Generations
  <2>2. /\ call' = [call EXCEPT ![k] = "returned"]
        /\ call[k] = "invoking" => inFlight' = [inFlight EXCEPT ![p] = @ - 1]
        /\ call[k] # "invoking" => inFlight' = inFlight
        /\ UNCHANGED <<st, gen, lease, target, open, callLease, callKey, busy>>
    BY <1>4 DEF InvokeEnds, leaseVars, hostVars
  <2>3. ASSUME call[k] = "invoking"
        PROVE  inFlight[p] = 1 /\ \A j \in Call : (call[j] = "invoking" /\ callKey[j][1] = p) => j = k
    <3>1. \A j \in Call : (call[j] = "invoking" /\ callKey[j][1] = p) => callKey[j] = callKey[k]
      BY <2>1, <2>3 DEF CallTable
    <3> QED
      BY <2>1, <2>3, <3>1 DEF CallTable, Invoking, OneCallPerInstance
  <2>4. CallTypeOK'
    BY <2>1, <2>2, <2>3
  <2>5. \A j \in Call : call'[j] # "idle" <=> call[j] # "idle"
    BY <2>1, <2>2
  <2>6. \A q \in PlugId : inFlight'[q] = IF Invoking(q)' THEN 1 ELSE 0
    <3>1. CASE call[k] = "invoking"
      <4>1. ~Invoking(p)' /\ inFlight'[p] = 0
        BY <2>1, <2>2, <2>3, <3>1 DEF Invoking
      <4>2. \A q \in PlugId : q # p => (inFlight'[q] = inFlight[q] /\ (Invoking(q)' <=> Invoking(q)))
        BY <2>1, <2>2, <3>1 DEF Invoking
      <4> QED
        BY <2>2, <4>1, <4>2 DEF CallTable, Invoking
    <3>2. CASE call[k] # "invoking"
      <4>1. \A q \in PlugId : inFlight'[q] = inFlight[q] /\ (Invoking(q)' <=> Invoking(q))
        BY <2>1, <2>2, <3>2 DEF Invoking
      <4> QED
        BY <4>1 DEF CallTable
    <3> QED
      BY <3>1, <3>2
  <2>10. \A j \in Call : call'[j] = "invoking" =>
            LET q == callKey'[j][1] IN callKey'[j] = <<q, gen'[q]>> /\ st'[q] # "absent"
    BY <2>2 DEF CallTable, Current
  <2>7. OneCallPerInstance'
    BY <2>2, <2>5 DEF CallTable, OneCallPerInstance
  <2>8. /\ \A j \in Call : call'[j] # "idle" =>
             /\ callLease'[j] \in Handle
             /\ lease'[callLease'[j]] # "free"
             /\ callKey'[j] = target'[callLease'[j]]
        /\ \A j \in Instance : j \in busy' <=> \E l \in Call : call'[l] # "idle" /\ callKey'[l] = j
    BY <2>2, <2>5 DEF CallTable
  <2>9. \A g \in Handle : lease'[g] # "gone" =>
            open'[g] = IF \E l \in Call : call'[l] # "idle" /\ callLease'[l] = g THEN 1 ELSE 0
    <3>1. \A g \in Handle : (\E l \in Call : call'[l] # "idle" /\ callLease'[l] = g)
            <=> (\E l \in Call : call[l] # "idle" /\ callLease[l] = g)
      BY <2>2, <2>5
    <3> QED
      BY <2>2, <3>1 DEF CallTable
  <2> QED
    BY <2>4, <2>6, <2>7, <2>8, <2>9, <2>10 DEF CallTable, Current
<1>5. ASSUME NEW k \in Call, CallEnds(k)
      PROVE  CallTypeOK' /\ CallTable'
  <2> DEFINE h == callLease[k]
             i == callKey[k]
  <2>1. /\ call[k] = "returned" /\ h \in Handle /\ lease[h] # "free" /\ i = target[h]
        /\ i \in Instance
    BY <1>5 DEF CallEnds, CallTable, Generations
  <2>2. /\ call' = [call EXCEPT ![k] = "idle"]
        /\ busy' = busy \ {i}
        /\ open' = [open EXCEPT ![h] = EndCall(h)]
        /\ callLease' = [callLease EXCEPT ![k] = NoHandle]
        /\ callKey' = [callKey EXCEPT ![k] = NoInstance]
        /\ UNCHANGED <<st, gen, lease, target, inFlight>>
    BY <1>5 DEF CallEnds, leaseVars, hostVars
  <2>3. \A j \in Call : (call[j] # "idle" /\ (callKey[j] = i \/ callLease[j] = h)) => j = k
    BY <2>1 DEF CallTable, OneCallPerInstance
  <2>4. CallTypeOK'
    BY <2>1, <2>2
  <2>5. \A j \in Call : call'[j] # "idle" =>
             /\ j # k /\ call'[j] = call[j]
             /\ callLease'[j] = callLease[j] /\ callKey'[j] = callKey[j]
    BY <2>1, <2>2
  <2>6. \A j \in Instance : j \in busy' <=> \E l \in Call : call'[l] # "idle" /\ callKey'[l] = j
    <3>1. \A j \in Instance : (\E l \in Call : call'[l] # "idle" /\ callKey'[l] = j)
            <=> (\E l \in Call : l # k /\ call[l] # "idle" /\ callKey[l] = j)
      BY <2>1, <2>2
    <3> QED
      BY <2>1, <2>2, <2>3, <3>1 DEF CallTable
  <2>7. \A q \in PlugId : Invoking(q)' <=> Invoking(q)
    BY <2>1, <2>2 DEF Invoking
  <2>8. \A g \in Handle : lease'[g] # "gone" =>
            open'[g] = IF \E l \in Call : call'[l] # "idle" /\ callLease'[l] = g THEN 1 ELSE 0
    <3>1. \A g \in Handle : (\E l \in Call : call'[l] # "idle" /\ callLease'[l] = g)
            <=> (\E l \in Call : l # k /\ call[l] # "idle" /\ callLease[l] = g)
      BY <2>1, <2>2
    <3>2. lease[h] # "gone" => open[h] = 1 /\ open'[h] = 0
      BY <2>1, <2>2 DEF CallTable, EndCall
    <3>3. \A g \in Handle : g # h => open'[g] = open[g]
      BY <2>1, <2>2
    <3> QED
      BY <2>1, <2>2, <2>3, <3>1, <3>2, <3>3 DEF CallTable
  <2> QED
    BY <2>1, <2>2, <2>4, <2>5, <2>6, <2>7, <2>8 DEF CallTable, OneCallPerInstance, Current
<1>6. CASE UNCHANGED vars
  BY <1>1, <1>6 DEF vars, leaseVars, hostVars, RecordsStay
<1>7. CASE HostStep /\ RecordsStay
  BY <1>1, <1>7 DEF HostStep, Released
<1>8. ASSUME NEW c \in PlugId, NEW h \in Handle, Release(c, h)
      PROVE  CallTypeOK' /\ CallTable'
  <2>1. RecordsStay
    BY <1>8 DEF Release, hostVars, RecordsStay
  <2> QED
    BY <1>1, <1>8, <2>1 DEF Release
<1>9. ASSUME NEW p \in PlugId, DestroyEnds(p)
      PROVE  CallTypeOK' /\ CallTable'
  <2>1. /\ st' = [st EXCEPT ![p] = "absent"] /\ gen' = gen
        /\ inFlight' = [inFlight EXCEPT ![p] = 0] /\ call' = Orphaned(p)
        /\ UNCHANGED <<lease, target, open, callLease, callKey, busy>>
    BY <1>9 DEF DestroyEnds, leaseVars
  <2>2. CallTypeOK'
    BY <2>1 DEF Orphaned
  <2>3. \A j \in Call : call'[j] # "idle" <=> call[j] # "idle"
    BY <2>1 DEF Orphaned
  <2>4. \A j \in Call : call'[j] = "invoking" <=> (call[j] = "invoking" /\ callKey[j][1] # p)
    BY <2>1 DEF Orphaned
  <2>5. \A j \in Call : call'[j] = "invoking" =>
           LET q == callKey'[j][1] IN callKey'[j] = <<q, gen'[q]>> /\ st'[q] # "absent"
    BY <2>1, <2>4 DEF CallTable, Current, HostTypeOK
  <2>6. \A q \in PlugId : inFlight'[q] = IF Invoking(q)' THEN 1 ELSE 0
    <3>1. ~Invoking(p)' /\ inFlight'[p] = 0
      BY <2>1, <2>4 DEF Invoking
    <3>2. \A q \in PlugId : q # p => inFlight'[q] = inFlight[q] /\ (Invoking(q)' <=> Invoking(q))
      BY <2>1, <2>4 DEF Invoking
    <3> QED
      BY <3>1, <3>2 DEF CallTable
  <2> QED
    BY <2>1, <2>2, <2>3, <2>5, <2>6 DEF CallTable, OneCallPerInstance, Current
<1> QED
  BY <1>2, <1>3, <1>4, <1>5, <1>6, <1>7, <1>8, <1>9, StepKinds, RecordsStayUnlessDestroyed

-----------------------------------------------------------------------------
(* Quiescence.  The verdict of the unload protocol looks at the lease      *)
(* table and at record.inFlight once; OfferedIsActive is what makes the    *)
(* answer last while stop() and destroy() run.                             *)

\* Where the unload protocol is heading for, or inside, stop() and destroy().
LEMMA StopComesFromVerdict ==
    ASSUME HostTypeOK, Lifecycle, [Next]_vars,
           NEW p \in PlugId, pc'[p] \in {"stop", "destroy"}
    PROVE  /\ gen'[p] = gen[p]
           /\ \/ pc[p] \in {"stop", "destroy"}
              \/ RevokeVerdict(p) /\ ~Outstanding(Current(p)) /\ ~(inFlight[p] > 0)
                 /\ UNCHANGED <<lease, target, call, callKey>>
<1> USE DEF HostTypeOK
<1>1. CASE UNCHANGED hostVars
  BY <1>1 DEF hostVars
<1>2. CASE BatchCommits
  BY <1>2 DEF BatchCommits
<1>9. ASSUME NEW q \in PlugId, NEW n, Recorded(q, n)
      PROVE  gen'[p] = gen[p] /\ pc[p] \in {"stop", "destroy"}
  BY <1>9 DEF Recorded, Lifecycle
<1>10. ASSUME NEW l \in Load, LoadStep(l)
       PROVE  gen'[p] = gen[p] /\ pc[p] \in {"stop", "destroy"}
  BY <1>9, <1>10 DEF LoadStep, Draws, Loaded, LoadFails
<1>3. ASSUME NEW q \in PlugId, StartupStep(q)
      PROVE  gen'[p] = gen[p] /\ pc[p] \in {"stop", "destroy"}
  <2>1. CASE CreateRecord(q)
    BY <1>9, <2>1 DEF CreateRecord
  <2>2. CASE InitBegin(q) \/ InitReturns(q) \/ InitThrows(q)
    BY <2>2 DEF InitBegin, InitReturns, InitThrows
  <2>3. CASE StartBegin(q) \/ StartThrows(q) \/ DestroyEnds(q)
    BY <2>3 DEF StartBegin, StartThrows, DestroyEnds
  <2>4. ASSUME NEW published \in BOOLEAN, StartReturns(q, published)
        PROVE  gen'[p] = gen[p] /\ pc[p] \in {"stop", "destroy"}
    BY <2>4 DEF StartReturns
  <2>5. CASE DiscardBegin(q) \/ RollbackBegin(q) \/ RollbackStops(q) \/ RollbackStopEnds(q)
    BY <2>5 DEF DiscardBegin, RollbackBegin, RollbackStops, RollbackStopEnds
  <2> QED
    BY <1>3, <2>1, <2>2, <2>3, <2>4, <2>5 DEF StartupStep
<1>4. ASSUME NEW q \in PlugId, RevokeVerdict(q), q # p
      PROVE  gen'[p] = gen[p] /\ pc[p] \in {"stop", "destroy"}
  BY <1>4 DEF RevokeVerdict
<1>5. ASSUME RevokeVerdict(p)
      PROVE  /\ gen'[p] = gen[p] /\ ~Outstanding(Current(p)) /\ ~(inFlight[p] > 0)
             /\ UNCHANGED <<lease, target, call, callKey>>
  <2>1. ~Outstanding(Current(p)) /\ ~(inFlight[p] > 0)
    BY <1>5 DEF RevokeVerdict
  <2> QED
    BY <1>5, <2>1 DEF RevokeVerdict, leaseVars, callVars
<1>6. ASSUME NEW q \in PlugId, UnloadStep(q), ~RevokeVerdict(q)
      PROVE  gen'[p] = gen[p] /\ pc[p] \in {"stop", "destroy"}
  <2>1. CASE UnloadBegin(q) \/ RevokeSnapshot(q)
    BY <2>1 DEF UnloadBegin, RevokeSnapshot
  <2>2. CASE StopReturns(q) \/ StopThrows(q)
    BY <2>2 DEF StopReturns, StopThrows
  <2> QED
    BY <1>6, <2>1, <2>2 DEF UnloadStep, RevokeNotify, RevokerEnds, hostVars
<1>7. ASSUME NEW h \in Handle, LeaseStep(h)
      PROVE  UNCHANGED hostVars
  BY <1>7 DEF LeaseStep, Acquire, Release
<1>8. ASSUME NEW k \in Call, CallStep(k)
      PROVE  UNCHANGED hostVars
  BY <1>8 DEF CallStep, CallBegin, InvokeEnds, CallEnds
<1> QED
  BY <1>1, <1>2, <1>3, <1>4, <1>5, <1>6, <1>7, <1>8, <1>10 DEF Next, vars

\* While p is Revoking nothing new is aimed at its instance.
LEMMA NothingNewWhileRevoking ==
    ASSUME HostTypeOK, LeaseTypeOK, CallTypeOK, Lifecycle, [Next]_vars,
           Generations, NEW p \in PlugId, st[p] = "revoking", gen'[p] = gen[p]
    PROVE  /\ Outstanding(Current(p))' => Outstanding(Current(p))
           /\ Invoking(p)' => Invoking(p)
<1> USE DEF LeaseTypeOK, CallTypeOK, Outstanding, Invoking, Current
<1>1. caps[p] = 0
  BY DEF Lifecycle, OfferedIsActive, HostTypeOK
<1>2. CASE UNCHANGED vars
  BY <1>2 DEF vars, leaseVars, callVars
<1>3. CASE HostStep
  BY <1>3 DEF HostStep, Released, callVars
<1>4. ASSUME NEW c \in PlugId, NEW q \in PlugId, NEW m \in Handle, Acquire(c, q, m)
      PROVE  UNCHANGED <<call, callKey>> /\ (Outstanding(Current(p))' => Outstanding(Current(p)))
  <2>1. UNCHANGED <<call, callKey>> /\ target'[m] = <<q, caps[q]>> /\ caps[q] # 0
    BY <1>4 DEF Acquire, callVars
  <2>2. target'[m] # <<p, gen[p]>>
    BY <1>1, <2>1, <1>4 DEF Lifecycle, OfferedIsActive
  <2>3. \A h \in Handle : h # m => lease'[h] = lease[h] /\ target'[h] = target[h]
    BY <1>4 DEF Acquire
  <2> QED
    BY <2>1, <2>2, <2>3
<1>5. ASSUME NEW c \in PlugId, NEW h \in Handle, Release(c, h)
      PROVE  UNCHANGED <<call, callKey, target>> /\ (Outstanding(Current(p))' => Outstanding(Current(p)))
  BY <1>5 DEF Release, callVars
<1>6. ASSUME NEW k \in Call, NEW h \in Handle, CallBegin(k, h)
      PROVE  UNCHANGED <<lease, target>> /\ (Invoking(p)' => Invoking(p))
  <2>1. /\ UNCHANGED <<lease, target>> /\ st[target[h][1]] = "active"
        /\ callKey' = [callKey EXCEPT ![k] = target[h]]
        /\ call' = [call EXCEPT ![k] = "invoking"]
    BY <1>6 DEF CallBegin, leaseVars
  <2>2. target[h][1] # p
    BY <2>1
  <2> QED
    BY <2>1, <2>2
<1>7. ASSUME NEW k \in Call, InvokeEnds(k) \/ CallEnds(k)
      PROVE  UNCHANGED <<lease, target>> /\ (Invoking(p)' => Invoking(p))
  BY <1>7 DEF InvokeEnds, CallEnds, leaseVars
<1>8. ASSUME NEW q \in PlugId, DestroyEnds(q)
      PROVE  UNCHANGED <<lease, target>> /\ (Invoking(p)' => Invoking(p))
  BY <1>8 DEF DestroyEnds, Orphaned, leaseVars
<1> QED
  BY <1>2, <1>3, <1>4, <1>5, <1>6, <1>7, <1>8, StepKinds

LEMMA QuietStep ==
    ASSUME HostTypeOK, LeaseTypeOK, CallTypeOK, Lifecycle, Generations, CallTable,
           UnloadStopsQuiet, [Next]_vars
    PROVE  UnloadStopsQuiet'
<1> SUFFICES ASSUME NEW p \in PlugId, pc'[p] \in {"stop", "destroy"}
             PROVE  ~Outstanding(Current(p))' /\ ~Invoking(p)'
  BY DEF UnloadStopsQuiet
<1>1. gen'[p] = gen[p]
  BY StopComesFromVerdict
<1>2. CASE pc[p] \in {"stop", "destroy"}
  <2>1. st[p] = "revoking" /\ ~Outstanding(Current(p)) /\ ~Invoking(p)
    BY <1>2 DEF Lifecycle, UnloadStopsQuiet
  <2> QED
    BY <1>1, <2>1, NothingNewWhileRevoking
<1>3. CASE /\ RevokeVerdict(p) /\ ~Outstanding(Current(p)) /\ ~(inFlight[p] > 0)
           /\ UNCHANGED <<lease, target, call, callKey>>
  <2>1. st[p] = "revoking"
    BY <1>3 DEF RevokeVerdict, Lifecycle
  <2>3. ~Invoking(p)
    BY <1>3 DEF CallTable
  <2> QED
    BY <1>1, <1>3, <2>3 DEF Outstanding, Invoking, Current
<1> QED
  BY <1>2, <1>3, StopComesFromVerdict

-----------------------------------------------------------------------------
(* A stopped consumer owns nothing: releaseAllFrom() empties its part of   *)
(* the table, and its code no longer runs to borrow again.                 *)

LEMMA StopEmptiesTable ==
    ASSUME HostTypeOK, [Next]_vars,
           NEW p \in PlugId, pc'[p] \in {"destroy", "rolldestroy"}
    PROVE  pc[p] \in {"destroy", "rolldestroy"} \/ (lease' = Released(p) /\ owner' = owner)
<1> USE DEF HostTypeOK
<1>1. CASE UNCHANGED hostVars
  BY <1>1 DEF hostVars
<1>2. CASE BatchCommits
  BY <1>2 DEF BatchCommits
<1>3. ASSUME NEW q \in PlugId, StartupStep(q)
      PROVE  pc[p] \in {"destroy", "rolldestroy"} \/ (lease' = Released(p) /\ owner' = owner)
  <2>1. CASE CreateRecord(q)
    BY <2>1 DEF CreateRecord, Recorded
  <2>2. CASE InitBegin(q) \/ InitReturns(q) \/ InitThrows(q)
    BY <2>2 DEF InitBegin, InitReturns, InitThrows
  <2>3. CASE StartBegin(q) \/ StartThrows(q) \/ DestroyEnds(q)
    BY <2>3 DEF StartBegin, StartThrows, DestroyEnds
  <2>4. ASSUME NEW published \in BOOLEAN, StartReturns(q, published)
        PROVE  pc[p] \in {"destroy", "rolldestroy"}
    BY <2>4 DEF StartReturns
  <2>5. CASE DiscardBegin(q) \/ RollbackBegin(q) \/ RollbackStops(q)
    BY <2>5 DEF DiscardBegin, RollbackBegin, RollbackStops
  <2>6. CASE RollbackStopEnds(q)
    BY <2>6 DEF RollbackStopEnds
  <2> QED
    BY <1>3, <2>1, <2>2, <2>3, <2>4, <2>5, <2>6 DEF StartupStep
<1>4. ASSUME NEW q \in PlugId, UnloadStep(q)
      PROVE  pc[p] \in {"destroy", "rolldestroy"} \/ (lease' = Released(p) /\ owner' = owner)
  <2>1. CASE UnloadBegin(q) \/ RevokeSnapshot(q) \/ RevokeVerdict(q)
    BY <2>1 DEF UnloadBegin, RevokeSnapshot, RevokeVerdict
  <2>2. CASE StopReturns(q) \/ StopThrows(q)
    BY <2>2 DEF StopReturns, StopThrows
  <2> QED
    BY <1>4, <1>1, <2>1, <2>2 DEF UnloadStep, RevokeNotify, RevokerEnds
<1>7. ASSUME NEW l \in Load, LoadStep(l)
      PROVE  pc' = pc
  BY <1>7 DEF LoadStep, Draws, Loaded, Recorded, LoadFails
<1>5. ASSUME NEW h \in Handle, LeaseStep(h)
      PROVE  UNCHANGED hostVars
  BY <1>5 DEF LeaseStep, Acquire, Release
<1>6. ASSUME NEW k \in Call, CallStep(k)
      PROVE  UNCHANGED hostVars
  BY <1>6 DEF CallStep, CallBegin, InvokeEnds, CallEnds
<1> QED
  BY <1>1, <1>2, <1>3, <1>4, <1>5, <1>6, <1>7 DEF Next, vars

LEMMA OwnerStep ==
    ASSUME HostTypeOK, LeaseTypeOK, Lifecycle, Generations, StoppedOwnsNoLease,
           [Next]_vars
    PROVE  StoppedOwnsNoLease'
<1> SUFFICES ASSUME NEW h \in Handle, lease'[h] = "out",
                    pc'[owner'[h]] \in {"destroy", "rolldestroy"}
             PROVE  FALSE
  BY DEF StoppedOwnsNoLease
<1>1. CASE UNCHANGED <<owner, target>> /\ (lease'[h] = lease[h] \/ (lease[h] = "out" /\ lease'[h] = "gone"))
  <2>1. lease[h] = "out" /\ owner'[h] = owner[h] /\ owner[h] \in PlugId
    BY <1>1 DEF Generations
  <2>2. lease' = Released(owner[h])
    BY <2>1, StopEmptiesTable DEF StoppedOwnsNoLease
  <2> QED
    BY <2>1, <2>2 DEF Released
<1>2. ASSUME NEW c \in PlugId, NEW q \in PlugId, NEW m \in Handle, Acquire(c, q, m)
      PROVE  FALSE
  <2>1. CASE h = m
    BY <1>2, <2>1 DEF Acquire, Live, hostVars, LeaseTypeOK
  <2>2. CASE h # m
    BY <1>2, <2>2 DEF Acquire, hostVars, LeaseTypeOK, StoppedOwnsNoLease
  <2> QED
    BY <2>1, <2>2
<1> QED
  BY <1>1, <1>2, MintingAside

-----------------------------------------------------------------------------
(* Fresh.  One import at a time has a number drawn, and nothing else is    *)
(* numbered while it has; so the counter, read before the import and       *)
(* written after it, is as good as one that is read and written at once.   *)

\* Those steps that number no record leave the numbers alone.
LEMMA NumbersAside ==
    ASSUME [Next]_vars
    PROVE  \/ UNCHANGED numVars
           \/ \E p \in PlugId : CreateRecord(p)
           \/ \E l \in Load : LoadStep(l)
<1>1. CASE BatchCommits
  BY <1>1 DEF BatchCommits
<1>2. ASSUME NEW p \in PlugId, StartupStep(p), ~CreateRecord(p)
      PROVE  UNCHANGED numVars
  BY <1>2 DEF StartupStep, InitBegin, InitReturns, InitThrows, StartBegin, StartThrows,
     StartReturns, DiscardBegin, RollbackBegin, RollbackStops, RollbackStopEnds, DestroyEnds
<1>3. ASSUME NEW p \in PlugId, UnloadStep(p)
      PROVE  UNCHANGED numVars
  BY <1>3 DEF UnloadStep, UnloadBegin, RevokeSnapshot, RevokeNotify, RevokerEnds,
     RevokeVerdict, StopReturns, StopThrows, hostVars
<1>4. ASSUME NEW h \in Handle, LeaseStep(h)
      PROVE  UNCHANGED numVars
  BY <1>4 DEF LeaseStep, Acquire, Release, hostVars
<1>5. ASSUME NEW k \in Call, CallStep(k)
      PROVE  UNCHANGED numVars
  BY <1>5 DEF CallStep, CallBegin, InvokeEnds, CallEnds, hostVars
<1> QED
  BY <1>1, <1>2, <1>3, <1>4, <1>5 DEF Next, vars, hostVars

\* A record with the next number has one that nothing was ever on.
LEMMA FreshRecord ==
    ASSUME HostTypeOK, Generations, CallTable, Fresh, NEW q \in PlugId,
           Recorded(q, nextGen + 1), nextGen' = nextGen + 1
    PROVE  /\ \A p \in PlugId : gen'[p] <= nextGen'
           /\ \A h \in Handle : lease'[h] # "free" =>
                LET p == target'[h][1]
                    g == target'[h][2]
                IN  g <= gen'[p] /\ (g = gen'[p] => st'[p] \notin {"created", "initialized"})
           /\ \A k \in Call : call'[k] = "left" =>
                LET p == callKey'[k][1] IN callKey'[k] = <<p, gen'[p]>> => st'[p] = "absent"
<1> USE LeaseGatewayAssumption DEF LeaseGatewayAssumption, HostTypeOK
<1>1. /\ gen' = [gen EXCEPT ![q] = nextGen + 1] /\ st' = [st EXCEPT ![q] = "created"]
      /\ UNCHANGED <<lease, target, call, callLease, callKey>>
  BY DEF Recorded, Numbered, leaseVars, callVars
<1>2. \A p \in PlugId : gen[p] \in Int /\ gen[p] <= nextGen /\ nextGen \in Int
  BY DEF Fresh
<1>3. ASSUME NEW h \in Handle, lease[h] # "free"
      PROVE  LET p == target[h][1]
                 g == target[h][2]
             IN  /\ g < nextGen + 1
                 /\ g <= gen'[p] /\ (g = gen'[p] => st'[p] \notin {"created", "initialized"})
  <2> DEFINE p == target[h][1]
             g == target[h][2]
  <2>1. p \in PlugId /\ g \in Int
    BY <1>3 DEF Generations
  <2>2. g <= gen[p] /\ (g = gen[p] => st[p] \notin {"created", "initialized"})
    BY <1>3 DEF Fresh
  <2>3. g < nextGen + 1
    BY <1>2, <2>1, <2>2
  <2>4. CASE p = q
    BY <1>1, <1>2, <2>1, <2>3, <2>4
  <2>5. CASE p # q
    BY <1>1, <2>1, <2>2, <2>3, <2>5
  <2> QED
    BY <2>3, <2>4, <2>5
<1>4. ASSUME NEW k \in Call, call[k] = "left", callKey[k] = <<callKey[k][1], gen'[callKey[k][1]]>>
      PROVE  st'[callKey[k][1]] = "absent"
  <2> DEFINE p == callKey[k][1]
  <2>1. /\ callLease[k] \in Handle /\ lease[callLease[k]] # "free"
        /\ callKey[k] = target[callLease[k]] /\ p \in PlugId
    BY <1>4 DEF CallTable, Generations
  <2>2. callKey[k][2] < nextGen + 1
    BY <1>3, <2>1
  <2>3. p # q
    BY <1>1, <1>2, <1>4, <2>1, <2>2 DEF Current
  <2>4. gen'[p] = gen[p] /\ st'[p] = st[p]
    BY <1>1, <2>1, <2>3
  <2> QED
    BY <1>4, <2>4 DEF Fresh, Current
<1>5. \A p \in PlugId : gen'[p] <= nextGen'
  BY <1>1, <1>2
<1> QED
  BY <1>1, <1>3, <1>4, <1>5

\* What a step that numbers nothing does to the third and fourth part of Fresh.
LEMMA FreshStays ==
    ASSUME HostTypeOK, LeaseTypeOK, CallTypeOK, Lifecycle, Generations, CallTable, Fresh, [Next]_vars,
           gen' = gen, \A p \in PlugId : ~CreateRecord(p) /\ \A l \in Load : ~Loaded(l, p)
    PROVE  /\ \A h \in Handle : lease'[h] # "free" =>
                LET p == target'[h][1]
                    g == target'[h][2]
                IN  g <= gen[p] /\ (g = gen[p] => st'[p] \notin {"created", "initialized"})
           /\ \A k \in Call : call'[k] = "left" =>
                LET p == callKey'[k][1] IN callKey'[k] = Current(p) => st'[p] = "absent"
<1> USE LeaseGatewayAssumption DEF LeaseGatewayAssumption
<1>1. ASSUME NEW p \in PlugId
      PROVE  /\ st'[p] # "absent" => st[p] # "absent"
             /\ st'[p] \in {"created", "initialized"} => st[p] \in {"created", "initialized"}
  BY RecordsMoveOn DEF MovesOn
<1>2. ASSUME NEW h \in Handle, lease[h] # "free"
      PROVE  LET p == target[h][1]
                 g == target[h][2]
             IN  g <= gen[p] /\ (g = gen[p] => st'[p] \notin {"created", "initialized"})
  BY <1>1, <1>2 DEF Fresh, Generations
<1>3. ASSUME NEW h \in Handle, lease'[h] # "free"
      PROVE  LET p == target'[h][1]
                 g == target'[h][2]
             IN  g <= gen[p] /\ (g = gen[p] => st'[p] \notin {"created", "initialized"})
  <2>1. CASE UNCHANGED <<owner, target>> /\ (lease'[h] = lease[h] \/ (lease[h] = "out" /\ lease'[h] = "gone"))
    BY <1>2, <1>3, <2>1
  <2>2. ASSUME NEW c \in PlugId, NEW q \in PlugId, NEW m \in Handle, Acquire(c, q, m)
        PROVE  LET p == target'[h][1]
                   g == target'[h][2]
               IN  g <= gen[p] /\ (g = gen[p] => st'[p] \notin {"created", "initialized"})
    <3>1. CASE h = m
      <4>1. target'[h] = <<q, caps[q]>> /\ caps[q] # 0 /\ st' = st
        BY <2>2, <3>1 DEF Acquire, LeaseTypeOK, hostVars
      <4>2. caps[q] = gen[q] /\ st[q] = "active" /\ gen[q] \in Int
        BY <4>1 DEF Lifecycle, OfferedIsActive, HostTypeOK
      <4> QED
        BY <4>1, <4>2
    <3>2. CASE h # m
      <4>1. lease'[h] = lease[h] /\ target'[h] = target[h]
        BY <2>2, <3>2 DEF Acquire, LeaseTypeOK
      <4> QED
        BY <1>2, <1>3, <4>1
    <3> QED
      BY <3>1, <3>2
  <2> QED
    BY <2>1, <2>2, MintingAside
<1>4. ASSUME NEW k \in Call, call'[k] = "left"
      PROVE  LET p == callKey'[k][1] IN callKey'[k] = Current(p) => st'[p] = "absent"
  <2>1. \/ call[k] = "left" /\ callKey'[k] = callKey[k]
        \/ \E p \in PlugId : DestroyEnds(p) /\ callKey'[k][1] = p
    BY <1>4, StepKinds DEF HostStep, DestroyEnds, Orphaned, Acquire, Release, CallBegin,
       InvokeEnds, CallEnds, callVars, vars, CallTypeOK
  <2>2. CASE call[k] = "left" /\ callKey'[k] = callKey[k]
    <3>1. callKey[k][1] \in PlugId
      BY <2>2 DEF CallTable, Generations
    <3> QED
      BY <1>1, <2>2, <3>1 DEF Fresh
  <2>3. ASSUME NEW p \in PlugId, DestroyEnds(p), callKey'[k][1] = p
        PROVE  st'[p] = "absent"
    BY <2>3 DEF DestroyEnds, HostTypeOK
  <2> QED
    BY <2>1, <2>2, <2>3
<1> QED
  BY <1>3, <1>4

LEMMA FreshStep ==
    ASSUME ~Overlap, HostTypeOK, LeaseTypeOK, CallTypeOK, Lifecycle, Generations, CallTable,
           Fresh, [Next]_vars
    PROVE  Fresh'
<1> USE LeaseGatewayAssumption DEF LeaseGatewayAssumption
<1> DEFINE Drawn == \A l \in Load : drawn[l] # 0 => /\ drawn[l] = nextGen + 1
                                                    /\ \A m \in Load : drawn[m] # 0 => m = l
           Numbers == Drawn /\ \A p \in PlugId : gen[p] <= nextGen
<1>1. Numbers /\ nextGen \in Int /\ \A p \in PlugId : gen[p] \in Int
  BY DEF Fresh, HostTypeOK
<1>2. ASSUME NEW q \in PlugId, CreateRecord(q)
      PROVE  Fresh'
  <2>1. Drawn'
    BY <1>2 DEF CreateRecord, MayNumber
  <2>2. Recorded(q, nextGen + 1) /\ nextGen' = nextGen + 1
    BY <1>2 DEF CreateRecord
  <2> QED
    BY <2>1, <2>2, FreshRecord DEF Fresh, Current
<1>3. ASSUME NEW l \in Load, NEW q \in PlugId, Loaded(l, q)
      PROVE  Fresh'
  <2>1. drawn[l] = nextGen + 1 /\ \A m \in Load : m # l => drawn[m] = 0
    BY <1>1, <1>3 DEF Loaded
  <2>2. Drawn'
    BY <1>3, <2>1 DEF Loaded, HostTypeOK
  <2>3. Recorded(q, nextGen + 1) /\ nextGen' = nextGen + 1
    BY <1>3, <2>1 DEF Loaded
  <2> QED
    BY <2>2, <2>3, FreshRecord DEF Fresh, Current
<1>4. ASSUME gen' = gen, \A p \in PlugId : ~CreateRecord(p) /\ \A l \in Load : ~Loaded(l, p),
             Numbers'
      PROVE  Fresh'
  BY <1>4, FreshStays DEF Fresh, Current
<1>5. ASSUME NEW l \in Load, Draws(l)
      PROVE  gen' = gen /\ Numbers' /\ nextGen' = nextGen
  BY <1>1, <1>5 DEF Draws, MayNumber, HostTypeOK
<1>6. ASSUME NEW l \in Load, LoadFails(l)
      PROVE  gen' = gen /\ Numbers'
  <2>1. drawn[l] = nextGen + 1 /\ \A m \in Load : m # l => drawn[m] = 0
    BY <1>1, <1>6 DEF LoadFails
  <2> QED
    BY <1>1, <1>6, <2>1 DEF LoadFails, HostTypeOK
<1>7. ASSUME UNCHANGED numVars
      PROVE  gen' = gen /\ Numbers'
  BY <1>1, <1>7
<1>8. CASE /\ ~ \E q \in PlugId : CreateRecord(q)
           /\ ~ \E l \in Load, q \in PlugId : Loaded(l, q)
  BY <1>4, <1>5, <1>6, <1>7, <1>8, NumbersAside DEF LoadStep
<1> QED
  BY <1>2, <1>3, <1>8

-----------------------------------------------------------------------------
(* The inductive invariant.                                                *)

LEMMA InitIInv == Init => IInv
<1> SUFFICES ASSUME Init PROVE IInv
  OBVIOUS
<1>1. /\ st = [p \in PlugId |-> "absent"] /\ pc = [p \in PlugId |-> "idle"]
      /\ gen = [p \in PlugId |-> 0] /\ caps = [p \in PlugId |-> 0]
      /\ nextGen = 0 /\ drawn = [l \in Load |-> 0] /\ inBatch = {} /\ failing = FALSE
  BY DEF Init
<1>2. /\ lease = [h \in Handle |-> "free"] /\ owner = [h \in Handle |-> NoPlug]
      /\ target = [h \in Handle |-> NoInstance] /\ open = [h \in Handle |-> 0]
      /\ giver = [h \in Handle |-> NoPlug]
      /\ toNotify = [p \in PlugId |-> {}] /\ notified = [p \in PlugId |-> NoHandle]
  BY DEF Init
<1>3. /\ call = [k \in Call |-> "idle"] /\ callLease = [k \in Call |-> NoHandle]
      /\ callKey = [k \in Call |-> NoInstance] /\ busy = {}
      /\ inFlight = [p \in PlugId |-> 0]
  BY DEF Init
<1>4. HostTypeOK
  <2>1. 0 \in 0 .. MaxGen
    BY LeaseGatewayAssumption DEF LeaseGatewayAssumption
  <2> QED
    BY <1>1, <2>1 DEF HostTypeOK, InstanceState, HostPc
<1>5. LeaseTypeOK
  BY <1>2 DEF LeaseTypeOK
<1>6. CallTypeOK
  BY <1>3 DEF CallTypeOK
<1>7. Lifecycle /\ UnloadStopsQuiet
  BY <1>1 DEF Lifecycle, OfferedIsActive, UnloadStopsQuiet, RollingBack
<1>8. Generations /\ StoppedOwnsNoLease
  BY <1>1, <1>2 DEF Generations, StoppedOwnsNoLease
<1>9. CallTable
  BY <1>2, <1>3 DEF CallTable, OneCallPerInstance, Invoking
<1>10. Fresh
  BY <1>1, <1>2, <1>3 DEF Fresh
<1> QED
  BY <1>4, <1>5, <1>6, <1>7, <1>8, <1>9, <1>10 DEF IInv, TypeOK

LEMMA NextIInv == IInv /\ [Next]_vars => IInv'
<1> SUFFICES ASSUME IInv, [Next]_vars PROVE IInv'
  OBVIOUS
<1> USE DEF IInv, TypeOK
<1>1. HostTypeOK' /\ LeaseTypeOK'
  BY HostType, LeaseType
<1>2. Lifecycle'
  BY LifecycleStep
<1>3. Generations'
  BY GenerationsStep
<1>4. CallTypeOK' /\ CallTable'
  BY CallTableStep
<1>5. UnloadStopsQuiet'
  BY QuietStep
<1>6. StoppedOwnsNoLease'
  BY OwnerStep
<1>7. ~Overlap => Fresh'
  BY FreshStep
<1> QED
  BY <1>1, <1>2, <1>3, <1>4, <1>5, <1>6, <1>7

LEMMA Inductive == Spec => []IInv
  BY InitIInv, NextIInv, PTL DEF Spec

\* Every counter, table and record of the rack keeps its type.
THEOREM TypeCorrect == Spec => []TypeOK
<1>1. IInv => TypeOK
  BY DEF IInv
<1> QED
  BY <1>1, Inductive, PTL

\* host.ts runUnloadProtocol(): an unload calls stop() on a quiet instance and
\* the instance stays quiet until its record is gone.
THEOREM UnloadIsQuiet == Spec => []UnloadStopsQuiet
<1>1. IInv => UnloadStopsQuiet
  BY DEF IInv
<1> QED
  BY <1>1, Inductive, PTL

\* caps.ts lookup(): what is offered is the Active generation on record.
THEOREM OfferedIsLive == Spec => []OfferedIsActive
<1>1. IInv => OfferedIsActive
  BY DEF IInv, Lifecycle
<1> QED
  BY <1>1, Inductive, PTL

\* calls.ts call(): the reentrancy guard is a mutual exclusion.
THEOREM GuardExcludes == Spec => []OneCallPerInstance
<1>1. IInv => OneCallPerInstance
  BY DEF IInv, CallTable
<1> QED
  BY <1>1, Inductive, PTL

\* lease.ts releaseAllFrom(): a stopped consumer owns no lease.
THEOREM StoppedConsumerOwnsNothing == Spec => []StoppedOwnsNoLease
<1>1. IInv => StoppedOwnsNoLease
  BY DEF IInv
<1> QED
  BY <1>1, Inductive, PTL

\* The counters of lease.ts, host.ts and calls.ts count what they should.
THEOREM CountersAgree == Spec => []InFlightAccounting
<1>1. ASSUME IInv PROVE InFlightAccounting
  <2> USE <1>1 DEF IInv, CallTable
  <2>1. ASSUME NEW h \in Handle, lease[h] = "out"
        PROVE  open[h] = Cardinality({k \in Call : call[k] # "idle" /\ callLease[k] = h})
    <3> DEFINE S == {k \in Call : call[k] # "idle" /\ callLease[k] = h}
    <3>1. CASE \E k \in Call : call[k] # "idle" /\ callLease[k] = h
      <4>1. PICK k \in Call : call[k] # "idle" /\ callLease[k] = h
        BY <3>1
      <4>2. S = {k}
        BY <4>1 DEF OneCallPerInstance
      <4>3. Cardinality(S) = 1
        BY <4>2, FS_Singleton
      <4> QED
        BY <2>1, <3>1, <4>3
    <3>2. CASE ~ \E k \in Call : call[k] # "idle" /\ callLease[k] = h
      <4>1. S = {}
        BY <3>2
      <4>2. Cardinality(S) = 0
        BY <4>1, FS_EmptySet
      <4> QED
        BY <2>1, <3>2, <4>2
    <3> QED
      BY <3>1, <3>2
  <2>2. ASSUME NEW p \in PlugId
        PROVE  inFlight[p] = Cardinality({k \in Call : call[k] = "invoking" /\ callKey[k][1] = p})
    <3> DEFINE S == {k \in Call : call[k] = "invoking" /\ callKey[k][1] = p}
    <3>1. CASE Invoking(p)
      <4>1. PICK k \in Call : call[k] = "invoking" /\ callKey[k][1] = p
        BY <3>1 DEF Invoking
      <4>4. \A j \in S : callKey[j] = callKey[k]
        BY <4>1
      <4>2. S = {k}
        BY <4>1, <4>4 DEF OneCallPerInstance
      <4>3. Cardinality(S) = 1
        BY <4>2, FS_Singleton
      <4> QED
        BY <3>1, <4>3
    <3>2. CASE ~Invoking(p)
      <4>1. S = {}
        BY <3>2 DEF Invoking
      <4>2. Cardinality(S) = 0
        BY <4>1, FS_EmptySet
      <4> QED
        BY <3>2, <4>2
    <3> QED
      BY <3>1, <3>2
  <2>3. busy = {callKey[k] : k \in {c \in Call : call[c] # "idle"}}
    <3>1. \A k \in Call : call[k] # "idle" => callKey[k] \in Instance
      BY DEF Generations
    <3>2. busy \in SUBSET Instance
      BY DEF TypeOK, CallTypeOK
    <3> QED
      BY <3>1, <3>2
  <2> QED
    BY <2>1, <2>2, <2>3 DEF InFlightAccounting
<1> QED
  BY <1>1, Inductive, PTL

-----------------------------------------------------------------------------
(* What a step may never do.                                               *)

\* register() runs for the record start() has just returned for; any other
\* step leaves the entry alone or drops it.
LEMMA RegistersOnlyStarted ==
    ASSUME HostTypeOK, Lifecycle, [Next]_vars, NEW p \in PlugId
    PROVE  \/ caps'[p] \in {caps[p], 0}
           \/ st[p] = "initialized" /\ caps'[p] = gen[p]
<1> USE DEF HostTypeOK
<1>1. CASE UNCHANGED caps
  BY <1>1
<1>2. ASSUME NEW q \in PlugId, NEW published \in BOOLEAN, StartReturns(q, published)
      PROVE  \/ caps'[p] \in {caps[p], 0}
             \/ st[p] = "initialized" /\ caps'[p] = gen[p]
  BY <1>2 DEF StartReturns, Lifecycle
<1>3. ASSUME NEW q \in PlugId, RollbackBegin(q) \/ UnloadBegin(q)
      PROVE  caps'[p] \in {caps[p], 0}
  BY <1>3 DEF RollbackBegin, UnloadBegin, Withdrawn
<1>4. ASSUME NEW q \in PlugId, StartupStep(q)
      PROVE  \/ caps'[p] \in {caps[p], 0}
             \/ st[p] = "initialized" /\ caps'[p] = gen[p]
  BY <1>1, <1>2, <1>3, <1>4 DEF StartupStep, CreateRecord, InitBegin, InitReturns,
     InitThrows, StartBegin, StartThrows, DiscardBegin, RollbackStops, RollbackStopEnds, DestroyEnds, Recorded
<1>8. ASSUME NEW l \in Load, LoadStep(l)
      PROVE  UNCHANGED caps
  BY <1>8 DEF LoadStep, Draws, Loaded, Recorded, LoadFails
<1>5. ASSUME NEW q \in PlugId, UnloadStep(q)
      PROVE  caps'[p] \in {caps[p], 0}
  BY <1>1, <1>3, <1>5 DEF UnloadStep, RevokeSnapshot, RevokeNotify, RevokerEnds,
     RevokeVerdict, StopReturns, StopThrows
<1>6. ASSUME NEW h \in Handle, LeaseStep(h)
      PROVE  UNCHANGED caps
  BY <1>6 DEF LeaseStep, Acquire, Release
<1>7. ASSUME NEW k \in Call, CallStep(k)
      PROVE  UNCHANGED caps
  BY <1>7 DEF CallStep, CallBegin, InvokeEnds, CallEnds
<1> QED
  BY <1>1, <1>4, <1>5, <1>6, <1>7, <1>8 DEF Next, BatchCommits, vars

\* lease.ts beginCall(): if no record is numbered while an import is awaited, a
\* credential that went stale is never valid again, because a re-created plugin
\* gets a generation above every leased one.  host.ts numbers without that
\* precaution; nothing is said of it where two loads overlap.
THEOREM StaleForEver ==
    ASSUME ~Overlap
    PROVE  Spec => StaleStaysStale
<1> DEFINE Stays == \A h \in Handle :
         (lease[h] = "out" /\ caps[target[h][1]] # target[h][2])
            => (lease'[h] = "out" => caps'[target[h][1]] # target[h][2])
<1>1. ASSUME IInv, [Next]_vars PROVE Stays
  <2> USE <1>1 DEF IInv, TypeOK
  <2> SUFFICES ASSUME NEW h \in Handle, lease[h] = "out",
                      caps[target[h][1]] # target[h][2]
               PROVE  caps'[target[h][1]] # target[h][2]
    OBVIOUS
  <2> DEFINE p == target[h][1]
             g == target[h][2]
  <2>1. /\ p \in PlugId /\ g \in Gen
        /\ g = gen[p] => st[p] \notin {"created", "initialized"}
    BY DEF Generations, Fresh
  <2>2. \/ caps'[p] \in {caps[p], 0}
        \/ st[p] = "initialized" /\ caps'[p] = gen[p]
    BY <2>1, RegistersOnlyStarted
  <2> QED
    BY <2>1, <2>2
<1>2. Spec => [][Stays]_vars
  BY <1>1, Inductive, PTL DEF Spec
<1> QED
  BY <1>2 DEF StaleStaysStale

\* host.ts runUnloadProtocol(), rollbackInstance(): after withdraw() nothing
\* new is borrowed from the instance and nothing new runs in it.
THEOREM RevokingIsClosed == Spec => RevokingAdmitsNothing
<1> DEFINE Closed == \A p \in PlugId : (st[p] \in {"revoking", "faulted"} \/ pc[p] \in RollingBack) =>
         /\ \A h \in Handle :
              (lease[h] = "free" /\ lease'[h] = "out") => target'[h] # Current(p)
         /\ \A k \in Call :
              (call[k] = "idle" /\ call'[k] # "idle") => callKey'[k] # Current(p)
<1>1. ASSUME IInv, [Next]_vars PROVE Closed
  <2> USE <1>1 DEF IInv, TypeOK
  <2> SUFFICES ASSUME NEW p \in PlugId, st[p] \in {"revoking", "faulted"} \/ pc[p] \in RollingBack
               PROVE  /\ \A h \in Handle :
                           (lease[h] = "free" /\ lease'[h] = "out") => target'[h] # Current(p)
                      /\ \A k \in Call :
                           (call[k] = "idle" /\ call'[k] # "idle") => callKey'[k] # Current(p)
    OBVIOUS
  <2>1. caps[p] = 0
    BY DEF Lifecycle, OfferedIsActive, RollingBack
  <2>2. ASSUME NEW h \in Handle, lease[h] = "free", lease'[h] = "out"
        PROVE  target'[h] # Current(p)
    <3>1. PICK c \in PlugId, q \in PlugId, m \in Handle : Acquire(c, q, m)
      BY <2>2, MintingAside
    <3>2. h = m /\ target'[h] = <<q, caps[q]>> /\ caps[q] # 0
      BY <2>2, <3>1 DEF Acquire, LeaseTypeOK
    <3> QED
      BY <2>1, <3>2 DEF Current
  <2>3. ASSUME NEW k \in Call, call[k] = "idle", call'[k] # "idle"
        PROVE  callKey'[k] # Current(p)
    <3>1. \/ \E h \in Handle : CallBegin(k, h)
          \/ UNCHANGED call
          \/ \E q \in PlugId : DestroyEnds(q)
          \/ \E l \in Call, h \in Handle : l # k /\ CallBegin(l, h)
          \/ \E l \in Call : InvokeEnds(l) \/ CallEnds(l)
      BY StepKinds DEF HostStep, Acquire, Release, callVars, vars
    <3>2. PICK h \in Handle : CallBegin(k, h)
      BY <2>3, <3>1 DEF CallBegin, InvokeEnds, CallEnds, DestroyEnds, Orphaned, CallTypeOK
    <3>3. callKey'[k] = target[h] /\ caps[target[h][1]] = target[h][2] /\ target[h] \in Instance
      BY <3>2 DEF CallBegin, CallTypeOK, Generations
    <3> QED
      BY <2>1, <3>3 DEF Current
  <2> QED
    BY <2>2, <2>3
<1>2. Spec => [][Closed]_vars
  BY <1>1, Inductive, PTL DEF Spec
<1> QED
  BY <1>2 DEF RevokingAdmitsNothing

\* lease.ts release(), releaseAllFrom(): the consumer a lease was minted for is
\* the one who ends it, and outside of its own stop() not under an open call.
THEOREM NobodyElseEndsALease == Spec => OnlyOwnerGivesUpLease
<1> DEFINE Mine == \A h \in Handle : (lease[h] = "out" /\ lease'[h] # "out") =>
         /\ giver'[h] = owner[h]
         /\ \/ pc[owner[h]] \in {"stop", "rollstop"} /\ pc'[owner[h]] # pc[owner[h]]
            \/ \A k \in Call : call[k] # "idle" => callLease[k] # h
<1>1. ASSUME IInv, [Next]_vars PROVE Mine
  <2> USE <1>1 DEF IInv, TypeOK
  <2> SUFFICES ASSUME NEW h \in Handle, lease[h] = "out", lease'[h] # "out"
               PROVE  /\ giver'[h] = owner[h]
                      /\ \/ pc[owner[h]] \in {"stop", "rollstop"} /\ pc'[owner[h]] # pc[owner[h]]
                         \/ \A k \in Call : call[k] # "idle" => callLease[k] # h
    OBVIOUS
  <2>1. HostStep \/ \E c \in PlugId, g \in Handle : Release(c, g)
    BY StepKinds DEF Acquire, DestroyEnds, CallBegin, InvokeEnds, CallEnds, leaseVars, vars, LeaseTypeOK
  <2>2. CASE HostStep
    <3>1. PICK p \in PlugId :
            /\ pc[p] \in {"stop", "rollstop"}
            /\ pc' \in {[pc EXCEPT ![p] = "destroy"], [pc EXCEPT ![p] = "rolldestroy"]}
            /\ lease' = Released(p) /\ giver' = LeftBy(p)
      BY <2>2 DEF HostStep
    <3>2. owner[h] = p
      BY <3>1 DEF Released
    <3>3. pc'[p] # pc[p]
      BY <3>1 DEF HostTypeOK
    <3>4. giver'[h] = p
      BY <3>1, <3>2 DEF LeftBy
    <3> QED
      BY <3>1, <3>2, <3>3, <3>4
  <2>3. ASSUME NEW c \in PlugId, NEW g \in Handle, Release(c, g)
        PROVE  giver'[h] = owner[h] /\ \A k \in Call : call[k] # "idle" => callLease[k] # h
    <3>1. g = h /\ open[h] = 0 /\ owner[h] = c
      BY <2>3 DEF Release, Returnable, LeaseTypeOK
    <3>2. giver'[h] = c
      BY <2>3, <3>1 DEF Release, LeaseTypeOK
    <3> QED
      BY <3>1, <3>2 DEF CallTable
  <2> QED
    BY <2>1, <2>2, <2>3
<1>2. Spec => [][Mine]_vars
  BY <1>1, Inductive, PTL DEF Spec
<1> QED
  BY <1>2 DEF OnlyOwnerGivesUpLease

-----------------------------------------------------------------------------
(* The refinement: what the rack promises.                                 *)

\* How the present record of p stands.
Stands(p) ==
    IF caps[p] = gen[p] THEN "serving"
    ELSE IF pc[p] \in {"stop", "destroy"} THEN "stopping"
    ELSE IF st[p] \in {"created", "initialized"} THEN "new"
    ELSE "closed"

\* A plugin's instances before the present one are closed, those after it are new.
LEMMA PhaseIs ==
    ASSUME HostTypeOK, Lifecycle, NEW p \in PlugId, NEW g \in Gen
    PROVE  PhaseOf(p, g) = IF g = gen[p] THEN Stands(p) ELSE IF g > gen[p] THEN "new" ELSE "closed"
<1> USE LeaseGatewayAssumption DEF LeaseGatewayAssumption
<1>1. gen[p] \in Int /\ g \in Int /\ g >= 1 /\ caps[p] \in {0, gen[p]}
  BY DEF HostTypeOK, Lifecycle, OfferedIsActive
<1>2. CASE g = gen[p]
  <2>1. /\ caps[p] = g => st[p] = "active" /\ pc[p] = "idle"
        /\ pc[p] \in {"stop", "destroy"} => st[p] = "revoking"
    BY <1>1 DEF Lifecycle, OfferedIsActive
  <2> QED
    BY <1>1, <1>2, <2>1 DEF PhaseOf, Stands
<1>3. CASE g # gen[p]
  <2>1. caps[p] # g
    BY <1>1, <1>3
  <2>2. PhaseOf(p, g) = IF g > gen[p] THEN "new" ELSE "closed"
    BY <1>1, <1>3, <2>1 DEF PhaseOf
  <2> QED
    BY <1>3, <2>2
<1> QED
  BY <1>2, <1>3

\* What a record's state says of how it stands.
LEMMA StandsIs ==
    ASSUME HostTypeOK, Lifecycle, Generations, NEW p \in PlugId
    PROVE  /\ st[p] \in {"created", "initialized"} => Stands(p) = "new"
           /\ Stands(p) = "new" => st[p] \in {"created", "initialized"}
           /\ pc[p] \in {"stop", "destroy"} <=> Stands(p) = "stopping"
           /\ Stands(p) = "serving" => caps[p] = gen[p]
           /\ caps[p] # 0 => Stands(p) = "serving" /\ caps[p] = gen[p]
           /\ st[p] = "absent" /\ gen[p] # 0 => Stands(p) = "closed"
           /\ st[p] # "absent" => gen[p] \in Gen
<1> USE LeaseGatewayAssumption DEF LeaseGatewayAssumption
<1>1. gen[p] \in 0 .. MaxGen /\ caps[p] \in {0, gen[p]} /\ (st[p] # "absent" => gen[p] # 0)
  BY DEF HostTypeOK, Lifecycle, OfferedIsActive, Generations
<1>2. caps[p] # 0 => st[p] = "active" /\ pc[p] = "idle"
  BY DEF Lifecycle, OfferedIsActive
<1>3. /\ pc[p] \in {"stop", "destroy"} => st[p] = "revoking"
      /\ st[p] \in {"created", "initialized"} => pc[p] \notin {"stop", "destroy"}
  BY DEF Lifecycle
<1> QED
  BY <1>1, <1>2, <1>3 DEF Stands

\* The same of all instances at once.
PhasesAre == \A p \in PlugId, g \in Gen :
    PhaseOf(p, g) = IF g = gen[p] THEN Stands(p) ELSE IF g > gen[p] THEN "new" ELSE "closed"

LEMMA PhasesHold == IInv => PhasesAre
  BY PhaseIs DEF IInv, TypeOK, PhasesAre

\* A step that makes no record changes how the record of q stands, and no other's.
LEMMA PhaseChanges ==
    ASSUME IInv, IInv', gen' = gen, NEW q \in PlugId,
           \A p \in PlugId : p # q => Stands(p)' = Stands(p)
    PROVE  /\ Stands(q)' = Stands(q) => Phase' = Phase
           /\ gen[q] \in Gen => Phase[<<q, gen[q]>>] = Stands(q)
           /\ gen[q] \in Gen => Phase' = [Phase EXCEPT ![<<q, gen[q]>>] = Stands(q)']
<1>1. \A i \in Instance : i[1] \in PlugId /\ i[2] \in Gen /\ i = <<i[1], i[2]>>
  OBVIOUS
<1>2. ASSUME NEW i \in Instance
      PROVE  /\ Phase[i] = IF i[2] = gen[i[1]] THEN Stands(i[1]) ELSE IF i[2] > gen[i[1]] THEN "new" ELSE "closed"
             /\ Phase'[i] = IF i[2] = gen[i[1]] THEN Stands(i[1])' ELSE IF i[2] > gen[i[1]] THEN "new" ELSE "closed"
  <2>1. Phase[i] = PhaseOf(i[1], i[2]) /\ Phase'[i] = PhaseOf(i[1], i[2])'
    BY DEF Phase
  <2>2. PhasesAre /\ PhasesAre'
    BY PhasesHold, PTL
  <2>3. PhaseOf(i[1], i[2])
        = IF i[2] = gen[i[1]] THEN Stands(i[1]) ELSE IF i[2] > gen[i[1]] THEN "new" ELSE "closed"
    BY <1>1, <2>2 DEF PhasesAre
  <2>4. PhaseOf(i[1], i[2])'
        = IF i[2] = gen[i[1]] THEN Stands(i[1])' ELSE IF i[2] > gen[i[1]] THEN "new" ELSE "closed"
    BY <1>1, <2>2 DEF PhasesAre
  <2> QED
    BY <2>1, <2>3, <2>4
<1> DEFINE i0 == <<q, gen[q]>>
<1>3. ASSUME Stands(q)' = Stands(q)
      PROVE  Phase' = Phase
  <2>1. \A i \in Instance : Phase'[i] = Phase[i]
    BY <1>1, <1>2, <1>3
  <2> QED
    BY <2>1 DEF Phase
<1>4. ASSUME gen[q] \in Gen
      PROVE  Phase[i0] = Stands(q) /\ Phase' = [Phase EXCEPT ![i0] = Stands(q)']
  <2>1. i0 \in Instance /\ i0[1] = q /\ i0[2] = gen[q]
    BY <1>4
  <2>2. Phase[i0] = Stands(q) /\ Phase'[i0] = Stands(q)'
    BY <1>2, <2>1
  <2>3. ASSUME NEW i \in Instance, i # i0
        PROVE  Phase'[i] = Phase[i]
    <3>1. i[1] # q \/ i[2] # gen[q]
      BY <1>1, <2>3
    <3> QED
      BY <1>1, <1>2, <3>1
  <2> QED
    BY <2>2, <2>3 DEF Phase
<1> QED
  BY <1>3, <1>4

\* Some activation runs in the provider instance i, be its record there or not.
Occupied(i) == \E k \in Call : call[k] \in {"invoking", "left"} /\ callKey[k] = i

\* A call runs in a provider, under its credential.
LEMMA RunningIs ==
    ASSUME IInv
    PROVE  /\ \A k \in Call : /\ Running[k] # NoHandle <=> call[k] \in {"invoking", "left"}
                              /\ Running[k] # NoHandle => Running[k] = callLease[k] /\ Running[k] \in Handle
           /\ \A i : Promise!Runs(i) <=> Occupied(i)
           /\ \A i : Promise!Held(i) <=> Outstanding(i)
<1>1. ASSUME NEW k \in Call
      PROVE  /\ Running[k] # NoHandle <=> call[k] \in {"invoking", "left"}
             /\ call[k] \in {"invoking", "left"} => /\ Running[k] = callLease[k] /\ Running[k] \in Handle
                                                    /\ callKey[k] = target[Running[k]]
  BY LeaseGatewayAssumption DEF LeaseGatewayAssumption, Running, IInv, CallTable
<1>2. ASSUME NEW i
      PROVE  Promise!Runs(i) <=> Occupied(i)
  BY <1>1 DEF Promise!Runs, Occupied
<1>3. ASSUME NEW i
      PROVE  Promise!Held(i) <=> Outstanding(i)
  BY DEF Promise!Held, Outstanding
<1> QED
  BY <1>1, <1>2, <1>3

\* Without Overlap nothing runs in the instance on record but what its record counts.
LEMMA CountedIsAll ==
    ASSUME ~Overlap, IInv, NEW q \in PlugId, st[q] # "absent", ~Invoking(q)
    PROVE  ~Occupied(Current(q))
<1> SUFFICES ASSUME NEW k \in Call, call[k] \in {"invoking", "left"}, callKey[k] = Current(q)
             PROVE  FALSE
  BY DEF Occupied
<1>1. callKey[k][1] = q
  BY DEF Current
<1>2. call[k] # "invoking"
  BY <1>1 DEF Invoking
<1> QED
  BY <1>1, <1>2 DEF IInv, Fresh

\* How an instance may go on: the fourth pair is an unload that calls its stop().
Onward == {<<"new", "serving">>, <<"serving", "closed">>, <<"stopping", "closed">>, <<"closed", "stopping">>, <<"new", "closed">>}

\* A step that changes how one record stands is one of the promise.
LEMMA LifeMaps ==
    ASSUME IInv, IInv', gen' = gen, UNCHANGED leaseVars, Running' = Running, NEW q \in PlugId,
           \A p \in PlugId : p # q => Stands(p)' = Stands(p),
           Stands(q)' = Stands(q) \/ (gen[q] \in Gen /\ <<Stands(q), Stands(q)'>> \in Onward),
           Stands(q)' = "stopping" => Stands(q) = "stopping" \/ (~Outstanding(Current(q)) /\ ~Occupied(Current(q)))
    PROVE  [Promise!Next]_Promise!vars
<1> DEFINE i0 == <<q, gen[q]>>
<1>1. Running' = Running /\ UNCHANGED <<lease, owner, target, giver>>
  BY DEF leaseVars
<1>2. CASE Stands(q)' = Stands(q)
  BY <1>1, <1>2, PhaseChanges DEF Promise!vars, Promise!borrowed
<1>3. ASSUME gen[q] \in Gen, <<Stands(q), Stands(q)'>> \in Onward
      PROVE  Promise!Next
  <2>1. i0 \in Promise!Instance /\ Phase[i0] = Stands(q) /\ Phase' = [Phase EXCEPT ![i0] = Stands(q)']
    BY <1>3, PhaseChanges DEF Promise!Instance
  <2>9. \A j \in Promise!Instance : Phase'[j] = IF j = i0 THEN Stands(q)' ELSE Phase[j]
    BY <2>1 DEF Phase, Promise!Instance
  <2>2. \A from, to : Stands(q) = from /\ Stands(q)' = to => Promise!Becomes(i0, from, to)
    BY <1>1, <2>1, <2>9 DEF Promise!Becomes, Promise!borrowed
  <2>3. PhasesAre
    BY PhasesHold
  <2>4. CASE Stands(q) = "new" /\ Stands(q)' = "serving"
    <3>1. ASSUME NEW j \in Promise!Instance, j[1] = q, j[2] # gen[q]
          PROVE  Phase[j] = IF j[2] < gen[q] THEN "closed" ELSE "new"
      <4>1. j \in Instance /\ j[2] \in Gen /\ gen[q] \in Gen
        BY <1>3, <3>1 DEF Promise!Instance
      <4>2. Phase[j] = PhaseOf(q, j[2])
        BY <3>1, <4>1 DEF Phase
      <4> QED
        BY <2>3, <3>1, <4>1, <4>2, LeaseGatewayAssumption DEF PhasesAre, LeaseGatewayAssumption
    <3>2. Promise!Opens(i0)
      BY <2>2, <2>4, <3>1 DEF Promise!Opens
    <3> QED
      BY <2>1, <3>2 DEF Promise!Next
  <2>5. CASE Stands(q) = "serving" /\ Stands(q)' = "closed"
    BY <2>1, <2>2, <2>5 DEF Promise!Next, Promise!Closes
  <2>6. CASE Stands(q) = "stopping" /\ Stands(q)' = "closed"
    BY <2>1, <2>2, <2>6 DEF Promise!Next, Promise!StopIsOver
  <2>7. CASE Stands(q) = "closed" /\ Stands(q)' = "stopping"
    <3>1. ~Promise!Held(i0) /\ ~Promise!Runs(i0)
      BY <2>7, RunningIs DEF Current
    <3> QED
      BY <2>1, <2>2, <2>7, <3>1 DEF Promise!Next, Promise!StopBegins
  <2>8. CASE Stands(q) = "new" /\ Stands(q)' = "closed"
    <3>1. \A i \in Instance : i[1] = q => Phase[i] = IF i[2] <= gen[q] THEN IF i[2] = gen[q] THEN "new" ELSE "closed" ELSE "new"
      <4>1. \A i \in Instance : i[1] = q => Phase[i] = PhaseOf(q, i[2]) /\ i[2] \in Gen
        BY DEF Phase
      <4> QED
        BY <1>3, <2>3, <2>8, <4>1, LeaseGatewayAssumption DEF PhasesAre, LeaseGatewayAssumption
    <3>2. \A i \in Instance : Phase'[i] = IF i[1] = q /\ i[2] <= gen[q] THEN "closed" ELSE Phase[i]
      <4>1. ASSUME NEW i \in Instance
            PROVE  Phase'[i] = IF i[1] = q /\ i[2] <= gen[q] THEN "closed" ELSE Phase[i]
        <5>1. i = i0 <=> i[1] = q /\ i[2] = gen[q]
          OBVIOUS
        <5>2. gen[q] \in Int /\ i[2] \in Int
          BY <1>3, LeaseGatewayAssumption DEF LeaseGatewayAssumption
        <5>3. CASE i = i0
          BY <2>1, <2>8, <4>1, <5>1, <5>2, <5>3 DEF Phase
        <5>4. CASE i # i0
          BY <2>1, <3>1, <4>1, <5>1, <5>2, <5>4 DEF Phase
        <5> QED
          BY <5>3, <5>4
      <4> QED
        BY <4>1
    <3>3. Phase' = [i \in Promise!Instance |-> IF i[1] = q /\ i[2] <= gen[q] THEN "closed" ELSE Phase[i]]
      BY <3>2 DEF Phase, Promise!Instance
    <3>4. Promise!Passes(q, gen[q])
      BY <1>1, <3>1, <3>3 DEF Promise!Passes, Promise!borrowed, Promise!Instance
    <3>5. gen[q] \in 0 .. MaxGen
      BY <1>3, LeaseGatewayAssumption DEF LeaseGatewayAssumption
    <3> QED
      BY <3>4, <3>5 DEF Promise!Next
  <2> QED
    BY <1>3, <2>4, <2>5, <2>6, <2>7, <2>8 DEF Onward
<1> QED
  BY <1>2, <1>3

\* The other records stand as they did.
Beside(q) ==
    /\ gen' = gen /\ UNCHANGED leaseVars /\ Running' = Running
    /\ \A p \in PlugId : p # q => Stands(p)' = Stands(p)

\* The steps of a batch on one record: it opens, closes, or nothing is seen of it.
LEMMA StartupMaps ==
    ASSUME IInv, IInv', NEW q \in PlugId, StartupStep(q), ~CreateRecord(q), ~RollbackStopEnds(q)
    PROVE  [Promise!Next]_Promise!vars
<1> USE DEF IInv, TypeOK
<1>1. Beside(q)
  <2>1. gen' = gen /\ UNCHANGED leaseVars
    BY DEF StartupStep, InitBegin, InitReturns, InitThrows, StartBegin, StartThrows, StartReturns, DiscardBegin,
       RollbackBegin, RollbackStops, DestroyEnds
  <2>3. Running' = Running
    <3>1. CASE DestroyEnds(q)
      BY <3>1 DEF DestroyEnds, Orphaned, Running
    <3>2. CASE ~DestroyEnds(q)
      BY <3>2 DEF StartupStep, InitBegin, InitReturns, InitThrows, StartBegin, StartThrows, StartReturns,
         DiscardBegin, RollbackBegin, RollbackStops, Running, callVars
    <3> QED
      BY <3>1, <3>2
  <2>2. ASSUME NEW p \in PlugId, p # q
        PROVE  st'[p] = st[p] /\ pc'[p] = pc[p] /\ caps'[p] = caps[p]
    BY <2>2 DEF HostTypeOK, StartupStep, InitBegin, InitReturns, InitThrows, StartBegin, StartThrows, StartReturns,
       DiscardBegin, RollbackBegin, RollbackStops, DestroyEnds, Withdrawn
  <2> QED
    BY <2>1, <2>2, <2>3 DEF Stands, Beside
<1>2. ASSUME Stands(q)' = Stands(q), Stands(q)' # "stopping" \/ Stands(q) = "stopping"
      PROVE  [Promise!Next]_Promise!vars
  BY <1>1, <1>2, LifeMaps DEF Beside
<1>3. ASSUME gen[q] \in Gen, <<Stands(q), Stands(q)'>> \in Onward, Stands(q)' # "stopping"
      PROVE  [Promise!Next]_Promise!vars
  BY <1>1, <1>3, LifeMaps DEF Beside
<1>4. /\ st[q] \in {"created", "initialized"} => Stands(q) = "new"
      /\ pc[q] \in {"stop", "destroy"} <=> Stands(q) = "stopping"
      /\ st[q] # "absent" => gen[q] \in Gen
      /\ caps[q] # 0 => Stands(q) = "serving" /\ caps[q] = gen[q] /\ st[q] = "active" /\ pc[q] = "idle"
  BY StandsIs DEF Lifecycle, OfferedIsActive
<1>5. CASE InitBegin(q) \/ InitReturns(q) \/ InitThrows(q) \/ StartBegin(q) \/ DiscardBegin(q) \/ RollbackStops(q)
  <2>1. caps'[q] = caps[q] /\ gen'[q] = gen[q]
    BY <1>5 DEF InitBegin, InitReturns, InitThrows, StartBegin, DiscardBegin, RollbackStops
  <2>2. /\ pc[q] \notin {"stop", "destroy"} /\ pc'[q] \notin {"stop", "destroy"}
        /\ st[q] \in {"created", "initialized"} <=> st'[q] \in {"created", "initialized"}
    BY <1>5 DEF InitBegin, InitReturns, InitThrows, StartBegin, DiscardBegin, RollbackStops, HostTypeOK, Lifecycle, RollingBack
  <2> QED
    BY <1>2, <1>4, <2>1, <2>2 DEF Stands
<1>6. CASE DestroyEnds(q)
  <2>1. caps'[q] = caps[q] /\ gen'[q] = gen[q] /\ st'[q] = "absent" /\ pc'[q] = "idle"
    BY <1>6 DEF DestroyEnds, HostTypeOK
  <2>2. st[q] # "absent" /\ caps[q] = 0
    BY <1>4, <1>6 DEF DestroyEnds, Lifecycle, RollingBack
  <2>3. Stands(q)' = "closed" /\ Stands(q) \in {"new", "stopping", "closed"} /\ gen[q] \in Gen
    BY <1>4, <2>1, <2>2, LeaseGatewayAssumption DEF Stands, LeaseGatewayAssumption
  <2> QED
    BY <1>2, <1>3, <2>3 DEF Onward
<1>7. ASSUME NEW published \in BOOLEAN, StartReturns(q, published)
      PROVE  [Promise!Next]_Promise!vars
  <2>1. /\ gen'[q] = gen[q] /\ st'[q] = "active" /\ pc'[q] = "idle"
        /\ caps'[q] = IF published THEN gen[q] ELSE caps[q]
    BY <1>7 DEF StartReturns, HostTypeOK
  <2>2. st[q] = "initialized" /\ caps[q] = 0
    BY <1>4, <1>7 DEF StartReturns, Lifecycle
  <2>3. gen[q] \in Gen /\ Stands(q) = "new" /\ gen[q] # 0
    BY <1>4, <2>2, LeaseGatewayAssumption DEF LeaseGatewayAssumption
  <2>4. Stands(q)' = IF published THEN "serving" ELSE "closed"
    BY <2>1, <2>2, <2>3 DEF Stands
  <2> QED
    BY <1>3, <2>3, <2>4 DEF Onward
<1>8. CASE StartThrows(q)
  <2>1. caps'[q] = caps[q] /\ gen'[q] = gen[q] /\ st'[q] \in {"initialized", "active"} /\ pc'[q] = "idle"
    BY <1>8 DEF StartThrows, HostTypeOK
  <2>2. st[q] = "initialized" /\ caps[q] = 0
    BY <1>4, <1>8 DEF StartThrows, Lifecycle
  <2>3. gen[q] \in Gen /\ Stands(q) = "new" /\ gen[q] # 0
    BY <1>4, <2>2, LeaseGatewayAssumption DEF LeaseGatewayAssumption
  <2>4. Stands(q)' \in {"new", "closed"}
    BY <2>1, <2>2, <2>3 DEF Stands
  <2> QED
    BY <1>2, <1>3, <2>3, <2>4 DEF Onward
<1>9. CASE RollbackBegin(q)
  <2>1. /\ gen'[q] = gen[q] /\ st'[q] = st[q] /\ pc'[q] \in {"rollwithdrawn", "rollstop"}
        /\ caps'[q] = 0 /\ st[q] \in {"initialized", "active"}
    BY <1>4, <1>9 DEF RollbackBegin, Withdrawn, HostTypeOK
  <2>2. pc[q] \notin {"stop", "destroy"}
    BY <2>1 DEF Lifecycle
  <2>3. gen[q] \in Gen /\ gen[q] # 0
    BY <1>4, <2>1, LeaseGatewayAssumption DEF LeaseGatewayAssumption
  <2>4. CASE caps[q] = 0
    <3>1. Stands(q)' = Stands(q) /\ Stands(q) # "stopping"
      BY <2>1, <2>2, <2>3, <2>4 DEF Stands
    <3> QED
      BY <1>2, <3>1
  <2>5. CASE caps[q] # 0
    <3>1. Stands(q) = "serving" /\ st[q] = "active"
      BY <1>4, <2>5
    <3>2. Stands(q)' = "closed"
      BY <2>1, <2>3, <3>1 DEF Stands
    <3> QED
      BY <1>3, <2>3, <3>1, <3>2 DEF Onward
  <2> QED
    BY <2>4, <2>5
<1> QED
  BY <1>5, <1>6, <1>7, <1>8, <1>9 DEF StartupStep

\* The steps of an unload on one record, but the return of its stop().
LEMMA UnloadMaps ==
    ASSUME ~Overlap, IInv, IInv', NEW q \in PlugId, UnloadStep(q), ~StopReturns(q)
    PROVE  [Promise!Next]_Promise!vars
<1> USE DEF IInv, TypeOK
<1>1. Beside(q)
  <2>1. gen' = gen /\ UNCHANGED leaseVars /\ Running' = Running
    BY DEF UnloadStep, UnloadBegin, RevokeSnapshot, RevokeNotify, RevokerEnds, RevokeVerdict, StopThrows,
       Running, hostVars, callVars
  <2>2. ASSUME NEW p \in PlugId, p # q
        PROVE  st'[p] = st[p] /\ pc'[p] = pc[p] /\ caps'[p] = caps[p]
    BY <2>2 DEF HostTypeOK, UnloadStep, UnloadBegin, RevokeSnapshot, RevokeNotify, RevokerEnds, RevokeVerdict,
       StopThrows, Withdrawn, hostVars
  <2> QED
    BY <2>1, <2>2 DEF Stands, Beside
<1>2. ASSUME Stands(q)' = Stands(q), Stands(q)' # "stopping" \/ Stands(q) = "stopping"
      PROVE  [Promise!Next]_Promise!vars
  BY <1>1, <1>2, LifeMaps DEF Beside
<1>3. ASSUME gen[q] \in Gen, <<Stands(q), Stands(q)'>> \in Onward,
             Stands(q)' # "stopping" \/ (~Outstanding(Current(q)) /\ ~Occupied(Current(q)))
      PROVE  [Promise!Next]_Promise!vars
  BY <1>1, <1>3, LifeMaps DEF Beside
<1>4. /\ pc[q] \in {"stop", "destroy"} <=> Stands(q) = "stopping"
      /\ st[q] # "absent" => gen[q] \in Gen
      /\ caps[q] # 0 => Stands(q) = "serving" /\ caps[q] = gen[q] /\ st[q] = "active" /\ pc[q] = "idle"
  BY StandsIs DEF Lifecycle, OfferedIsActive
<1>5. CASE UnloadBegin(q)
  <2>1. gen'[q] = gen[q] /\ st'[q] = "revoking" /\ pc'[q] = "withdrawn" /\ caps'[q] = 0
    BY <1>4, <1>5 DEF UnloadBegin, Withdrawn, HostTypeOK
  <2>2. st[q] \in {"active", "revoking"} /\ pc[q] = "idle"
    BY <1>5 DEF UnloadBegin
  <2>3. gen[q] \in Gen /\ gen[q] # 0
    BY <1>4, <2>2, LeaseGatewayAssumption DEF LeaseGatewayAssumption
  <2>4. Stands(q) \in {"serving", "closed"} /\ Stands(q)' = "closed"
    BY <2>1, <2>2, <2>3 DEF Stands
  <2> QED
    BY <1>2, <1>3, <2>3, <2>4 DEF Onward
<1>6. ASSUME RevokeSnapshot(q) \/ RevokerEnds(q) \/ \E h \in Handle : RevokeNotify(q, h)
      PROVE  [Promise!Next]_Promise!vars
  <2>1. caps'[q] = caps[q] /\ gen'[q] = gen[q] /\ st'[q] = st[q]
    BY <1>6 DEF RevokeSnapshot, RevokerEnds, RevokeNotify, hostVars
  <2>2. pc[q] \notin {"stop", "destroy"} /\ pc'[q] \notin {"stop", "destroy"}
    BY <1>6 DEF RevokeSnapshot, RevokerEnds, RevokeNotify, hostVars, HostTypeOK
  <2> QED
    BY <1>2, <1>4, <2>1, <2>2 DEF Stands
<1>7. CASE RevokeVerdict(q)
  <2>1. pc[q] = "revoke" /\ st[q] = "revoking" /\ caps[q] = 0 /\ gen[q] \in Gen /\ gen[q] # 0
    BY <1>4, <1>7, LeaseGatewayAssumption DEF RevokeVerdict, Lifecycle, LeaseGatewayAssumption
  <2>2. caps'[q] = caps[q] /\ gen'[q] = gen[q] /\ st'[q] \in {"revoking", "faulted"} /\ pc'[q] \in {"idle", "stop"}
    BY <1>7, <2>1 DEF RevokeVerdict, HostTypeOK
  <2>3. Stands(q) = "closed"
    BY <2>1 DEF Stands
  <2>4. CASE pc'[q] = "stop"
    <3>1. ~Outstanding(Current(q)) /\ ~(inFlight[q] > 0)
      BY <1>7, <2>4 DEF RevokeVerdict, HostTypeOK
    <3>2. ~Occupied(Current(q))
      BY <2>1, <3>1, CountedIsAll DEF CallTable
    <3>3. Stands(q)' = "stopping"
      BY <2>1, <2>2, <2>4 DEF Stands
    <3> QED
      BY <1>3, <2>1, <2>3, <3>1, <3>2, <3>3 DEF Onward
  <2>5. CASE pc'[q] = "idle"
    <3>1. Stands(q)' = "closed"
      BY <2>1, <2>2, <2>5 DEF Stands
    <3> QED
      BY <1>2, <2>3, <3>1
  <2> QED
    BY <2>2, <2>4, <2>5
<1>8. CASE StopThrows(q)
  <2>1. caps'[q] = caps[q] /\ gen'[q] = gen[q] /\ st'[q] = "faulted" /\ pc'[q] = "idle"
    BY <1>8 DEF StopThrows, HostTypeOK
  <2>2. pc[q] = "stop" /\ st[q] = "revoking" /\ caps[q] = 0
    BY <1>4, <1>8 DEF StopThrows, Lifecycle
  <2>3. gen[q] \in Gen /\ gen[q] # 0 /\ Stands(q) = "stopping"
    BY <1>4, <2>2, LeaseGatewayAssumption DEF LeaseGatewayAssumption
  <2>4. Stands(q)' = "closed"
    BY <2>1, <2>2, <2>3 DEF Stands
  <2> QED
    BY <1>3, <2>3, <2>4 DEF Onward
<1> QED
  BY <1>5, <1>6, <1>7, <1>8 DEF UnloadStep

\* A step that changes no record leaves the phases.
LEMMA PhaseStays ==
    ASSUME UNCHANGED <<st, pc, gen, caps>>
    PROVE  Phase' = Phase
  BY DEF Phase, PhaseOf

NewStand == \A p \in PlugId : st[p] \in {"created", "initialized"} => Stands(p) = "new"

\* A record whose start() is before it has served nobody.
LEMMA NewOnesStand == IInv => NewStand
  BY StandsIs DEF IInv, TypeOK, NewStand

\* createRecord() passes over the generations below the one it gives out.
LEMMA RecordedMaps ==
    ASSUME ~Overlap, IInv, IInv', NEW q \in PlugId, nextGen < MaxGen, Recorded(q, nextGen + 1)
    PROVE  [Promise!Next]_Promise!vars
<1> USE LeaseGatewayAssumption DEF IInv, TypeOK, LeaseGatewayAssumption
<1>1. /\ st[q] = "absent" /\ st'[q] = "created" /\ gen'[q] = nextGen + 1 /\ caps' = caps /\ pc' = pc
      /\ \A p \in PlugId : p # q => st'[p] = st[p] /\ gen'[p] = gen[p]
      /\ UNCHANGED <<lease, owner, target, giver>> /\ Running' = Running
  BY DEF Recorded, Numbered, HostTypeOK, leaseVars, callVars, Running
<1>2. nextGen \in 0 .. MaxGen /\ gen[q] \in 0 .. nextGen /\ (gen[q] # 0 => Stands(q) = "closed")
  BY <1>1, StandsIs DEF HostTypeOK, Generations, Fresh
<1>3. Stands(q)' = "new"
  <2>1. NewStand'
    BY NewOnesStand, PTL
  <2> QED
    BY <1>1, <2>1 DEF NewStand
<1>4. PhasesAre /\ PhasesAre'
  BY PhasesHold, PTL
<1>5. ASSUME NEW i \in Instance
      PROVE  /\ i[1] = q => Phase[i] \in {"new", "closed"}
             /\ Phase'[i] = IF i[1] = q /\ i[2] <= nextGen THEN "closed" ELSE Phase[i]
  <2>1. Phase[i] = PhaseOf(i[1], i[2]) /\ Phase'[i] = PhaseOf(i[1], i[2])' /\ i[1] \in PlugId /\ i[2] \in Gen
    BY DEF Phase
  <2>2. CASE i[1] = q
    <3>1. Phase[i] = IF i[2] <= gen[q] THEN "closed" ELSE "new"
      BY <1>2, <1>4, <2>1, <2>2 DEF PhasesAre
    <3>2. Phase'[i] = IF i[2] <= nextGen THEN "closed" ELSE "new"
      BY <1>1, <1>2, <1>3, <1>4, <2>1, <2>2 DEF PhasesAre
    <3> QED
      BY <1>2, <2>1, <2>2, <3>1, <3>2
  <2>3. CASE i[1] # q
    BY <1>1, <2>1, <2>3 DEF PhaseOf
  <2> QED
    BY <2>2, <2>3
<1>7. Promise!Passes(q, nextGen)
  BY <1>1, <1>5 DEF Promise!Passes, Promise!Instance, Promise!borrowed
<1> QED
  BY <1>2, <1>7 DEF Promise!Next

\* The record that start() makes, or an import brings, or neither.
LEMMA CreateMaps ==
    ASSUME ~Overlap, IInv, IInv', NEW q \in PlugId, CreateRecord(q)
    PROVE  [Promise!Next]_Promise!vars
  BY RecordedMaps DEF CreateRecord

LEMMA LoadMaps ==
    ASSUME ~Overlap, IInv, IInv', NEW l \in Load, LoadStep(l)
    PROVE  [Promise!Next]_Promise!vars
<1>1. CASE Draws(l) \/ LoadFails(l)
  <2>1. Phase' = Phase /\ Running' = Running /\ UNCHANGED leaseVars
    BY <1>1, PhaseStays DEF Draws, LoadFails, Running, callVars
  <2> QED
    BY <2>1 DEF Promise!vars, Promise!borrowed, leaseVars
<1>2. ASSUME NEW q \in PlugId, Loaded(l, q)
      PROVE  [Promise!Next]_Promise!vars
  <2>1. drawn[l] = nextGen + 1 /\ drawn[l] \in 0 .. MaxGen /\ nextGen \in 0 .. MaxGen
    BY <1>2 DEF Loaded, IInv, Fresh, TypeOK, HostTypeOK
  <2>2. nextGen < MaxGen
    BY <2>1, LeaseGatewayAssumption DEF LeaseGatewayAssumption
  <2> QED
    BY <1>2, <2>1, <2>2, RecordedMaps DEF Loaded
<1> QED
  BY <1>1, <1>2 DEF LoadStep

\* releaseAllFrom(), by an unload or by a rollback.
LEMMA LeavesMaps ==
    ASSUME IInv, IInv', NEW q \in PlugId, RollbackStopEnds(q) \/ StopReturns(q)
    PROVE  Promise!Next
<1> USE DEF IInv, TypeOK
<1>1. gen' = gen /\ st' = st /\ caps' = caps /\ lease' = Released(q) /\ giver' = LeftBy(q) /\ UNCHANGED <<owner, target>> /\ Running' = Running
  BY DEF RollbackStopEnds, StopReturns, callVars, Running
<1>2. /\ pc[q] \in {"rollstop", "stop"}
      /\ \A p \in PlugId : pc'[p] \in {"stop", "destroy"} <=> pc[p] \in {"stop", "destroy"}
  BY DEF RollbackStopEnds, StopReturns, HostTypeOK
<1>3. Phase' = Phase
  BY <1>1, <1>2 DEF Phase, PhaseOf
<1>4. ASSUME NEW i \in Promise!Instance, i[1] = q
      PROVE  Phase[i] # "serving"
  <2>1. caps[q] = 0
    BY <1>2 DEF Lifecycle, OfferedIsActive
  <2>2. Stands(q) # "serving"
    <3>1. st[q] # "absent" /\ gen[q] # 0
      BY <1>2 DEF Lifecycle, Generations, RollingBack
    <3> QED
      BY <2>1, <3>1 DEF Stands
  <2>3. Phase[i] = PhaseOf(q, i[2]) /\ i[2] \in Gen
    BY <1>4 DEF Phase, Promise!Instance
  <2> QED
    BY <2>2, <2>3, PhasesHold DEF PhasesAre
<1>5. Promise!Leaves(q)
  BY <1>1, <1>3, <1>4 DEF Promise!Leaves, Released, LeftBy
<1> QED
  BY <1>5 DEF Promise!Next

\* acquire() and release().
LEMMA LeaseMaps ==
    ASSUME IInv, NEW h \in Handle, LeaseStep(h)
    PROVE  Promise!Next
<1> USE DEF IInv, TypeOK
<1>1. ASSUME NEW c \in PlugId, NEW p \in PlugId, Acquire(c, p, h)
      PROVE  Promise!Next
  <2> DEFINE i0 == <<p, caps[p]>>
  <2>1. Phase' = Phase /\ Running' = Running
    BY <1>1, PhaseStays DEF Acquire, Running, callVars, hostVars
  <2>2. caps[p] \in Gen /\ i0 \in Promise!Instance
    BY <1>1 DEF Acquire, HostTypeOK, Promise!Instance
  <2>3. PhaseOf(p, caps[p]) = "serving"
    BY <1>1, <2>2, PhasesHold, StandsIs DEF PhasesAre, Acquire
  <2>4. Phase[i0] = "serving"
    BY <2>2, <2>3 DEF Phase, Promise!Instance
  <2>5. Promise!Borrows(c, i0, h)
    BY <1>1, <2>1, <2>4 DEF Acquire, Promise!Borrows
  <2> QED
    BY <1>1, <2>2, <2>5 DEF Promise!Next
<1>2. ASSUME NEW c \in PlugId, Release(c, h)
      PROVE  Promise!Next
  <2>1. Phase' = Phase /\ Running' = Running /\ UNCHANGED <<owner, target>>
    BY <1>2, PhaseStays DEF Release, Running, callVars, hostVars
  <2>2. lease[h] = "out" /\ open[h] = 0 /\ owner[h] = c
    BY <1>2 DEF Release, Returnable
  <2>3. ASSUME NEW k \in Call
        PROVE  Running[k] # h
    <3>1. ~(call[k] # "idle" /\ callLease[k] = h)
      BY <2>2 DEF CallTable
    <3>2. h # NoHandle
      BY LeaseGatewayAssumption DEF LeaseGatewayAssumption
    <3> QED
      BY <3>1, <3>2, RunningIs
  <2>4. Promise!GivesBack(c, h)
    BY <1>2, <2>1, <2>2, <2>3 DEF Release, Promise!GivesBack
  <2> QED
    BY <2>4 DEF Promise!Next
<1> QED
  BY <1>1, <1>2 DEF LeaseStep

\* The steps of call(): an activation enters a provider, and ends in it.
LEMMA CallMaps ==
    ASSUME IInv, NEW k \in Call, CallStep(k)
    PROVE  [Promise!Next]_Promise!vars
<1> USE DEF IInv, TypeOK
<1>1. Phase' = Phase /\ UNCHANGED <<lease, owner, target, giver>>
  BY PhaseStays DEF CallStep, CallBegin, InvokeEnds, CallEnds, leaseVars, hostVars
<1>2. ASSUME NEW h \in Handle, CallBegin(k, h)
      PROVE  Promise!Next
  <2> DEFINE i0 == target[h]
  <2>1. /\ call[k] = "idle" /\ lease[h] = "out" /\ caps[i0[1]] = i0[2] /\ i0 \notin busy
        /\ call' = [call EXCEPT ![k] = "invoking"] /\ callLease' = [callLease EXCEPT ![k] = h]
    BY <1>2 DEF CallBegin, Reentrant
  <2>2. i0 \in Instance
    BY <2>1 DEF Generations
  <2>3. Phase[i0] = "serving"
    <3>1. PhaseOf(i0[1], i0[2]) = "serving"
      BY <2>1, <2>2, PhasesHold, StandsIs DEF PhasesAre
    <3> QED
      BY <2>2, <3>1 DEF Phase
  <2>4. ~Promise!Runs(i0)
    <3>1. ~Occupied(i0)
      BY <2>1, <2>2 DEF CallTable, Occupied
    <3> QED
      BY <3>1, RunningIs
  <2>5. Running[k] = NoHandle /\ Running' = [Running EXCEPT ![k] = h]
    BY <2>1 DEF Running, CallTypeOK
  <2>6. Promise!Enters(k, h)
    BY <1>1, <2>1, <2>3, <2>4, <2>5 DEF Promise!Enters, Promise!borrowed
  <2> QED
    BY <2>6 DEF Promise!Next
<1>3. CASE InvokeEnds(k)
  <2>1. Running[k] # NoHandle
    BY <1>3, RunningIs DEF InvokeEnds
  <2>2. Running' = [Running EXCEPT ![k] = NoHandle]
    BY <1>3 DEF InvokeEnds, Running, CallTypeOK
  <2>3. Promise!Ends(k)
    BY <1>1, <2>1, <2>2 DEF Promise!Ends, Promise!borrowed
  <2> QED
    BY <2>3 DEF Promise!Next
<1>4. CASE CallEnds(k)
  <2>1. Running' = Running
    BY <1>4 DEF CallEnds, Running, CallTypeOK
  <2> QED
    BY <1>1, <2>1 DEF Promise!vars, Promise!borrowed
<1> QED
  BY <1>2, <1>3, <1>4 DEF CallStep

\* Every step is a step of the promise, or nothing is seen of it.
LEMMA StepMaps ==
    ASSUME ~Overlap, IInv, IInv', [Next]_vars
    PROVE  [Promise!Next]_Promise!vars
<1>1. ASSUME UNCHANGED <<hostVars, caps, leaseVars, callVars>>
      PROVE  [Promise!Next]_Promise!vars
  BY <1>1, PhaseStays DEF Promise!vars, Promise!borrowed, Running, leaseVars, callVars, hostVars
<1>2. CASE UNCHANGED vars
  BY <1>1, <1>2 DEF vars, callVars
<1>3. CASE BatchCommits
  <2>1. Phase' = Phase
    BY <1>3 DEF BatchCommits, Phase, PhaseOf
  <2> QED
    BY <1>3, <2>1 DEF BatchCommits, Promise!vars, Promise!borrowed, Running, leaseVars, callVars
<1>4. ASSUME NEW p \in PlugId, StartupStep(p)
      PROVE  [Promise!Next]_Promise!vars
  BY <1>4, StartupMaps, CreateMaps, LeavesMaps
<1>5. ASSUME NEW p \in PlugId, UnloadStep(p)
      PROVE  [Promise!Next]_Promise!vars
  BY <1>5, UnloadMaps, LeavesMaps
<1>8. ASSUME NEW l \in Load, LoadStep(l)
      PROVE  [Promise!Next]_Promise!vars
  BY <1>8, LoadMaps
<1>6. ASSUME NEW h \in Handle, LeaseStep(h)
      PROVE  [Promise!Next]_Promise!vars
  BY <1>6, LeaseMaps
<1>7. ASSUME NEW k \in Call, CallStep(k)
      PROVE  [Promise!Next]_Promise!vars
  BY <1>7, CallMaps
<1> QED
  BY <1>2, <1>3, <1>4, <1>5, <1>6, <1>7, <1>8 DEF Next

\* The lease table, the gateway, the capability table and the host's protocols
\* together implement the rack of Rack: an instance serves once, is borrowed and
\* called only while it does and by one call at a time, is stopped by an unload only
\* when nobody holds a lease on it and nothing runs in it, and a lease goes only by
\* its owner.  Instances are told apart by their numbers, hence the premise.
THEOREM LeaseGatewayIsRack ==
    ASSUME ~Overlap
    PROVE  Spec => IsRack
<1>1. Init => Promise!Init
  <2> SUFFICES ASSUME Init PROVE Promise!Init
    OBVIOUS
  <2>1. Phase = [i \in Promise!Instance |-> "new"]
    <3>1. \A i \in Instance : PhaseOf(i[1], i[2]) = "new"
      BY LeaseGatewayAssumption DEF LeaseGatewayAssumption, Init, PhaseOf
    <3> QED
      BY <3>1 DEF Phase, Promise!Instance
  <2>2. Running = [k \in Call |-> NoHandle]
    BY DEF Init, Running
  <2> QED
    BY <2>1, <2>2 DEF Init, Promise!Init
<1>2. IInv /\ IInv' /\ [Next]_vars => [Promise!Next]_Promise!vars
  BY StepMaps
<1> QED
  BY <1>1, <1>2, Inductive, PTL DEF Spec, IsRack, Promise!Spec
=============================================================================
