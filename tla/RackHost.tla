------------------------------ MODULE RackHost ------------------------------
(***************************************************************************)
(* The operations of the TypeScript rack host, ts/src/core/host.ts, as     *)
(* they overlap on one event loop: boot, start, load, unload, reload, poll *)
(* and shutdown, the calls that run meanwhile, the deferred unloads, and   *)
(* the generation counter with the loader's awaits (ts/src/core/loader.ts).*)
(*                                                                         *)
(* Granularity: code between two awaits runs to its end.  An operation     *)
(* that has the loop is named by `turn`; the steps it takes before it      *)
(* awaits have no one else's steps between them.  It awaits a module       *)
(* import with callbackDepth untouched, and a callback with callbackDepth  *)
(* raised.  A callback's return lowers the depth in one microtask and the  *)
(* operation goes on in a later one; with Gaps = TRUE others may run in    *)
(* between, with Gaps = FALSE nobody calls the rack just then.             *)
(*                                                                         *)
(* Leases are LeaseGateway's subject: here revokeProvider() answers as it  *)
(* likes, save that a lease with a call on it is never given back.         *)
(***************************************************************************)
EXTENDS Integers, SequencesExt, FiniteSets

CONSTANTS
    PlugId,     \* plugin identities; the module file of p makes plugin p
    Op,         \* activations of host operations
    Kind,       \* the operations the embedder uses
    Call,       \* activations of the invoke gateway
    Gaps,       \* may others run between a callback's return and its caller
    MaxStaged,  \* bound: factories waiting for start()
    MaxRec,     \* bound: instance records created in a behaviour
    MaxGen,     \* bound: the generation counter
    NoPlug, NoOp

ASSUME RackHostAssumption ==
    /\ Kind \subseteq {"boot", "start", "load", "unload", "reload", "poll", "shutdown"}
    /\ Gaps \in BOOLEAN
    /\ MaxStaged \in Nat /\ MaxRec \in Nat /\ MaxGen \in Nat
    /\ NoPlug \notin PlugId /\ NoOp \notin Op
    /\ IsFiniteSet(PlugId) /\ IsFiniteSet(Op) /\ IsFiniteSet(Call)

VARIABLES
    born,       \* records created so far: records are 1 .. born
    plug,       \* desc.plugId of a record
    st,         \* its InstanceState
    gen,        \* its generation
    inFlight,   \* its inFlight
    life,       \* history: plugin callbacks the host has called on it
    inst,       \* instances: the record of a plugId, 0 when there is none
    caps,       \* registry: generation registered for a plugId, 0 for none
    nextGen,    \* nextGeneration
    depth,      \* callbackDepth
    closing,    \* shuttingDown
    deferred,   \* deferredUnloads
    staged,     \* stagedFactories, as the plugIds they will make
    asked,      \* history: records a deferred unload was accepted for
    op,         \* the operations in progress
    turn,       \* the operation that has the loop, NoOp at an await
    call,       \* the record a gateway call is invoking, 0 when idle
    caller      \* the record that makes it

recVars  == <<born, plug, st, gen, inFlight, life>>
hostVars == <<inst, caps, nextGen, depth, closing, deferred, staged, asked>>
callVars == <<call, caller>>
vars == <<recVars, hostVars, op, turn, callVars>>

Rec == 1 .. MaxRec

\* An operation: what it is, where it is, whether the callback it awaits is
\* still running, how that or its unload ended, the generation it captured,
\* the plugId and the record it works on, its plan and how far it is, the
\* records to discard if it fails, and the plugIds still to be dealt with.
Resting ==
    [kind |-> "none", at |-> "rest", inside |-> FALSE, status |-> "ok",
     gen |-> 0, id |-> NoPlug, rec |-> 0, plan |-> <<>>, pos |-> 0,
     bin |-> <<>>, ids |-> <<>>, back |-> "rest"]

Init ==
    /\ born = 0
    /\ plug = [r \in Rec |-> NoPlug]
    /\ st = [r \in Rec |-> "none"]
    /\ gen = [r \in Rec |-> 0]
    /\ inFlight = [r \in Rec |-> 0]
    /\ life = [r \in Rec |-> <<>>]
    /\ inst = [p \in PlugId |-> 0]
    /\ caps = [p \in PlugId |-> 0]
    /\ nextGen = 0
    /\ depth = 0
    /\ closing = FALSE
    /\ deferred = <<>>
    /\ staged = <<>>
    /\ asked = {}
    /\ op = [o \in Op |-> Resting]
    /\ turn = NoOp
    /\ call = [k \in Call |-> 0]
    /\ caller = [k \in Call |-> 0]

-----------------------------------------------------------------------------
(* State functions and the parts steps are made of                         *)

\* Where an operation awaits a callback.
Callbacks ==
    {"init", "start", "register", "drain", "rbwithdraw", "rbstop", "destroy",
     "withdraw", "revoke", "stop", "polldrain", "polldone"}

\* Plugin code that may throw, or revokers that may keep their lease.
MayFail == {"init", "start", "rbstop", "destroy", "revoke", "stop"}

\* o takes its next step, being at l: it has the loop, or the callback it
\* awaited has returned.
At(o, l) ==
    /\ op[o].at = l
    /\ turn = o \/ (turn = NoOp /\ l \in Callbacks /\ ~op[o].inside)

\* o is x and keeps the loop.
Runs(o, x) == op' = [op EXCEPT ![o] = x] /\ turn' = o
GoOn(o, l) == Runs(o, [op[o] EXCEPT !.at = l])

\* o is over, having returned or thrown.
Over(o) == op' = [op EXCEPT ![o] = Resting] /\ turn' = NoOp

\* o, otherwise x, awaits callback l of record r.
Awaits(o, x, l, r) ==
    /\ op' = [op EXCEPT ![o] = [x EXCEPT !.at = l, !.inside = TRUE, !.rec = r]]
    /\ turn' = NoOp
    /\ depth' = depth + 1

\* Callback c of r's plugin is called.
Lives(r, c) == life' = [life EXCEPT ![r] = Append(@, c)]

\* Other tasks run while nobody has the loop.
LoopFree == turn = NoOp

\* A continuation is due in the microtask queue: what others do before it they
\* do in microtasks queued earlier, so that nothing they begin can end.
Gap == \E o \in Op : op[o].at \in Callbacks /\ ~op[o].inside
Settles == LoopFree /\ ~Gap

\* queueDeferredUnload: at most one request per plugId.
Queued(p) == IF Contains(deferred, p) THEN deferred ELSE Append(deferred, p)

\* dropDeferredUnload().
Dropped(p) == RemoveFirst(deferred, p)

\* poll() keeps the request of an unload that ended 'busy'.
\* (mutant: it forgets it like any other failure)
Forgotten(p, status) == Dropped(p)
Kept(p, status) == IF status = "busy" THEN Queued(p) ELSE Dropped(p)

\* poll() works on a copy of the queue.  (mutant: on the queue itself)
LiveQueue(o) == deferred
Copied(o) == op[o].ids

\* runInCallback's finally.  (mutant: a throw skips it)
LoweredOnReturn(ok) == IF ok THEN depth - 1 ELSE depth
Lowered(ok) == depth - 1

\* assertEntryOpen().  (mutant: only shutdown closes the entry)
OpenUntilShutdown == ~closing
EntryOpen == ~closing /\ depth = 0

\* A record whose init() never returned is destroyed, any other stopped first.
\* (mutant: a record that has not started is not stopped)
DestroyOnly(r) == st[r] \in {"created", "initialized"}
NeverInitialized(r) == st[r] = "created"

\* withdraw(plugId, generation).  (mutant: a rollback leaves it to destroy)
NotWithdrawn(r) == caps
Withdrawn(r) == [caps EXCEPT ![plug[r]] = IF @ = gen[r] THEN 0 ELSE @]

\* shutdown() comes through an unload that failed.  (mutant: it lets it through)
FirstFailure(o) == op[o].status # "ok"
NoFailure(o) == FALSE

CanCreate == born < MaxRec

\* createRecord(): a plugId in the table is a duplicate, whatever its state.
Duplicate(p) == inst[p] # 0

Create(p, g) ==
    /\ born' = born + 1
    /\ plug' = [plug EXCEPT ![born + 1] = p]
    /\ st' = [st EXCEPT ![born + 1] = "created"]
    /\ gen' = [gen EXCEPT ![born + 1] = g]
    /\ inst' = [inst EXCEPT ![p] = born + 1]
    /\ UNCHANGED <<inFlight, life>>

-----------------------------------------------------------------------------
(* What the embedder and the plugins ask for                               *)

Add(p) ==
    /\ LoopFree /\ EntryOpen
    /\ "start" \in Kind /\ Len(staged) < MaxStaged
    /\ staged' = Append(staged, p)
    /\ UNCHANGED <<recVars, inst, caps, nextGen, depth, closing, deferred, asked>>
    /\ UNCHANGED <<op, turn, callVars>>

Begins(o, kind, at, id, ids) ==
    /\ LoopFree /\ kind \in Kind
    /\ op[o] = Resting
    /\ Runs(o, [Resting EXCEPT !.kind = kind, !.at = at, !.id = id, !.ids = ids])

Boot(o) ==
    /\ EntryOpen
    /\ \E files \in SetToSeqs(PlugId) : Begins(o, "boot", "files", NoPlug, files)
    /\ UNCHANGED <<recVars, hostVars, callVars>>

Start(o) ==
    /\ EntryOpen
    /\ Begins(o, "start", "enter", NoPlug, <<>>)
    /\ UNCHANGED <<recVars, hostVars, callVars>>

Load(o, p) ==
    /\ EntryOpen
    /\ Begins(o, "load", "capture", p, <<>>)
    /\ UNCHANGED <<recVars, hostVars, callVars>>

Unload(o, p) ==
    /\ ~closing /\ inst[p] # 0 /\ depth = 0
    /\ Begins(o, "unload", "unload", p, <<>>)
    /\ UNCHANGED <<recVars, hostVars, callVars>>

\* unload() with a callback on the stack.
DeferUnload(p) ==
    /\ LoopFree /\ "poll" \in Kind
    /\ ~closing /\ inst[p] # 0 /\ depth > 0
    /\ deferred' = Queued(p)
    /\ asked' = asked \cup {inst[p]}
    /\ UNCHANGED <<recVars, inst, caps, nextGen, depth, closing, staged, op, turn, callVars>>

\* reload() wants a source path, which the record of a module file has.
Reload(o, p) ==
    /\ EntryOpen /\ inst[p] # 0
    /\ Begins(o, "reload", "unload", p, <<>>)
    /\ UNCHANGED <<recVars, hostVars, callVars>>

Poll(o) ==
    /\ LoopFree /\ depth = 0 /\ "poll" \in Kind
    /\ op[o] = Resting
    /\ Awaits(o, [Resting EXCEPT !.kind = "poll"], "polldrain", 0)
    /\ UNCHANGED <<recVars, inst, caps, nextGen, closing, deferred, staged, asked, callVars>>

\* The order, reverse initialization order, is one that only plugins notice.
Shutdown(o) ==
    /\ ~closing /\ depth = 0
    /\ \E ids \in SetToSeqs({p \in PlugId : inst[p] # 0}) :
         Begins(o, "shutdown", "next", NoPlug, ids)
    /\ closing' = TRUE
    /\ deferred' = <<>>
    /\ UNCHANGED <<recVars, inst, caps, nextGen, depth, staged, asked, callVars>>

-----------------------------------------------------------------------------
(* Module files: boot(), load(), reload() up to their start()              *)

\* boot() comes to its next file, or is through with them.
NextFile(o) ==
    /\ At(o, "files")
    /\ IF op[o].ids = <<>>
       THEN GoOn(o, "enter")
       ELSE Runs(o, [op[o] EXCEPT !.at = "capture",
                        !.id = Head(op[o].ids), !.ids = Tail(op[o].ids)])
    /\ UNCHANGED <<recVars, hostVars, callVars>>

\* const generation = this.nextGeneration + 1; await this.loader.load(...)
Capture(o) ==
    /\ At(o, "capture")
    /\ op' = [op EXCEPT ![o].at = "import", ![o].gen = nextGen + 1]
    /\ turn' = NoOp
    /\ UNCHANGED <<recVars, hostVars, callVars>>

ImportFails(o) ==
    /\ Settles /\ op[o].at = "import"
    /\ GoOn(o, "discard")
    /\ UNCHANGED <<recVars, hostVars, callVars>>

\* The captured number becomes nextGeneration; then createRecord() runs, which
\* may also refuse the descriptor.
ImportEnds(o) ==
    LET p == op[o].id
        g == op[o].gen
    IN  /\ Settles /\ op[o].at = "import"
        /\ g <= MaxGen
        /\ nextGen' = g
        /\ \/ /\ GoOn(o, "discard")
              /\ UNCHANGED <<recVars, inst>>
           \/ /\ CanCreate /\ ~Duplicate(p)
              /\ Create(p, g)
              /\ IF op[o].kind = "boot"
                 THEN Runs(o, [op[o] EXCEPT !.at = "files", !.gen = 0, !.bin = Append(@, born + 1)])
                 ELSE Runs(o, [op[o] EXCEPT !.at = "enter", !.gen = 0])
        /\ UNCHANGED <<caps, depth, closing, deferred, staged, asked, callVars>>

\* discardAll(), then the error goes to the caller.
Discard(o) ==
    /\ At(o, "discard")
    /\ IF op[o].bin = <<>>
       THEN Over(o) /\ UNCHANGED <<life, depth>>
       ELSE /\ Awaits(o, [op[o] EXCEPT !.bin = Tail(@), !.back = "discard"],
                      "destroy", Head(op[o].bin))
            /\ Lives(Head(op[o].bin), "destroy")
    /\ UNCHANGED <<born, plug, st, gen, inFlight, inst, caps, nextGen, closing>>
    /\ UNCHANGED <<deferred, staged, asked, callVars>>

-----------------------------------------------------------------------------
(* start(): the batch                                                      *)

EnterRefused(o) ==
    /\ At(o, "enter") /\ ~EntryOpen
    /\ Over(o)
    /\ UNCHANGED <<recVars, hostVars, callVars>>

\* All staged factories are taken, whatever becomes of them.
Enter(o) ==
    /\ At(o, "enter") /\ EntryOpen
    /\ Runs(o, [op[o] EXCEPT !.at = "make", !.ids = staged, !.bin = <<>>])
    /\ staged' = <<>>
    /\ UNCHANGED <<recVars, inst, caps, nextGen, depth, closing, deferred, asked, callVars>>

Make(o) ==
    /\ At(o, "make") /\ op[o].ids # <<>>
    /\ CanCreate /\ nextGen < MaxGen /\ ~Duplicate(Head(op[o].ids))
    /\ Create(Head(op[o].ids), nextGen + 1)
    /\ nextGen' = nextGen + 1
    /\ Runs(o, [op[o] EXCEPT !.ids = Tail(@), !.bin = Append(@, born + 1)])
    /\ UNCHANGED <<caps, depth, closing, deferred, staged, asked, callVars>>

\* A factory threw, or made a duplicate: what this call made is discarded.
MakeFails(o) ==
    /\ At(o, "make") /\ op[o].ids # <<>>
    /\ GoOn(o, "discard")
    /\ UNCHANGED <<recVars, hostVars, callVars>>

Pending == {r \in 1 .. born : inst[plug[r]] = r /\ st[r] = "created"}

\* The planner's answer is an order or a refusal; InitOrder says which.
Plan(o) ==
    /\ At(o, "make") /\ op[o].ids = <<>>
    /\ IF Pending = {}
       THEN Over(o)
       ELSE \E order \in SetToSeqs(Pending) :
              \/ Runs(o, [op[o] EXCEPT !.at = "nextInit", !.plan = order, !.pos = 1])
              \/ Runs(o, [op[o] EXCEPT !.at = "discard", !.bin = order])
    /\ UNCHANGED <<recVars, hostVars, callVars>>

Planned(o) == op[o].plan[op[o].pos]

NextInit(o) ==
    /\ At(o, "nextInit")
    /\ IF op[o].pos > Len(op[o].plan)
       THEN /\ Runs(o, [op[o] EXCEPT !.at = "nextStart", !.pos = 1])
            /\ UNCHANGED <<life, depth>>
       ELSE /\ Awaits(o, op[o], "init", Planned(o))
            /\ Lives(Planned(o), "init")
    /\ UNCHANGED <<born, plug, st, gen, inFlight, inst, caps, nextGen, closing>>
    /\ UNCHANGED <<deferred, staged, asked, callVars>>

InitEnds(o) ==
    /\ At(o, "init")
    /\ IF op[o].status = "ok"
       THEN /\ st' = [st EXCEPT ![op[o].rec] = "initialized"]
            /\ Runs(o, [op[o] EXCEPT !.at = "nextInit", !.pos = @ + 1])
       ELSE /\ st' = st
            /\ Runs(o, [op[o] EXCEPT !.at = "undoInit", !.pos = @ - 1])
    /\ UNCHANGED <<born, plug, gen, inFlight, life, hostVars, callVars>>

\* Those initialized are stopped in reverse order, then the rest destroyed.
UndoInit(o) ==
    /\ At(o, "undoInit")
    /\ IF op[o].pos = 0
       THEN /\ Runs(o, [op[o] EXCEPT !.at = "discardRest", !.pos = 1])
            /\ UNCHANGED <<life, depth>>
       ELSE /\ Awaits(o, [op[o] EXCEPT !.pos = @ - 1, !.back = "undoInit"],
                      "rbstop", Planned(o))
            /\ Lives(Planned(o), "stop")
    /\ UNCHANGED <<born, plug, st, gen, inFlight, inst, caps, nextGen, closing>>
    /\ UNCHANGED <<deferred, staged, asked, callVars>>

DiscardRest(o) ==
    /\ At(o, "discardRest")
    /\ IF op[o].pos > Len(op[o].plan)
       THEN Over(o) /\ UNCHANGED <<life, depth>>
       ELSE IF st[Planned(o)] = "created"
            THEN /\ Awaits(o, [op[o] EXCEPT !.pos = @ + 1, !.back = "discardRest"],
                           "destroy", Planned(o))
                 /\ Lives(Planned(o), "destroy")
            ELSE /\ Runs(o, [op[o] EXCEPT !.pos = @ + 1])
                 /\ UNCHANGED <<life, depth>>
    /\ UNCHANGED <<born, plug, st, gen, inFlight, inst, caps, nextGen, closing>>
    /\ UNCHANGED <<deferred, staged, asked, callVars>>

NextStart(o) ==
    /\ At(o, "nextStart")
    /\ IF op[o].pos > Len(op[o].plan)
       THEN Over(o) /\ UNCHANGED <<life, depth>>
       ELSE /\ Awaits(o, op[o], "start", Planned(o))
            /\ Lives(Planned(o), "start")
    /\ UNCHANGED <<born, plug, st, gen, inFlight, inst, caps, nextGen, closing>>
    /\ UNCHANGED <<deferred, staged, asked, callVars>>

\* The record is Active before register() is asked, which may refuse.
StartEnds(o) ==
    LET r == op[o].rec
        p == plug[r]
    IN  /\ At(o, "start")
        /\ IF op[o].status = "ok"
           THEN /\ st' = [st EXCEPT ![r] = "active"]
                /\ \/ Awaits(o, op[o], "drain", r) /\ caps' = caps
                   \/ /\ caps[p] = 0
                      /\ Awaits(o, op[o], "register", r)
                      /\ caps' = [caps EXCEPT ![p] = gen[r]]
                   \/ /\ Awaits(o, [op[o] EXCEPT !.status = "failed"], "register", r)
                      /\ caps' = caps
           ELSE /\ Runs(o, [op[o] EXCEPT !.at = "undoStart", !.pos = Len(op[o].plan)])
                /\ UNCHANGED <<st, caps, depth>>
        /\ UNCHANGED <<born, plug, gen, inFlight, life, inst, nextGen, closing>>
        /\ UNCHANGED <<deferred, staged, asked, callVars>>

RegisterEnds(o) ==
    /\ At(o, "register")
    /\ IF op[o].status = "ok"
       THEN Awaits(o, op[o], "drain", op[o].rec)
       ELSE /\ Runs(o, [op[o] EXCEPT !.at = "undoStart", !.pos = Len(op[o].plan)])
            /\ depth' = depth
    /\ UNCHANGED <<recVars, inst, caps, nextGen, closing, deferred, staged, asked, callVars>>

DrainEnds(o) ==
    /\ At(o, "drain")
    /\ Runs(o, [op[o] EXCEPT !.at = "nextStart", !.pos = @ + 1])
    /\ UNCHANGED <<recVars, hostVars, callVars>>

UndoStart(o) ==
    LET r == Planned(o)
        x == [op[o] EXCEPT !.pos = @ - 1, !.back = "undoStart"]
    IN  /\ At(o, "undoStart")
        /\ \/ /\ op[o].pos = 0
              /\ Over(o)
              /\ UNCHANGED <<life, depth, caps>>
           \/ /\ op[o].pos > 0 /\ inst[plug[r]] = 0
              /\ Runs(o, x)
              /\ UNCHANGED <<life, depth, caps>>
           \/ /\ op[o].pos > 0 /\ inst[plug[r]] # 0 /\ NeverInitialized(r)
              /\ Awaits(o, x, "destroy", r)
              /\ Lives(r, "destroy")
              /\ caps' = caps
           \/ /\ op[o].pos > 0 /\ inst[plug[r]] # 0 /\ ~NeverInitialized(r)
              /\ Awaits(o, x, "rbwithdraw", r)
              /\ caps' = Withdrawn(r)
              /\ life' = life
        /\ UNCHANGED <<born, plug, st, gen, inFlight, inst, nextGen, closing>>
        /\ UNCHANGED <<deferred, staged, asked, callVars>>

RollbackWithdrawn(o) ==
    /\ At(o, "rbwithdraw")
    /\ Awaits(o, op[o], "rbstop", op[o].rec)
    /\ Lives(op[o].rec, "stop")
    /\ UNCHANGED <<born, plug, st, gen, inFlight, inst, caps, nextGen, closing>>
    /\ UNCHANGED <<deferred, staged, asked, callVars>>

\* A throwing stop() is reported and the record goes all the same.
RollbackStopped(o) ==
    /\ At(o, "rbstop")
    /\ Awaits(o, op[o], "destroy", op[o].rec)
    /\ Lives(op[o].rec, "destroy")
    /\ UNCHANGED <<born, plug, st, gen, inFlight, inst, caps, nextGen, closing>>
    /\ UNCHANGED <<deferred, staged, asked, callVars>>

\* destroyRecord() deletes whatever record the table has for the plugId.
DestroyEnds(o) ==
    LET r == op[o].rec
    IN  /\ At(o, "destroy")
        /\ st' = [st EXCEPT ![r] = "destroyed"]
        /\ inst' = [inst EXCEPT ![plug[r]] = 0]
        /\ deferred' = Dropped(plug[r])
        /\ Runs(o, [op[o] EXCEPT !.at = op[o].back, !.back = "rest", !.rec = 0])
        /\ UNCHANGED <<born, plug, gen, inFlight, life>>
        /\ UNCHANGED <<caps, nextGen, depth, closing, staged, asked, callVars>>

-----------------------------------------------------------------------------
(* runUnloadProtocol(), for unload(), reload(), poll() and shutdown()      *)

UnloadEntry(o) ==
    LET p == op[o].id
        r == inst[p]
        x == [op[o] EXCEPT !.status = "ok", !.back = "unloaded"]
    IN  /\ At(o, "unload")
        /\ deferred' = Dropped(p)
        /\ \/ /\ r = 0 \/ (r # 0 /\ st[r] = "faulted")
              /\ Runs(o, [op[o] EXCEPT !.at = "unloaded", !.status = "failed"])
              /\ UNCHANGED <<st, life, caps, depth>>
           \/ /\ r # 0 /\ st[r] = "created"
              /\ Awaits(o, x, "destroy", r)
              /\ Lives(r, "destroy")
              /\ UNCHANGED <<st, caps>>
           \/ /\ r # 0 /\ st[r] \notin {"faulted", "created"}
              /\ st' = [st EXCEPT ![r] = "revoking"]
              /\ caps' = Withdrawn(r)
              /\ Awaits(o, x, "withdraw", r)
              /\ life' = life
        /\ UNCHANGED <<born, plug, gen, inFlight, inst, nextGen, closing, staged, asked, callVars>>

WithdrawEnds(o) ==
    /\ At(o, "withdraw")
    /\ Awaits(o, op[o], "revoke", op[o].rec)
    /\ UNCHANGED <<recVars, inst, caps, nextGen, closing, deferred, staged, asked, callVars>>

\* Quarantine, 'busy', or on to stop().
RevokeEnds(o) ==
    LET r == op[o].rec
    IN  /\ At(o, "revoke")
        /\ \/ /\ op[o].status = "failed"
              /\ st' = [st EXCEPT ![r] = "faulted"]
              /\ GoOn(o, "unloaded")
              /\ UNCHANGED <<life, depth>>
           \/ /\ op[o].status = "ok" /\ inFlight[r] > 0
              /\ Runs(o, [op[o] EXCEPT !.at = "unloaded", !.status = "busy"])
              /\ UNCHANGED <<st, life, depth>>
           \/ /\ op[o].status = "ok" /\ inFlight[r] = 0
              /\ Awaits(o, op[o], "stop", r)
              /\ Lives(r, "stop")
              /\ st' = st
        /\ UNCHANGED <<born, plug, gen, inFlight, inst, caps, nextGen, closing>>
        /\ UNCHANGED <<deferred, staged, asked, callVars>>

StopEnds(o) ==
    LET r == op[o].rec
    IN  /\ At(o, "stop")
        /\ IF op[o].status = "ok"
           THEN /\ Awaits(o, op[o], "destroy", r)
                /\ Lives(r, "destroy")
                /\ st' = st
           ELSE /\ st' = [st EXCEPT ![r] = "faulted"]
                /\ GoOn(o, "unloaded")
                /\ UNCHANGED <<life, depth>>
        /\ UNCHANGED <<born, plug, gen, inFlight, inst, caps, nextGen, closing>>
        /\ UNCHANGED <<deferred, staged, asked, callVars>>

\* What becomes of the operation the unload was part of.
Unloaded(o) ==
    LET x == op[o]
    IN  /\ At(o, "unloaded")
        /\ \/ /\ x.kind = "unload" \/ (x.kind = "reload" /\ x.status # "ok")
              /\ Over(o)
              /\ deferred' = deferred
           \/ /\ x.kind = "reload" /\ x.status = "ok"
              /\ GoOn(o, "capture")
              /\ deferred' = deferred
           \/ /\ x.kind = "shutdown"
              /\ IF NoFailure(o) THEN Over(o) ELSE GoOn(o, "next")
              /\ deferred' = deferred
           \/ /\ x.kind = "poll"
              /\ GoOn(o, "next")
              /\ deferred' = IF x.status = "ok" THEN deferred ELSE Kept(x.id, x.status)
        /\ UNCHANGED <<recVars, inst, caps, nextGen, depth, closing, staged, asked, callVars>>

-----------------------------------------------------------------------------
(* poll() and shutdown(): one unload after another                         *)

PollDrained(o) ==
    /\ At(o, "polldrain")
    /\ Runs(o, [op[o] EXCEPT !.at = "next", !.ids = deferred])
    /\ UNCHANGED <<recVars, hostVars, callVars>>

NextUnload(o) ==
    LET ids == IF op[o].kind = "poll" THEN Copied(o) ELSE op[o].ids
        p   == Head(ids)
        x   == [op[o] EXCEPT !.ids = Tail(ids)]
    IN  /\ At(o, "next") /\ ids # <<>>
        /\ IF op[o].kind = "poll" /\ (~Contains(deferred, p) \/ inst[p] = 0)
           THEN /\ Runs(o, x)
                /\ deferred' = Dropped(p)
           ELSE /\ Runs(o, [x EXCEPT !.at = "unload", !.id = p])
                /\ deferred' = deferred
        /\ UNCHANGED <<recVars, inst, caps, nextGen, depth, closing, staged, asked, callVars>>

NoMoreUnloads(o) ==
    /\ At(o, "next")
    /\ op[o].ids = <<>>
    /\ IF op[o].kind = "poll"
       THEN Awaits(o, op[o], "polldone", 0)
       ELSE Over(o) /\ depth' = depth
    /\ UNCHANGED <<recVars, inst, caps, nextGen, closing, deferred, staged, asked, callVars>>

PollEnds(o) ==
    /\ At(o, "polldone")
    /\ Over(o)
    /\ UNCHANGED <<recVars, hostVars, callVars>>

-----------------------------------------------------------------------------
(* Callbacks return; calls come and go                                     *)

\* releaseAllFrom() drops a consumer's leases, calls on them or not.
Swept(r) == Contains(life[r], "stop") /\ Contains(life[r], "destroy")
Revocable(r) == \A k \in Call : call[k] = r => Swept(caller[k])

\* With Gaps the operation that called it goes on in a microtask of its own.
CallbackReturns(o, ok) ==
    /\ Settles /\ op[o].inside
    /\ ok \/ op[o].at \in MayFail
    /\ ok /\ op[o].at = "revoke" => Revocable(op[o].rec)
    /\ op' = [op EXCEPT ![o].inside = FALSE,
                        ![o].status = IF op[o].at \in MayFail \ {"rbstop", "destroy"}
                                      THEN IF ok THEN "ok" ELSE "failed" ELSE @]
    /\ turn' = IF Gaps THEN NoOp ELSE o
    /\ depth' = Lowered(ok)
    /\ UNCHANGED <<recVars, inst, caps, nextGen, closing, deferred, staged, asked, callVars>>

\* A call of the plugin in c's record reaches the provider: the gateway's gates,
\* resolveProvider() and its wrapper.  One call runs per instance.
CallBegins(k, c, p) ==
    LET r == inst[p]
    IN  /\ LoopFree /\ call[k] = 0
        /\ r # 0 /\ inst[plug[c]] = c /\ st[c] = "active"
        /\ st[r] = "active" /\ caps[p] = gen[r] /\ inFlight[r] = 0
        /\ call' = [call EXCEPT ![k] = r]
        /\ caller' = [caller EXCEPT ![k] = c]
        /\ inFlight' = [inFlight EXCEPT ![r] = @ + 1]
        /\ depth' = depth + 1
        /\ UNCHANGED <<born, plug, st, gen, life, inst, caps, nextGen, closing>>
        /\ UNCHANGED <<deferred, staged, asked, op, turn>>

\* The two counters go down one microtask after the other, sooner than any
\* unload that begins in between can look at the second.
CallEnds(k) ==
    /\ LoopFree /\ call[k] # 0
    /\ call' = [call EXCEPT ![k] = 0]
    /\ caller' = [caller EXCEPT ![k] = 0]
    /\ inFlight' = [inFlight EXCEPT ![call[k]] = @ - 1]
    /\ depth' = depth - 1
    /\ UNCHANGED <<born, plug, st, gen, life, inst, caps, nextGen, closing>>
    /\ UNCHANGED <<deferred, staged, asked, op, turn>>

-----------------------------------------------------------------------------
Asks(o) ==
    \/ Boot(o) \/ Start(o) \/ Poll(o) \/ Shutdown(o)
    \/ \E p \in PlugId : Load(o, p) \/ Unload(o, p) \/ Reload(o, p)

Step(o) ==
    \/ NextFile(o) \/ Capture(o) \/ ImportFails(o) \/ ImportEnds(o) \/ Discard(o)
    \/ EnterRefused(o) \/ Enter(o) \/ Make(o) \/ MakeFails(o) \/ Plan(o)
    \/ NextInit(o) \/ InitEnds(o) \/ UndoInit(o) \/ DiscardRest(o)
    \/ NextStart(o) \/ StartEnds(o) \/ RegisterEnds(o) \/ DrainEnds(o)
    \/ UndoStart(o) \/ RollbackWithdrawn(o) \/ RollbackStopped(o) \/ DestroyEnds(o)
    \/ UnloadEntry(o) \/ WithdrawEnds(o) \/ RevokeEnds(o) \/ StopEnds(o) \/ Unloaded(o)
    \/ PollDrained(o) \/ NextUnload(o) \/ NoMoreUnloads(o) \/ PollEnds(o)
    \/ \E ok \in BOOLEAN : CallbackReturns(o, ok)

Next ==
    \/ \E o \in Op : Asks(o) \/ Step(o)
    \/ \E p \in PlugId : Add(p) \/ DeferUnload(p)
    \/ \E k \in Call : CallEnds(k) \/ \E c \in 1 .. born, p \in PlugId : CallBegins(k, c, p)

Spec == Init /\ [][Next]_vars

\* The event loop goes on with every operation, imports settle and plugin
\* callbacks return; a call may run for ever.
FairSpec == Spec /\ \A o \in Op : WF_vars(Step(o))

-----------------------------------------------------------------------------
(* Correctness properties                                                  *)

\* callbackDepth counts the callbacks on the stack, so that the entry points
\* open again once the last of them has returned or thrown.
DepthBalanced ==
    depth = Cardinality({o \in Op : op[o].inside}) + Cardinality({k \in Call : call[k] # 0})

\* The types; an unload is queued once at most; and the depth is balanced, whichever
\* callbacks return, throw, nest or overlap.
TypeOK ==
    /\ DepthBalanced
    /\ born \in 0 .. MaxRec
    /\ plug \in [Rec -> PlugId \cup {NoPlug}]
    /\ st \in [Rec -> {"none", "created", "initialized", "active", "revoking",
                       "faulted", "destroyed"}]
    /\ gen \in [Rec -> 0 .. MaxGen] /\ nextGen \in 0 .. MaxGen
    /\ inFlight \in [Rec -> Nat]
    /\ inst \in [PlugId -> 0 .. born]
    /\ caps \in [PlugId -> 0 .. MaxGen]
    /\ depth \in Nat /\ closing \in BOOLEAN
    /\ \A i, j \in DOMAIN deferred : deferred[i] = deferred[j] => i = j
    /\ turn \in Op \cup {NoOp}
    /\ call \in [Call -> 0 .. born] /\ caller \in [Call -> 0 .. born]

\* Lifecycle of design idea 10: init and start at most once and in this order,
\* stop at most once, nothing after it but destroy.
Lives4 == {<<>>, <<"destroy">>, <<"init">>, <<"init", "destroy">>,
    <<"init", "stop">>, <<"init", "stop", "destroy">>,
    <<"init", "start">>, <<"init", "start", "stop">>, <<"init", "start", "stop", "destroy">>}

\* Every record lives one of these lives, and one whose init() returned is not
\* destroyed before stop(): "explicit unload ... never torn down by force".
LegalLife ==
    \A r \in Rec :
        /\ life[r] \in Lives4
        /\ life[r] = <<"init", "destroy">> => st[r] \in {"created", "destroyed"}

\* The registry offers only the Active record the table holds.
OfferedIsHeld ==
    \A p \in PlugId : caps[p] # 0 =>
        inst[p] # 0 /\ st[inst[p]] = "active" /\ gen[inst[p]] = caps[p]

Batch ==
    {"make", "nextInit", "init", "undoInit", "discardRest", "nextStart", "start",
     "register", "drain", "undoStart", "rbwithdraw", "rbstop"}

\* Startup batches do not overlap: a plugin's init() never meets another
\* batch's start(), and no record is in two batches.
OneBatch == Cardinality({o \in Op : op[o].at \in Batch}) <= 1

Unloading(o) ==
    \/ op[o].at \in {"unload", "withdraw", "revoke", "stop", "unloaded"}
    \/ op[o].at = "destroy" /\ op[o].back = "unloaded"

\* A deferred unload, once accepted, stays queued until it is executed: while
\* its instance is in the rack and not quarantined, the request is in the
\* queue or an unload of the instance is under way.  unload(): "the request is
\* queued ... poll() executes the queued requests".
DeferredNotLost ==
    \A r \in asked :
        \/ Contains(deferred, plug[r])
        \/ closing \/ inst[plug[r]] # r \/ st[r] = "faulted"
        \/ \E o \in Op : Unloading(o) /\ op[o].id = plug[r]

\* When shutdown() is over, what is left could not prove quiescence.
ShutdownLeavesStuck ==
    (closing /\ \A o \in Op : op[o] = Resting) =>
        \A p \in PlugId : inst[p] # 0 => st[inst[p]] \in {"faulted", "revoking"}

\* Every operation the embedder starts is over some day, whatever calls do.
OpEnds == \A o \in Op : op[o] # Resting ~> op[o] = Resting

-----------------------------------------------------------------------------
(* What the documentation says and the code does not do                    *)

\* design idea 8, "a reload makes a new generation"; host.ts, InstanceRecord:
\* "Host-private monotonic generation assigned at instance creation".
NewRecordNewGeneration ==
    \A r, s \in 1 .. born : (plug[r] = plug[s] /\ gen[r] = gen[s]) => r = s

\* host.ts, reload(): "a failure after the unload leaves the plugin absent
\* from the rack".  Stated of the failure of the start() it ends with.
FailedReloadLeavesNothing ==
    [][\A o \in Op : (op[o].kind = "reload" /\ op[o].at = "enter" /\ op'[o] = Resting)
         => inst'[op[o].id] = 0]_vars

\* design idea 7: never forced.  A plugin that was started is not destroyed
\* before its stop().
NoDestroyUnstopped ==
    \A r \in Rec : life[r] # <<"init", "start", "destroy">>

\* design idea 10: "at most one init/start per instance".
InitAtMostOnce ==
    \A r \in Rec : Len(SelectSeq(life[r], LAMBDA c : c = "init")) <= 1

\* host.ts, start(): "Deferred unloads are never consumed while a startup
\* batch is running."
NoDeferredUnloadInBatch ==
    \A o, b \in Op : ~ (op[b].at \in Batch /\ op[o].kind = "poll" /\ Unloading(o))

\* host.ts, shutdown(): "instances that cannot prove quiescence stay isolated
\* ('faulted') with their resources".
ShutdownQuarantines ==
    (closing /\ \A o \in Op : op[o] = Resting) =>
        \A p \in PlugId : inst[p] # 0 => st[inst[p]] = "faulted"
=============================================================================
