--------------------------- MODULE RackHostProofs ---------------------------
(***************************************************************************)
(* Proofs about the rack host, for any number of operations, calls,        *)
(* plugins and records: every variable has its type, callbackDepth counts  *)
(* the callbacks on the stack, and what assertEntryOpen() makes of it      *)
(* keeps startup batches apart.  Then the records: what is offered is      *)
(* held, callbacks come in a legal order, no accepted unload is lost, and  *)
(* a shutdown leaves only what is stuck.                                   *)
(***************************************************************************)
EXTENDS RackHost, FiniteSetTheorems, SequenceTheorems, TLAPS

USE RackHostAssumption

Fields == {"kind", "at", "inside", "status", "gen", "id", "rec", "plan", "pos", "bin", "ids", "back"}

\* Where an operation goes on after destroyRecord().
Backs == {"rest", "unloaded", "discard", "undoInit", "discardRest", "undoStart"}

\* An operation that awaits a running callback is at one; an unload's stop() is not
\* a batch's.
Fits(x) ==
    /\ DOMAIN x = Fields /\ x.inside \in BOOLEAN /\ x.back \in Backs
    /\ x.inside => x.at \in Callbacks
    /\ x.at \in {"withdraw", "revoke", "stop"} => x.back = "unloaded"

\* In a startup batch, or destroying a record of one.
Batching(x) == x.at \in Batch \/ (x.at = "destroy" /\ x.back \in Batch)

Inside == {o \in Op : op[o].inside}
Calling == {k \in Call : call[k] # 0}

Frames ==
    /\ DOMAIN op = Op /\ DOMAIN call = Call
    /\ \A o \in Op : Fits(op[o]) /\ (turn = o => ~op[o].inside)

\* An operation in a batch or at a callback has the loop, or a callback that runs.
Alone ==
    /\ \A o \in Op : op[o].at \in Callbacks \cup Batch => op[o].inside \/ turn = o
    /\ \A o, b \in Op : Batching(op[o]) /\ Batching(op[b]) => o = b

DepthInv == Frames /\ DepthBalanced
BatchInv == DepthInv /\ (~Gaps => Alone)

-----------------------------------------------------------------------------
(* Steps                                                                   *)

\* What a step of an operation makes of it, of the loop and of the depth: it has
\* not been inside a callback, and is now if it raised the depth.
Moves(o) ==
    /\ DOMAIN op' = Op /\ \A b \in Op \ {o} : op'[b] = op[b]
    /\ Fits(op'[o]) /\ ~op[o].inside /\ call' = call
    /\ \/ op'[o].inside = FALSE /\ depth' = depth /\ turn' \in {o, NoOp}
       \/ op'[o].inside = TRUE /\ depth' = depth + 1 /\ turn' = NoOp
    /\ op'[o].at \in Callbacks \cup Batch => op'[o].inside \/ turn' = o
    /\ Batching(op'[o]) => Batching(op[o]) \/ (turn = o /\ depth = 0)

\* An operation as it is when it keeps the loop.
Goes(o, x) ==
    /\ Fits(x) /\ x.inside = FALSE
    /\ Batching(x) => Batching(op[o]) \/ (turn = o /\ depth = 0)

\* An operation that is asked for.
LEMMA AsksMoves ==
    ASSUME Frames, NEW o \in Op, Asks(o)
    PROVE  Moves(o)
  <1> USE DEF Frames, Moves, Fits, Fields, Backs, Callbacks, Batch, Batching, Resting, Runs, callVars
  <1>1. CASE Boot(o)
    BY <1>1 DEF Boot, Begins, hostVars
  <1>2. CASE Start(o)
    BY <1>2 DEF Start, Begins, hostVars
  <1>3. CASE Poll(o)
    BY <1>3 DEF Poll, Awaits
  <1>4. CASE Shutdown(o)
    BY <1>4 DEF Shutdown, Begins
  <1>5. ASSUME NEW p \in PlugId, Load(o, p)
        PROVE  Moves(o)
    BY <1>5 DEF Load, Begins, hostVars
  <1>6. ASSUME NEW p \in PlugId, Unload(o, p)
        PROVE  Moves(o)
    BY <1>6 DEF Unload, Begins, hostVars
  <1>7. ASSUME NEW p \in PlugId, Reload(o, p)
        PROVE  Moves(o)
    BY <1>7 DEF Reload, Begins, hostVars
  <1> QED
    BY <1>1, <1>2, <1>3, <1>4, <1>5, <1>6, <1>7 DEF Asks

\* What it takes to make a step: not to be inside a callback.
LEMMA AtOutside ==
    ASSUME Frames, NEW o \in Op, NEW l, At(o, l)
    PROVE  /\ op[o].at = l /\ ~op[o].inside /\ Fits(op[o])
           /\ l \notin Callbacks => turn = o
  BY DEF Frames, At

\* The three ways to make one: to go on,
LEMMA RunsMoves ==
    ASSUME Frames, NEW o \in Op, ~op[o].inside, NEW x, Runs(o, x), Goes(o, x),
           depth' = depth, call' = call
    PROVE  Moves(o)
  BY DEF Frames, Runs, Goes, Moves

\* to await a callback,
LEMMA AwaitsMoves ==
    ASSUME Frames, NEW o \in Op, ~op[o].inside, NEW x, NEW l \in Callbacks, NEW r, Awaits(o, x, l, r),
           Fits(x), l \in {"withdraw", "revoke", "stop"} => x.back = "unloaded",
           Batching([at |-> l, back |-> x.back]) => Batching(op[o]), call' = call
    PROVE  Moves(o)
  <1> DEFINE y == [x EXCEPT !.at = l, !.inside = TRUE, !.rec = r]
  <1>1. /\ DOMAIN y = Fields /\ y.at = l /\ y.inside = TRUE /\ y.back = x.back
    BY DEF Fits, Fields
  <1>2. op'[o] = y /\ DOMAIN op' = Op /\ (\A b \in Op \ {o} : op'[b] = op[b])
    BY DEF Awaits, Frames
  <1>3. Fits(op'[o])
    BY <1>1, <1>2 DEF Fits
  <1>4. Batching(op'[o]) => Batching(op[o])
    BY <1>1, <1>2 DEF Batching
  <1> QED
    BY <1>1, <1>2, <1>3, <1>4 DEF Awaits, Moves

\* and to be over.
LEMMA OverMoves ==
    ASSUME Frames, NEW o \in Op, ~op[o].inside, Over(o), depth' = depth, call' = call
    PROVE  Moves(o)
  BY DEF Frames, Over, Moves, Resting, Fits, Fields, Backs, Callbacks, Batch, Batching

Importing(o) == NextFile(o) \/ Capture(o) \/ ImportFails(o) \/ ImportEnds(o) \/ Discard(o)
Starting(o) ==
    \/ EnterRefused(o) \/ Enter(o) \/ Make(o) \/ MakeFails(o) \/ Plan(o)
    \/ NextInit(o) \/ InitEnds(o) \/ NextStart(o) \/ StartEnds(o) \/ RegisterEnds(o) \/ DrainEnds(o)
RollingBack(o) ==
    \/ UndoInit(o) \/ DiscardRest(o) \/ UndoStart(o)
    \/ RollbackWithdrawn(o) \/ RollbackStopped(o) \/ DestroyEnds(o)
TakingDown(o) ==
    \/ UnloadEntry(o) \/ WithdrawEnds(o) \/ RevokeEnds(o) \/ StopEnds(o) \/ Unloaded(o)
    \/ PollDrained(o) \/ NextUnload(o) \/ NoMoreUnloads(o) \/ PollEnds(o)

LEMMA ImportingMoves ==
    ASSUME Frames, NEW o \in Op, Importing(o)
    PROVE  Moves(o)
  <1> USE DEF hostVars, callVars, recVars, Goes, Fits, Fields, Backs, Callbacks, Batch, Batching
  <1>1. CASE NextFile(o)
    <2>1. op[o].at = "files" /\ ~op[o].inside /\ Fits(op[o])
      BY <1>1, AtOutside DEF NextFile
    <2>2. CASE op[o].ids = <<>>
      BY <1>1, <2>1, <2>2, RunsMoves DEF NextFile, GoOn
    <2>3. CASE op[o].ids # <<>>
      BY <1>1, <2>1, <2>3, RunsMoves DEF NextFile, GoOn
    <2> QED
      BY <2>2, <2>3
  <1>2. CASE Capture(o)
    BY <1>2, AtOutside DEF Capture, Frames, Moves
  <1>3. CASE ImportFails(o)
    <2>1. op[o].at = "import" /\ ~op[o].inside /\ Fits(op[o])
      BY <1>3 DEF ImportFails, Frames
    <2> QED
      BY <1>3, <2>1, RunsMoves DEF ImportFails, GoOn
  <1>4. CASE ImportEnds(o)
    <2>1. op[o].at = "import" /\ ~op[o].inside /\ Fits(op[o])
      BY <1>4, AtOutside DEF ImportEnds, Frames
    <2>2. CASE GoOn(o, "discard")
      BY <1>4, <2>1, <2>2, RunsMoves DEF ImportEnds, GoOn
    <2>3. CASE ~GoOn(o, "discard") /\ op[o].kind = "boot"
      BY <1>4, <2>1, <2>3, RunsMoves DEF ImportEnds, GoOn
    <2>4. CASE ~GoOn(o, "discard") /\ op[o].kind # "boot"
      BY <1>4, <2>1, <2>4, RunsMoves DEF ImportEnds, GoOn
    <2> QED
      BY <2>2, <2>3, <2>4
  <1>5. CASE Discard(o)
    <2>1. op[o].at = "discard" /\ ~op[o].inside /\ Fits(op[o])
      BY <1>5, AtOutside DEF Discard
    <2>2. CASE op[o].bin = <<>>
      BY <1>5, <2>1, <2>2, OverMoves DEF Discard
    <2>3. CASE op[o].bin # <<>>
      <3>1. /\ Awaits(o, [op[o] EXCEPT !.bin = Tail(@), !.back = "discard"], "destroy", Head(op[o].bin))
            /\ call' = call
        BY <1>5, <2>3 DEF Discard
      <3>2. PICK x : x = [op[o] EXCEPT !.bin = Tail(@), !.back = "discard"]
        OBVIOUS
      <3>3. Fits(x) /\ x.back = "discard"
        BY <2>1, <3>2
      <3>4. PICK l, r : Awaits(o, x, l, r) /\ l = "destroy"
        BY <3>1, <3>2
      <3>5. l \in Callbacks /\ l \notin {"withdraw", "revoke", "stop"}
        BY <3>4
      <3>6. Batching([at |-> l, back |-> x.back]) => Batching(op[o])
        BY <2>1, <3>3, <3>4
      <3> HIDE DEF Fits, Batching, Callbacks, Batch
      <3> QED
        BY <2>1, <3>1, <3>3, <3>4, <3>5, <3>6, AwaitsMoves
    <2> QED
      BY <2>2, <2>3
  <1> QED
    BY <1>1, <1>2, <1>3, <1>4, <1>5 DEF Importing

LEMMA StartingMoves ==
    ASSUME Frames, NEW o \in Op, Starting(o)
    PROVE  Moves(o)
  <1> USE DEF hostVars, callVars, recVars, Goes, Fits, Fields, Backs, Callbacks, Batch, Batching
  <1>1. CASE EnterRefused(o)
    BY <1>1, AtOutside, OverMoves DEF EnterRefused
  <1>2. CASE Enter(o)
    <2>1. op[o].at = "enter" /\ ~op[o].inside /\ Fits(op[o]) /\ turn = o /\ depth = 0
      BY <1>2, AtOutside DEF Enter, EntryOpen
    <2> QED
      BY <1>2, <2>1, RunsMoves DEF Enter
  <1>3. CASE Make(o)
    BY <1>3, AtOutside, RunsMoves DEF Make
  <1>4. CASE MakeFails(o)
    BY <1>4, AtOutside, RunsMoves DEF MakeFails, GoOn
  <1>5. CASE Plan(o)
    <2>1. op[o].at = "make" /\ ~op[o].inside /\ Fits(op[o])
      BY <1>5, AtOutside DEF Plan
    <2>2. CASE Pending = {}
      BY <1>5, <2>1, <2>2, OverMoves DEF Plan
    <2>3. CASE Pending # {}
      BY <1>5, <2>1, <2>3, RunsMoves DEF Plan
    <2> QED
      BY <2>2, <2>3
  <1>6. CASE NextInit(o)
    <2>1. op[o].at = "nextInit" /\ ~op[o].inside /\ Fits(op[o])
      BY <1>6, AtOutside DEF NextInit
    <2>2. CASE op[o].pos > Len(op[o].plan)
      BY <1>6, <2>1, <2>2, RunsMoves DEF NextInit
    <2>3. CASE ~(op[o].pos > Len(op[o].plan))
      BY <1>6, <2>1, <2>3, AwaitsMoves DEF NextInit
    <2> QED
      BY <2>2, <2>3
  <1>7. CASE InitEnds(o)
    <2>1. op[o].at = "init" /\ ~op[o].inside /\ Fits(op[o])
      BY <1>7, AtOutside DEF InitEnds
    <2>2. CASE op[o].status = "ok"
      BY <1>7, <2>1, <2>2, RunsMoves DEF InitEnds
    <2>3. CASE op[o].status # "ok"
      BY <1>7, <2>1, <2>3, RunsMoves DEF InitEnds
    <2> QED
      BY <2>2, <2>3
  <1>8. CASE NextStart(o)
    <2>1. op[o].at = "nextStart" /\ ~op[o].inside /\ Fits(op[o])
      BY <1>8, AtOutside DEF NextStart
    <2>2. CASE op[o].pos > Len(op[o].plan)
      BY <1>8, <2>1, <2>2, OverMoves DEF NextStart
    <2>3. CASE ~(op[o].pos > Len(op[o].plan))
      BY <1>8, <2>1, <2>3, AwaitsMoves DEF NextStart
    <2> QED
      BY <2>2, <2>3
  <1>9. CASE StartEnds(o)
    <2>1. op[o].at = "start" /\ ~op[o].inside /\ Fits(op[o])
      BY <1>9, AtOutside DEF StartEnds
    <2>2. CASE op[o].status = "ok"
      <3>1. CASE Awaits(o, op[o], "drain", op[o].rec)
        BY <1>9, <2>1, <3>1, AwaitsMoves DEF StartEnds
      <3>2. CASE Awaits(o, op[o], "register", op[o].rec)
        BY <1>9, <2>1, <3>2, AwaitsMoves DEF StartEnds
      <3>3. CASE Awaits(o, [op[o] EXCEPT !.status = "failed"], "register", op[o].rec)
        <4>1. PICK x : x = [op[o] EXCEPT !.status = "failed"]
          OBVIOUS
        <4>2. Fits(x) /\ x.back = op[o].back
          BY <2>1, <4>1
        <4>3. PICK l, r : Awaits(o, x, l, r) /\ l = "register"
          BY <3>3, <4>1
        <4>4. l \in Callbacks /\ l \notin {"withdraw", "revoke", "stop"} /\ Batching(op[o])
          BY <2>1, <4>3
        <4>5. call' = call
          BY <1>9 DEF StartEnds
        <4> HIDE DEF Fits, Batching, Callbacks, Batch
        <4> QED
          BY <2>1, <4>2, <4>3, <4>4, <4>5, AwaitsMoves
      <3> QED
        BY <1>9, <2>2, <3>1, <3>2, <3>3 DEF StartEnds
    <2>3. CASE op[o].status # "ok"
      BY <1>9, <2>1, <2>3, RunsMoves DEF StartEnds
    <2> QED
      BY <2>2, <2>3
  <1>10. CASE RegisterEnds(o)
    <2>1. op[o].at = "register" /\ ~op[o].inside /\ Fits(op[o])
      BY <1>10, AtOutside DEF RegisterEnds
    <2>2. CASE op[o].status = "ok"
      BY <1>10, <2>1, <2>2, AwaitsMoves DEF RegisterEnds
    <2>3. CASE op[o].status # "ok"
      BY <1>10, <2>1, <2>3, RunsMoves DEF RegisterEnds
    <2> QED
      BY <2>2, <2>3
  <1>11. CASE DrainEnds(o)
    <2>1. op[o].at = "drain" /\ ~op[o].inside /\ Fits(op[o])
      BY <1>11, AtOutside DEF DrainEnds
    <2> QED
      BY <1>11, <2>1, RunsMoves DEF DrainEnds
  <1> QED
    BY <1>1, <1>2, <1>3, <1>4, <1>5, <1>6, <1>7, <1>8, <1>9, <1>10, <1>11 DEF Starting

LEMMA RollingBackMoves ==
    ASSUME Frames, NEW o \in Op, RollingBack(o)
    PROVE  Moves(o)
  <1> USE DEF hostVars, callVars, recVars, Goes, Fits, Fields, Backs, Callbacks, Batch, Batching
  <1>1. CASE UndoInit(o)
    <2>1. op[o].at = "undoInit" /\ ~op[o].inside /\ Fits(op[o])
      BY <1>1, AtOutside DEF UndoInit
    <2>2. CASE op[o].pos = 0
      BY <1>1, <2>1, <2>2, RunsMoves DEF UndoInit
    <2>3. CASE op[o].pos # 0
      BY <1>1, <2>1, <2>3, AwaitsMoves DEF UndoInit
    <2> QED
      BY <2>2, <2>3
  <1>2. CASE DiscardRest(o)
    <2>1. op[o].at = "discardRest" /\ ~op[o].inside /\ Fits(op[o])
      BY <1>2, AtOutside DEF DiscardRest
    <2>2. CASE op[o].pos > Len(op[o].plan)
      BY <1>2, <2>1, <2>2, OverMoves DEF DiscardRest
    <2>3. CASE ~(op[o].pos > Len(op[o].plan)) /\ st[Planned(o)] = "created"
      BY <1>2, <2>1, <2>3, AwaitsMoves DEF DiscardRest
    <2>4. CASE ~(op[o].pos > Len(op[o].plan)) /\ st[Planned(o)] # "created"
      BY <1>2, <2>1, <2>4, RunsMoves DEF DiscardRest
    <2> QED
      BY <2>2, <2>3, <2>4
  <1>3. CASE UndoStart(o)
    <2>1. op[o].at = "undoStart" /\ ~op[o].inside /\ Fits(op[o])
      BY <1>3, AtOutside DEF UndoStart
    <2>2. CASE Over(o) /\ depth' = depth
      BY <1>3, <2>1, <2>2, OverMoves DEF UndoStart
    <2>3. CASE Runs(o, [op[o] EXCEPT !.pos = @ - 1, !.back = "undoStart"]) /\ depth' = depth
      BY <1>3, <2>1, <2>3, RunsMoves DEF UndoStart
    <2>4. CASE Awaits(o, [op[o] EXCEPT !.pos = @ - 1, !.back = "undoStart"], "destroy", Planned(o))
      BY <1>3, <2>1, <2>4, AwaitsMoves DEF UndoStart
    <2>5. CASE Awaits(o, [op[o] EXCEPT !.pos = @ - 1, !.back = "undoStart"], "rbwithdraw", Planned(o))
      BY <1>3, <2>1, <2>5, AwaitsMoves DEF UndoStart
    <2> QED
      BY <1>3, <2>2, <2>3, <2>4, <2>5 DEF UndoStart
  <1>4. CASE RollbackWithdrawn(o)
    BY <1>4, AtOutside, AwaitsMoves DEF RollbackWithdrawn
  <1>5. CASE RollbackStopped(o)
    BY <1>5, AtOutside, AwaitsMoves DEF RollbackStopped
  <1>6. CASE DestroyEnds(o)
    BY <1>6, AtOutside, RunsMoves DEF DestroyEnds
  <1> QED
    BY <1>1, <1>2, <1>3, <1>4, <1>5, <1>6 DEF RollingBack

LEMMA TakingDownMoves ==
    ASSUME Frames, NEW o \in Op, TakingDown(o)
    PROVE  Moves(o)
  <1> USE DEF hostVars, callVars, recVars, Goes, Fits, Fields, Backs, Callbacks, Batch, Batching
  <1>1. CASE UnloadEntry(o)
    <2>1. op[o].at = "unload" /\ ~op[o].inside /\ Fits(op[o])
      BY <1>1, AtOutside DEF UnloadEntry
    <2>2. CASE Runs(o, [op[o] EXCEPT !.at = "unloaded", !.status = "failed"]) /\ depth' = depth
      BY <1>1, <2>1, <2>2, RunsMoves DEF UnloadEntry
    <2>3. ASSUME NEW l \in {"destroy", "withdraw"},
                 Awaits(o, [op[o] EXCEPT !.status = "ok", !.back = "unloaded"], l, inst[op[o].id])
          PROVE  Moves(o)
      <3>1. PICK x : x = [op[o] EXCEPT !.status = "ok", !.back = "unloaded"]
        OBVIOUS
      <3>2. Fits(x) /\ x.back = "unloaded"
        BY <2>1, <3>1
      <3>3. PICK r : Awaits(o, x, l, r)
        BY <2>3, <3>1
      <3>4. l \in Callbacks /\ ~Batching([at |-> l, back |-> x.back])
        BY <3>2
      <3>5. call' = call
        BY <1>1 DEF UnloadEntry
      <3> HIDE DEF Fits, Batching, Callbacks, Batch
      <3> QED
        BY <2>1, <3>2, <3>3, <3>4, <3>5, AwaitsMoves
    <2> QED
      BY <1>1, <2>2, <2>3 DEF UnloadEntry
  <1>2. CASE WithdrawEnds(o)
    BY <1>2, AtOutside, AwaitsMoves DEF WithdrawEnds
  <1>3. CASE RevokeEnds(o)
    <2>1. op[o].at = "revoke" /\ ~op[o].inside /\ Fits(op[o])
      BY <1>3, AtOutside DEF RevokeEnds
    <2>2. CASE GoOn(o, "unloaded") /\ depth' = depth
      BY <1>3, <2>1, <2>2, RunsMoves DEF RevokeEnds, GoOn
    <2>3. CASE Runs(o, [op[o] EXCEPT !.at = "unloaded", !.status = "busy"]) /\ depth' = depth
      BY <1>3, <2>1, <2>3, RunsMoves DEF RevokeEnds
    <2>4. CASE Awaits(o, op[o], "stop", op[o].rec)
      BY <1>3, <2>1, <2>4, AwaitsMoves DEF RevokeEnds
    <2> QED
      BY <1>3, <2>2, <2>3, <2>4 DEF RevokeEnds
  <1>4. CASE StopEnds(o)
    <2>1. op[o].at = "stop" /\ ~op[o].inside /\ Fits(op[o])
      BY <1>4, AtOutside DEF StopEnds
    <2>2. CASE op[o].status = "ok"
      BY <1>4, <2>1, <2>2, AwaitsMoves DEF StopEnds
    <2>3. CASE op[o].status # "ok"
      BY <1>4, <2>1, <2>3, RunsMoves DEF StopEnds, GoOn
    <2> QED
      BY <2>2, <2>3
  <1>5. CASE Unloaded(o)
    <2>1. op[o].at = "unloaded" /\ ~op[o].inside /\ Fits(op[o])
      BY <1>5, AtOutside DEF Unloaded
    <2>2. CASE Over(o)
      BY <1>5, <2>1, <2>2, OverMoves DEF Unloaded, NoFailure
    <2>3. CASE ~Over(o)
      BY <1>5, <2>1, <2>3, RunsMoves DEF Unloaded, GoOn, NoFailure
    <2> QED
      BY <2>2, <2>3
  <1>6. CASE PollDrained(o)
    BY <1>6, AtOutside, RunsMoves DEF PollDrained
  <1>7. CASE NextUnload(o)
    BY <1>7, AtOutside, RunsMoves DEF NextUnload
  <1>8. CASE NoMoreUnloads(o)
    <2>1. op[o].at = "next" /\ ~op[o].inside /\ Fits(op[o])
      BY <1>8, AtOutside DEF NoMoreUnloads
    <2>2. CASE op[o].kind = "poll"
      BY <1>8, <2>1, <2>2, AwaitsMoves DEF NoMoreUnloads
    <2>3. CASE op[o].kind # "poll"
      BY <1>8, <2>1, <2>3, OverMoves DEF NoMoreUnloads
    <2> QED
      BY <2>2, <2>3
  <1>9. CASE PollEnds(o)
    BY <1>9, AtOutside, OverMoves DEF PollEnds
  <1> QED
    BY <1>1, <1>2, <1>3, <1>4, <1>5, <1>6, <1>7, <1>8, <1>9 DEF TakingDown

-----------------------------------------------------------------------------
(* The depth                                                               *)

\* The sets it counts are finite.
LEMMA Counted ==
    /\ IsFiniteSet(Inside) /\ IsFiniteSet(Calling)
    /\ Cardinality(Inside) \in Nat /\ Cardinality(Calling) \in Nat
  BY FS_Subset, FS_CardinalityType DEF Inside, Calling

\* At depth zero nobody is inside a callback.
LEMMA NobodyInside ==
    ASSUME DepthInv, depth = 0
    PROVE  Inside = {}
  <1>1. Cardinality(Inside) = 0
    BY Counted DEF DepthInv, DepthBalanced, Inside, Calling
  <1> QED
    BY <1>1, Counted, FS_EmptySet

\* Nobody steps while another has the loop.
LEMMA OthersWait ==
    ASSUME NEW o \in Op,
           Asks(o) \/ Importing(o) \/ Starting(o) \/ RollingBack(o) \/ TakingDown(o)
    PROVE  turn \in {o, NoOp}
  <1> USE DEF At, LoopFree, Settles
  <1>1. CASE Asks(o)
    BY <1>1 DEF Asks, Boot, Start, Poll, Shutdown, Load, Unload, Reload, Begins
  <1>2. CASE Importing(o)
    BY <1>2 DEF Importing, NextFile, Capture, ImportFails, ImportEnds, Discard
  <1>3. CASE Starting(o)
    BY <1>3 DEF Starting, EnterRefused, Enter, Make, MakeFails, Plan, NextInit, InitEnds,
                NextStart, StartEnds, RegisterEnds, DrainEnds
  <1>4. CASE RollingBack(o)
    BY <1>4 DEF RollingBack, UndoInit, DiscardRest, UndoStart, RollbackWithdrawn,
                RollbackStopped, DestroyEnds
  <1>5. CASE TakingDown(o)
    BY <1>5 DEF TakingDown, UnloadEntry, WithdrawEnds, RevokeEnds, StopEnds, Unloaded,
                PollDrained, NextUnload, NoMoreUnloads, PollEnds
  <1> QED
    BY <1>1, <1>2, <1>3, <1>4, <1>5

LEMMA MovesKeeps ==
    ASSUME BatchInv, NEW o \in Op, Moves(o), turn \in {o, NoOp}
    PROVE  BatchInv'
  <1> USE DEF BatchInv, DepthInv
  <1>0. /\ DepthBalanced <=> depth = Cardinality(Inside) + Cardinality(Calling)
        /\ DepthBalanced' <=> depth' = Cardinality(Inside') + Cardinality(Calling')
    BY DEF DepthBalanced, Inside, Calling
  <1>1. Frames'
    BY DEF Frames, Moves
  <1>2. Calling' = Calling
    BY DEF Calling, Moves
  <1>3. o \notin Inside
    BY DEF Inside, Moves
  <1>4. DepthBalanced'
    <2>1. CASE op'[o].inside = FALSE /\ depth' = depth
      <3>1. Inside' = Inside
        BY <2>1 DEF Inside, Moves
      <3> QED
        BY <1>0, <1>2, <2>1, <3>1
    <2>2. CASE op'[o].inside = TRUE /\ depth' = depth + 1
      <3>1. Inside' = Inside \cup {o}
        BY <2>2 DEF Inside, Moves
      <3>2. Cardinality(Inside') = Cardinality(Inside) + 1
        BY <1>3, <3>1, Counted, FS_AddElement
      <3> QED
        BY <1>0, <1>2, <2>2, <3>2, Counted
    <2> QED
      BY <2>1, <2>2 DEF Moves
  <1>5. ASSUME ~Gaps
        PROVE  Alone'
    <2>1. \A b \in Op : op'[b].at \in Callbacks \cup Batch => op'[b].inside \/ turn' = b
      <3> SUFFICES ASSUME NEW b \in Op, b # o, op'[b].at \in Callbacks \cup Batch
                   PROVE  op'[b].inside
        BY DEF Moves
      <3>1. op'[b] = op[b] /\ (op[b].inside \/ turn = b)
        BY <1>5 DEF Moves, Alone
      <3>2. turn # b
        OBVIOUS
      <3> QED
        BY <3>1, <3>2
    <2>2. \A b \in Op : Batching(op[b]) => op[b].inside \/ turn = b
      BY <1>5 DEF Alone, Batching, Batch, Callbacks
    <2>3. ASSUME NEW b \in Op, b # o, Batching(op[b]), Batching(op'[o])
          PROVE  FALSE
      <3>1. CASE Batching(op[o])
        BY <1>5, <2>3, <3>1 DEF Alone
      <3>2. CASE turn = o /\ depth = 0
        BY <2>2, <2>3, <3>2, NobodyInside DEF Inside
      <3> QED
        BY <2>3, <3>1, <3>2 DEF Moves
    <2>4. \A b \in Op \ {o} : op'[b] = op[b]
      BY DEF Moves
    <2>5. \A b, c \in Op : Batching(op'[b]) /\ Batching(op'[c]) => b = c
      BY <1>5, <2>3, <2>4 DEF Alone
    <2> QED
      BY <2>1, <2>5 DEF Alone, Batching
  <1> QED
    BY <1>1, <1>4, <1>5

\* A callback returns.
LEMMA ReturnsKeeps ==
    ASSUME BatchInv, NEW o \in Op, NEW ok \in BOOLEAN, CallbackReturns(o, ok)
    PROVE  BatchInv'
  <1> USE DEF BatchInv, DepthInv
  <1>0. /\ DepthBalanced <=> depth = Cardinality(Inside) + Cardinality(Calling)
        /\ DepthBalanced' <=> depth' = Cardinality(Inside') + Cardinality(Calling')
    BY DEF DepthBalanced, Inside, Calling
  <1>1. /\ turn = NoOp /\ op[o].inside /\ Fits(op[o]) /\ o # NoOp
        /\ DOMAIN op' = Op /\ \A b \in Op \ {o} : op'[b] = op[b]
        /\ turn' \in {o, NoOp} /\ (~Gaps => turn' = o)
        /\ depth' = depth - 1 /\ call' = call
    BY DEF CallbackReturns, Settles, LoopFree, Lowered, Frames, callVars
  <1>2. /\ DOMAIN op'[o] = Fields /\ op'[o].inside = FALSE
        /\ op'[o].at = op[o].at /\ op'[o].back = op[o].back
    BY <1>1 DEF CallbackReturns, Frames, Fits, Fields
  <1>3. Frames'
    BY <1>1, <1>2 DEF Frames, Fits
  <1>4. DepthBalanced'
    <2>1. Inside' = Inside \ {o} /\ o \in Inside /\ Calling' = Calling
      BY <1>1, <1>2 DEF Inside, Calling
    <2>2. Cardinality(Inside') = Cardinality(Inside) - 1
      BY <2>1, Counted, FS_RemoveElement
    <2> QED
      BY <1>0, <1>1, <2>1, <2>2, Counted
  <1>5. ASSUME ~Gaps
        PROVE  Alone'
    <2>1. \A b \in Op : Batching(op'[b]) <=> Batching(op[b])
      BY <1>1, <1>2 DEF Batching
    <2>2. \A b \in Op : op'[b].at \in Callbacks \cup Batch => op'[b].inside \/ turn' = b
      BY <1>1, <1>5 DEF Alone
    <2> QED
      BY <1>5, <2>1, <2>2 DEF Alone
  <1> QED
    BY <1>3, <1>4, <1>5

\* A call begins or ends.
LEMMA CallsKeep ==
    ASSUME BatchInv, NEW k \in Call,
           CallEnds(k) \/ \E c \in 1 .. born, p \in PlugId : CallBegins(k, c, p)
    PROVE  BatchInv'
  <1> USE DEF BatchInv, DepthInv
  <1>0. /\ DepthBalanced <=> depth = Cardinality(Inside) + Cardinality(Calling)
        /\ DepthBalanced' <=> depth' = Cardinality(Inside') + Cardinality(Calling')
    BY DEF DepthBalanced, Inside, Calling
  <1>1. op' = op /\ turn' = turn
    BY DEF CallEnds, CallBegins
  <1>2. Inside' = Inside
    BY <1>1 DEF Inside
  <1>3. CASE CallEnds(k)
    <2>1. Calling' = Calling \ {k} /\ k \in Calling /\ depth' = depth - 1
      BY <1>3 DEF CallEnds, Calling, Frames
    <2>2. Cardinality(Calling') = Cardinality(Calling) - 1
      BY <2>1, Counted, FS_RemoveElement
    <2>3. DepthBalanced'
      BY <1>0, <1>2, <2>1, <2>2, Counted
    <2>4. Frames'
      BY <1>1, <1>3 DEF CallEnds, Frames
    <2> QED
      BY <1>1, <2>3, <2>4 DEF Alone
  <1>4. ASSUME NEW c \in 1 .. born, NEW p \in PlugId, CallBegins(k, c, p)
        PROVE  BatchInv'
    <2>1. Calling' = Calling \cup {k} /\ k \notin Calling /\ depth' = depth + 1
      BY <1>4 DEF CallBegins, Calling, Frames
    <2>2. Cardinality(Calling') = Cardinality(Calling) + 1
      BY <2>1, Counted, FS_AddElement
    <2>3. DepthBalanced'
      BY <1>0, <1>2, <2>1, <2>2, Counted
    <2>4. Frames'
      BY <1>1, <1>4 DEF CallBegins, Frames
    <2> QED
      BY <1>1, <2>3, <2>4 DEF Alone
  <1> QED
    BY <1>3, <1>4

-----------------------------------------------------------------------------
(* The invariant                                                           *)

LEMMA InitBatchInv == Init => BatchInv
  <1> SUFFICES ASSUME Init
               PROVE  BatchInv
    OBVIOUS
  <1>1. Frames
    BY DEF Init, Frames, Fits, Fields, Backs, Resting, Callbacks
  <1>2. Inside = {} /\ Calling = {} /\ depth = 0
    BY DEF Init, Inside, Calling, Resting
  <1>3. DepthBalanced
    <2>1. DepthBalanced <=> depth = Cardinality(Inside) + Cardinality(Calling)
      BY DEF DepthBalanced, Inside, Calling
    <2> QED
      BY <1>2, <2>1, FS_EmptySet
  <1>4. Alone
    BY DEF Init, Alone, Batching, Batch, Callbacks, Resting
  <1> QED
    BY <1>1, <1>3, <1>4 DEF BatchInv, DepthInv

LEMMA NextBatchInv == BatchInv /\ [Next]_vars => BatchInv'
  <1> SUFFICES ASSUME BatchInv, [Next]_vars
               PROVE  BatchInv'
    OBVIOUS
  <1>1. ASSUME NEW o \in Op, Asks(o)
        PROVE  BatchInv'
    BY <1>1, AsksMoves, OthersWait, MovesKeeps DEF BatchInv, DepthInv
  <1>2. ASSUME NEW o \in Op, Step(o)
        PROVE  BatchInv'
    <2>1. CASE Importing(o) \/ Starting(o) \/ RollingBack(o) \/ TakingDown(o)
      BY <2>1, ImportingMoves, StartingMoves, RollingBackMoves, TakingDownMoves,
         OthersWait, MovesKeeps
         DEF BatchInv, DepthInv
    <2>2. ASSUME NEW ok \in BOOLEAN, CallbackReturns(o, ok)
          PROVE  BatchInv'
      BY <2>2, ReturnsKeeps
    <2> QED
      BY <1>2, <2>1, <2>2 DEF Step, Importing, Starting, RollingBack, TakingDown
  <1>3. ASSUME UNCHANGED <<op, turn, call, depth>>
        PROVE  BatchInv'
    BY <1>3 DEF BatchInv, DepthInv, Frames, DepthBalanced, Alone
  <1>4. ASSUME NEW p \in PlugId, Add(p) \/ DeferUnload(p)
        PROVE  BatchInv'
    BY <1>3, <1>4 DEF Add, DeferUnload, callVars
  <1>5. CASE UNCHANGED vars
    BY <1>3, <1>5 DEF vars, hostVars, callVars
  <1> QED
    BY <1>1, <1>2, <1>4, <1>5, CallsKeep DEF Next

LEMMA Inductive == Spec => []BatchInv
  BY InitBatchInv, NextBatchInv, PTL DEF Spec

-----------------------------------------------------------------------------
(* Theorems                                                                *)

\* callbackDepth counts the callbacks and calls on the stack, whichever of them
\* return or throw and however operations overlap.
THEOREM DepthCounts == Spec => []DepthBalanced
  <1>1. BatchInv => DepthBalanced
    BY DEF BatchInv, DepthInv
  <1> QED
    BY <1>1, Inductive, PTL

\* Two startup batches never overlap, if nobody uses the rack between a callback's
\* return and its caller.
THEOREM BatchesDoNotOverlap ==
    ASSUME ~Gaps
    PROVE  Spec => []OneBatch
  <1>1. BatchInv => OneBatch
    <2> SUFFICES ASSUME BatchInv
                 PROVE  OneBatch
      OBVIOUS
    <2> DEFINE Batches == {o \in Op : op[o].at \in Batch}
    <2>1. OneBatch <=> Cardinality(Batches) <= 1
      BY DEF OneBatch
    <2>2. \A o, b \in Batches : o = b
      BY DEF BatchInv, Alone, Batching
    <2> HIDE DEF Batches
    <2>3. CASE Batches = {}
      BY <2>1, <2>3, FS_EmptySet
    <2>4. ASSUME NEW o \in Batches
          PROVE  OneBatch
      <3>1. Batches = {o}
        BY <2>2, <2>4
      <3>2. Cardinality({o}) = 1
        BY FS_Singleton
      <3> QED
        BY <2>1, <3>1, <3>2
    <2> QED
      BY <2>3, <2>4
  <1> QED
    BY <1>1, Inductive, PTL

HIDE RackHostAssumption

-----------------------------------------------------------------------------
(* Sequences                                                               *)

\* Removing the first of what occurs once at most.
LEMMA RemoveFirstIs ==
    ASSUME NEW S, NEW s \in Seq(S), NEW e,
           \A i, j \in DOMAIN s : s[i] = s[j] => i = j
    PROVE  /\ RemoveFirst(s, e) \in Seq(S)
           /\ \A i, j \in DOMAIN RemoveFirst(s, e) :
                RemoveFirst(s, e)[i] = RemoveFirst(s, e)[j] => i = j
           /\ \A x : Contains(RemoveFirst(s, e), x) <=> Contains(s, x) /\ x # e
  <1>1. CASE ~\E i \in 1 .. Len(s) : s[i] = e
    BY <1>1 DEF RemoveFirst, Contains
  <1>2. CASE \E i \in 1 .. Len(s) : s[i] = e
    <2>1. PICK k \in 1 .. Len(s) : s[k] = e
      BY <1>2
    <2> DEFINE t == SubSeq(s, 1, k - 1) \o SubSeq(s, k + 1, Len(s))
    <2>2. RemoveFirst(s, e) = t
      <3>1. {i \in 1 .. Len(s) : s[i] = e} = {k}
        BY <2>1
      <3>2. Min({k}) = k
        BY DEF Min
      <3>3. SelectInSeq(s, LAMBDA v : v = e) = k
        BY <3>1, <3>2 DEF SelectInSeq
      <3> QED
        BY <1>2, <3>3 DEF RemoveFirst, RemoveAt
    <2>3. /\ t \in Seq(S) /\ Len(t) = Len(s) - 1
          /\ \A i \in 1 .. Len(t) : t[i] = IF i < k THEN s[i] ELSE s[i + 1]
      <3> DEFINE a == SubSeq(s, 1, k - 1)
                 b == SubSeq(s, k + 1, Len(s))
      <3>1. a \in Seq(S) /\ Len(a) = k - 1 /\ \A i \in 1 .. k - 1 : a[i] = s[i]
        BY <2>1
      <3>2. b \in Seq(S) /\ Len(b) = Len(s) - k /\ \A i \in 1 .. Len(s) - k : b[i] = s[k + i]
        BY <2>1
      <3>3. t = a \o b
        OBVIOUS
      <3> HIDE DEF a, b, t
      <3>4. /\ t \in Seq(S) /\ Len(t) = Len(a) + Len(b)
            /\ \A i \in 1 .. Len(t) : t[i] = IF i <= Len(a) THEN a[i] ELSE b[i - Len(a)]
        <4>1. /\ a \o b \in Seq(S) /\ Len(a \o b) = Len(a) + Len(b)
              /\ \A i \in 1 .. Len(a) + Len(b) :
                   (a \o b)[i] = IF i <= Len(a) THEN a[i] ELSE b[i - Len(a)]
          BY <3>1, <3>2, ConcatProperties, ZenonT(30)
        <4> QED
          BY <3>3, <4>1, ZenonT(30)
      <3>5. ASSUME NEW i \in 1 .. Len(t)
            PROVE  t[i] = IF i < k THEN s[i] ELSE s[i + 1]
        <4>1. CASE i < k
          BY <2>1, <3>1, <3>4, <4>1
        <4>2. CASE i >= k
          <5>1. t[i] = b[i - (k - 1)] /\ i - (k - 1) \in 1 .. Len(s) - k
            BY <2>1, <3>1, <3>2, <3>4, <4>2
          <5>2. k + (i - (k - 1)) = i + 1
            BY <2>1
          <5> QED
            BY <3>2, <4>2, <5>1, <5>2
        <4> QED
          BY <4>1, <4>2
      <3> QED
        BY <2>1, <3>1, <3>2, <3>4, <3>5
    <2> HIDE DEF t
    <2>4. ASSUME NEW i \in 1 .. Len(t), NEW j \in 1 .. Len(t), t[i] = t[j]
          PROVE  i = j
      <3>1. PICK f \in 1 .. Len(s), g \in 1 .. Len(s) :
              /\ f = (IF i < k THEN i ELSE i + 1) /\ t[i] = s[f]
              /\ g = (IF j < k THEN j ELSE j + 1) /\ t[j] = s[g]
        BY <2>1, <2>3
      <3>2. DOMAIN s = 1 .. Len(s)
        OBVIOUS
      <3>3. f = g
        BY <2>4, <3>1, <3>2, Zenon
      <3> QED
        BY <3>1, <3>3
    <2>5. ASSUME NEW x, NEW i \in 1 .. Len(s), s[i] = x, x # e
          PROVE  \E j \in 1 .. Len(t) : t[j] = x
      <3>1. CASE i < k
        BY <2>1, <2>3, <2>5, <3>1
      <3>2. CASE i > k
        <4>1. i - 1 \in 1 .. Len(t) /\ t[i - 1] = s[i]
          BY <2>1, <2>3, <3>2
        <4> QED
          BY <2>5, <4>1
      <3> QED
        BY <2>1, <2>5, <3>1, <3>2
    <2>6. ASSUME NEW j \in 1 .. Len(t)
          PROVE  t[j] # e /\ \E i \in 1 .. Len(s) : s[i] = t[j]
      <3>1. PICK i \in 1 .. Len(s) : i = (IF j < k THEN j ELSE j + 1) /\ t[j] = s[i] /\ i # k
        BY <2>1, <2>3
      <3> QED
        BY <2>1, <3>1
    <2>7. \A x : Contains(t, x) <=> Contains(s, x) /\ x # e
      BY <2>5, <2>6 DEF Contains
    <2>8. DOMAIN t = 1 .. Len(t)
      BY <2>3
    <2> QED
      BY <2>2, <2>3, <2>4, <2>7, <2>8
  <1> QED
    BY <1>1, <1>2

-----------------------------------------------------------------------------
(* Types                                                                   *)

Kinds == {"boot", "start", "load", "unload", "reload", "poll", "shutdown"}
RackCallbacks == {"init", "start", "stop", "destroy"}

\* Where an operation has a plugin, a record, and a plan it is in the middle of.
WithId == {"capture", "import", "unload", "withdraw", "revoke", "stop", "unloaded"}
WithRec == Callbacks \ {"polldrain", "polldone"}
Undoing == {"undoInit", "undoStart"}

Locs == Callbacks \cup
    {"rest", "files", "capture", "import", "discard", "enter", "make", "nextInit", "undoInit",
     "discardRest", "nextStart", "undoStart", "unload", "unloaded", "next"}

\* An operation when there are n records.
Sorted(x, n) ==
    /\ DOMAIN x = Fields
    /\ x.kind \in Kinds \cup {"none"} /\ x.at \in Locs /\ x.inside \in BOOLEAN
    /\ x.status \in {"ok", "failed", "busy"} /\ x.gen \in Nat
    /\ x.id \in PlugId \cup {NoPlug} /\ x.rec \in 0 .. n
    /\ x.plan \in Seq(1 .. n) /\ x.pos \in Nat
    /\ x.bin \in Seq(1 .. n) /\ x.ids \in Seq(PlugId) /\ x.back \in Backs

Placed(x) ==
    /\ x.at \in WithId \/ (x.at = "destroy" /\ x.back = "unloaded") => x.id \in PlugId
    /\ x.at \in WithRec => x.rec # 0
    /\ x.at \in {"nextInit", "nextStart", "discardRest"} => x.pos \in 1 .. Len(x.plan) + 1
    /\ x.at = "destroy" /\ x.back = "discardRest" =>
            x.pos \in 2 .. Len(x.plan) + 1 /\ x.rec = x.plan[x.pos - 1]
    /\ x.at \in {"init", "start", "register", "drain"} =>
            x.pos \in 1 .. Len(x.plan) /\ x.rec = x.plan[x.pos]
    /\ x.at \in Undoing => x.pos \in 0 .. Len(x.plan)
    /\ x.at \in {"rbwithdraw", "rbstop", "destroy"} /\ x.back \in Undoing =>
            x.pos \in 0 .. Len(x.plan) - 1 /\ x.rec = x.plan[x.pos + 1]
    /\ x.at = "rbwithdraw" => x.back = "undoStart"
    /\ x.at = "rbstop" => x.back \in Undoing
    /\ x.at \in {"withdraw", "revoke", "stop"} => x.back = "unloaded"

Ground ==
    /\ born \in 0 .. MaxRec
    /\ plug \in [Rec -> PlugId \cup {NoPlug}] /\ \A r \in 1 .. born : plug[r] \in PlugId
    /\ st \in [Rec -> {"none", "created", "initialized", "active", "revoking",
                       "faulted", "destroyed"}]
    /\ gen \in [Rec -> 0 .. MaxGen] /\ nextGen \in 0 .. MaxGen
    /\ life \in [Rec -> Seq(RackCallbacks)]
    /\ inst \in [PlugId -> 0 .. born] /\ \A p \in PlugId : inst[p] # 0 => plug[inst[p]] = p
    /\ caps \in [PlugId -> 0 .. MaxGen] /\ closing \in BOOLEAN
    /\ deferred \in Seq(PlugId) /\ \A i, j \in DOMAIN deferred : deferred[i] = deferred[j] => i = j
    /\ staged \in Seq(PlugId) /\ asked \subseteq 1 .. born
    /\ turn \in Op \cup {NoOp}

\* A record serves one call at a time, and inFlight counts it.
Calls ==
    /\ call \in [Call -> 0 .. born] /\ caller \in [Call -> 0 .. born]
    /\ \A k, l \in Call : call[k] # 0 /\ call[k] = call[l] => k = l
    /\ inFlight \in [Rec -> Nat]
    /\ \A r \in Rec : inFlight[r] = IF \E k \in Call : call[k] = r THEN 1 ELSE 0

Ops == DOMAIN op = Op /\ \A o \in Op : Sorted(op[o], born) /\ Placed(op[o])




LEMMA AtTyped ==
    ASSUME Ops, NEW o \in Op, NEW l, At(o, l)
    PROVE  op[o].at = l /\ Sorted(op[o], born) /\ Placed(op[o])
  BY DEF At, Ops

LEMMA RunsOps ==
    ASSUME Ops, NEW o \in Op, NEW x, Runs(o, x), Sorted(x, born), Placed(x), born' = born
    PROVE  Ops'
  BY DEF Ops, Runs, Sorted

LEMMA AwaitsOps ==
    ASSUME Ops, NEW o \in Op, NEW x, NEW l \in Callbacks, NEW r \in 0 .. born, Awaits(o, x, l, r),
           Sorted(x, born), born' = born,
           \A y : y.at = l /\ y.rec = r /\ y.id = x.id /\ y.plan = x.plan /\ y.pos = x.pos
                  /\ y.back = x.back => Placed(y)
    PROVE  Ops'
  <1> DEFINE y == [x EXCEPT !.at = l, !.inside = TRUE, !.rec = r]
  <1>1. /\ DOMAIN y = Fields /\ y.at = l /\ y.inside = TRUE /\ y.rec = r
        /\ \A f \in Fields \ {"at", "inside", "rec"} : y[f] = x[f]
    BY DEF Sorted, Fields
  <1>2. op'[o] = y /\ DOMAIN op' = Op /\ \A b \in Op \ {o} : op'[b] = op[b]
    BY DEF Awaits, Ops
  <1> HIDE DEF y
  <1>3. Placed(y)
    <2>1. y.id = x.id /\ y.plan = x.plan /\ y.pos = x.pos /\ y.back = x.back
      BY <1>1 DEF Fields
    <2> QED
      BY <1>1, <2>1
  <1>4. Sorted(y, born)
    BY <1>1 DEF Sorted, Fields, Locs
  <1> QED
    BY <1>2, <1>3, <1>4 DEF Ops

LEMMA OverOps ==
    ASSUME Ops, NEW o \in Op, Over(o), born \in Nat, born' = born
    PROVE  Ops'
  <1>1. Sorted(Resting, born) /\ Placed(Resting)
    BY DEF Resting, Sorted, Placed, Fields, Locs, Callbacks, Backs, Kinds, WithId, WithRec, Undoing
  <1>2. op'[o] = Resting /\ DOMAIN op' = Op /\ \A b \in Op \ {o} : op'[b] = op[b]
    BY DEF Over, Ops
  <1> QED
    BY <1>1, <1>2 DEF Ops

LEMMA PlannedIs ==
    ASSUME NEW x, NEW n \in Nat, Sorted(x, n), x.pos # 0, x.pos <= Len(x.plan)
    PROVE  /\ x.pos \in 1 .. Len(x.plan) /\ x.plan[x.pos] \in 1 .. n
           /\ x.pos - 1 \in Nat /\ x.pos + 1 \in Nat
  <1>1. x.plan \in Seq(1 .. n) /\ x.pos \in Nat
    BY DEF Sorted
  <1>2. Len(x.plan) \in Nat /\ \A i \in 1 .. Len(x.plan) : x.plan[i] \in 1 .. n
    BY <1>1
  <1> QED
    BY <1>1, <1>2

LEMMA TailIs ==
    ASSUME NEW S, NEW s \in Seq(S), s # <<>>
    PROVE  Head(s) \in S /\ Tail(s) \in Seq(S)
  OBVIOUS

LEMMA NextFileOps ==
    ASSUME Ground, Ops, NEW o \in Op, NextFile(o)
    PROVE  Ops'
  <1>1. op[o].at = "files" /\ Sorted(op[o], born) /\ Placed(op[o])
    BY AtTyped DEF NextFile
  <1>2. born' = born /\ born \in Nat
    BY DEF NextFile, Ground, recVars, hostVars
  <1>3. ASSUME NEW x, x = [op[o] EXCEPT !.at = "enter"], Runs(o, x)
        PROVE  Ops'
    <2>1. Sorted(x, born)
      BY <1>1, <1>3 DEF Sorted, Fields, Locs, Callbacks, Backs
    <2>2. Placed(x)
      BY <1>1, <1>3 DEF Sorted, Fields, Placed, WithId, WithRec, Undoing, Callbacks, Backs
    <2> QED
      BY <1>2, <1>3, <2>1, <2>2, RunsOps
  <1>4. ASSUME NEW x, x = [op[o] EXCEPT !.at = "capture", !.id = Head(op[o].ids), !.ids = Tail(op[o].ids)], Runs(o, x), op[o].ids # <<>>
        PROVE  Ops'
    <2>1. Sorted(x, born)
      BY <1>1, <1>4 DEF Sorted, Fields, Locs, Callbacks, Backs
    <2>2. Placed(x)
      BY <1>1, <1>4 DEF Sorted, Fields, Placed, WithId, WithRec, Undoing, Callbacks, Backs
    <2> QED
      BY <1>2, <1>4, <2>1, <2>2, RunsOps
  <1> QED
    BY <1>1, <1>3, <1>4 DEF NextFile, GoOn, Copied, Ground

LEMMA CaptureOps ==
    ASSUME Ground, Ops, NEW o \in Op, Capture(o)
    PROVE  Ops'
  <1>1. op[o].at = "capture" /\ Sorted(op[o], born) /\ Placed(op[o])
    BY AtTyped DEF Capture
  <1>2. born' = born /\ born \in Nat
    BY DEF Capture, Ground, recVars, hostVars
  <1>3. ASSUME NEW x, x = [op[o] EXCEPT !.at = "import", !.gen = nextGen + 1], op' = [op EXCEPT ![o] = x] /\ turn' = NoOp, nextGen \in Nat
        PROVE  Ops'
    <2>1. Sorted(x, born)
      BY <1>1, <1>3 DEF Sorted, Fields, Locs, Callbacks, Backs
    <2>2. Placed(x)
      BY <1>1, <1>3 DEF Sorted, Fields, Placed, WithId, WithRec, Undoing, Callbacks, Backs
    <2> QED
      BY <1>2, <1>3, <2>1, <2>2, RunsOps DEF Ops, Sorted
  <1>4. nextGen \in Nat
    BY DEF Ground
  <1>5. op' = [op EXCEPT ![o] = [op[o] EXCEPT !.at = "import", !.gen = nextGen + 1]] /\ turn' = NoOp
    BY DEF Capture, Ops
  <1> QED
    BY <1>3, <1>4, <1>5

LEMMA DiscardOps ==
    ASSUME Ground, Ops, NEW o \in Op, Discard(o)
    PROVE  Ops'
  <1>1. op[o].at = "discard" /\ Sorted(op[o], born) /\ Placed(op[o])
    BY AtTyped DEF Discard
  <1>2. born' = born /\ born \in Nat
    BY DEF Discard, Ground, recVars, hostVars
  <1>3. CASE Over(o)
    BY <1>2, <1>3, OverOps
  <1>4. ASSUME NEW x, NEW r, x = [op[o] EXCEPT !.bin = Tail(@), !.back = "discard"], Awaits(o, x, "destroy", r), r = Head(op[o].bin), op[o].bin # <<>>
        PROVE  Ops'
    <2>0. Tail(op[o].bin) \in Seq(1 .. born) /\ Head(op[o].bin) \in 1 .. born
      BY <1>1, <1>4, TailIs DEF Sorted
    <2>1. Sorted(x, born)
      BY <2>0, <1>1, <1>4 DEF Sorted, Fields, Locs, Callbacks, Backs
    <2>2. r \in 0 .. born /\ x.at = op[o].at
      BY <1>1, <1>2, <1>4 DEF Sorted, Fields, Placed, WithRec, Callbacks, Planned
    <2>3. ASSUME NEW y, y.at = "destroy", y.rec = r, y.id = x.id, y.plan = x.plan, y.pos = x.pos,
                 y.back = x.back
          PROVE  Placed(y)
      <3>1. x.id = op[o].id /\ x.plan = op[o].plan /\ x.pos = op[o].pos /\ x.back = "discard"
        BY <1>1, <1>4 DEF Sorted, Fields
      <3> QED
        BY <1>1, <1>2, <1>4, <2>3, <3>1
           DEF Sorted, Placed, WithId, WithRec, Undoing, Callbacks, Planned
    <2>4. "destroy" \in Callbacks
      BY DEF Callbacks
    <2> QED
      BY <1>2, <1>4, <2>1, <2>2, <2>3, <2>4, AwaitsOps
  <1> QED
    BY <1>1, <1>3, <1>4 DEF Discard, GoOn, Copied, Ground

LEMMA EnterRefusedOps ==
    ASSUME Ground, Ops, NEW o \in Op, EnterRefused(o)
    PROVE  Ops'
  <1>1. op[o].at = "enter" /\ Sorted(op[o], born) /\ Placed(op[o])
    BY AtTyped DEF EnterRefused
  <1>2. born' = born /\ born \in Nat
    BY DEF EnterRefused, Ground, recVars, hostVars
  <1>3. CASE Over(o)
    BY <1>2, <1>3, OverOps
  <1> QED
    BY <1>1, <1>3 DEF EnterRefused, GoOn, Copied, Ground

LEMMA EnterOps ==
    ASSUME Ground, Ops, NEW o \in Op, Enter(o)
    PROVE  Ops'
  <1>1. op[o].at = "enter" /\ Sorted(op[o], born) /\ Placed(op[o])
    BY AtTyped DEF Enter
  <1>2. born' = born /\ born \in Nat
    BY DEF Enter, Ground, recVars, hostVars
  <1>3. ASSUME NEW x, x = [op[o] EXCEPT !.at = "make", !.ids = staged, !.bin = <<>>], Runs(o, x), staged \in Seq(PlugId)
        PROVE  Ops'
    <2>1. Sorted(x, born)
      BY <1>1, <1>3 DEF Sorted, Fields, Locs, Callbacks, Backs
    <2>2. Placed(x)
      BY <1>1, <1>3 DEF Sorted, Fields, Placed, WithId, WithRec, Undoing, Callbacks, Backs
    <2> QED
      BY <1>2, <1>3, <2>1, <2>2, RunsOps
  <1> QED
    BY <1>1, <1>3 DEF Enter, GoOn, Copied, Ground

LEMMA MakeFailsOps ==
    ASSUME Ground, Ops, NEW o \in Op, MakeFails(o)
    PROVE  Ops'
  <1>1. op[o].at = "make" /\ Sorted(op[o], born) /\ Placed(op[o])
    BY AtTyped DEF MakeFails
  <1>2. born' = born /\ born \in Nat
    BY DEF MakeFails, Ground, recVars, hostVars
  <1>3. ASSUME NEW x, x = [op[o] EXCEPT !.at = "discard"], Runs(o, x)
        PROVE  Ops'
    <2>1. Sorted(x, born)
      BY <1>1, <1>3 DEF Sorted, Fields, Locs, Callbacks, Backs
    <2>2. Placed(x)
      BY <1>1, <1>3 DEF Sorted, Fields, Placed, WithId, WithRec, Undoing, Callbacks, Backs
    <2> QED
      BY <1>2, <1>3, <2>1, <2>2, RunsOps
  <1> QED
    BY <1>1, <1>3 DEF MakeFails, GoOn, Copied, Ground

LEMMA NextInitOps ==
    ASSUME Ground, Ops, NEW o \in Op, NextInit(o)
    PROVE  Ops'
  <1>1. op[o].at = "nextInit" /\ Sorted(op[o], born) /\ Placed(op[o])
    BY AtTyped DEF NextInit
  <1>2. born' = born /\ born \in Nat
    BY DEF NextInit, Ground, recVars, hostVars
  <1>0. op[o].pos \in 1 .. Len(op[o].plan) + 1 /\ Len(op[o].plan) \in Nat
    BY <1>1 DEF Placed, Sorted
  <1>3. ASSUME NEW x, x = [op[o] EXCEPT !.at = "nextStart", !.pos = 1], Runs(o, x)
        PROVE  Ops'
    <2>1. Sorted(x, born)
      BY <1>1, <1>3 DEF Sorted, Fields, Locs, Callbacks, Backs
    <2>2. Placed(x)
      BY <1>1, <1>3 DEF Sorted, Fields, Placed, WithId, WithRec, Undoing, Callbacks, Backs
    <2> QED
      BY <1>2, <1>3, <2>1, <2>2, RunsOps
  <1>4. ASSUME NEW x, NEW r, x = op[o], Awaits(o, x, "init", r), r = Planned(o), op[o].pos <= Len(op[o].plan)
        PROVE  Ops'
    <2>0. /\ op[o].pos \in 1 .. Len(op[o].plan) /\ op[o].plan[op[o].pos] \in 1 .. born
          /\ Planned(o) = op[o].plan[op[o].pos] /\ op[o].pos - 1 \in Nat /\ op[o].pos + 1 \in Nat
      <3>1. op[o].pos # 0 /\ op[o].pos <= Len(op[o].plan)
        BY <1>0, <1>4
      <3> QED
        BY <1>1, <1>2, <3>1, PlannedIs DEF Planned
    <2>1. Sorted(x, born)
      BY <2>0, <1>1, <1>4 DEF Sorted, Fields, Locs, Callbacks, Backs
    <2>2. r \in 0 .. born
      <3>1. r = op[o].plan[op[o].pos]
        BY <2>0, <1>4
      <3>2. op[o].plan[op[o].pos] \in 0 .. born
        BY <2>0, <1>2
      <3> QED
        BY <3>1, <3>2
    <2>3. ASSUME NEW y, y.at = "init", y.rec = r, y.id = x.id, y.plan = x.plan, y.pos = x.pos,
                 y.back = x.back
          PROVE  Placed(y)
      <3>1. x.id = op[o].id /\ x.plan = op[o].plan /\ x.pos = op[o].pos /\ x.back = op[o].back
        BY <1>1, <1>4 DEF Sorted, Fields
      <3> QED
        BY <2>0, <1>1, <1>2, <1>4, <2>3, <3>1, SMTT(20)
           DEF Sorted, Placed, WithId, WithRec, Undoing, Callbacks, Planned
    <2>4. "init" \in Callbacks
      BY DEF Callbacks
    <2> QED
      BY <1>2, <1>4, <2>1, <2>2, <2>3, <2>4, AwaitsOps
  <1> QED
    BY <1>1, <1>3, <1>4 DEF NextInit, GoOn, Copied, Ground, Sorted

LEMMA InitEndsOps ==
    ASSUME Ground, Ops, NEW o \in Op, InitEnds(o)
    PROVE  Ops'
  <1>1. op[o].at = "init" /\ Sorted(op[o], born) /\ Placed(op[o])
    BY AtTyped DEF InitEnds
  <1>2. born' = born /\ born \in Nat
    BY DEF InitEnds, Ground, recVars, hostVars
  <1>3. ASSUME NEW x, x = [op[o] EXCEPT !.at = "nextInit", !.pos = @ + 1], Runs(o, x)
        PROVE  Ops'
    <2>1. Sorted(x, born)
      BY <1>1, <1>3 DEF Sorted, Fields, Locs, Callbacks, Backs
    <2>2. Placed(x)
      BY <1>1, <1>3 DEF Sorted, Fields, Placed, WithId, WithRec, Undoing, Callbacks, Backs
    <2> QED
      BY <1>2, <1>3, <2>1, <2>2, RunsOps
  <1>4. ASSUME NEW x, x = [op[o] EXCEPT !.at = "undoInit", !.pos = @ - 1], Runs(o, x)
        PROVE  Ops'
    <2>0. op[o].pos - 1 \in Nat /\ op[o].pos - 1 <= Len(op[o].plan)
      BY <1>1 DEF Sorted, Placed
    <2>1. Sorted(x, born)
      BY <2>0, <1>1, <1>4 DEF Sorted, Fields, Locs, Callbacks, Backs
    <2>2. Placed(x)
      BY <1>1, <1>4 DEF Sorted, Fields, Placed, WithId, WithRec, Undoing, Callbacks, Backs
    <2> QED
      BY <1>2, <1>4, <2>1, <2>2, RunsOps
  <1> QED
    BY <1>1, <1>3, <1>4 DEF InitEnds, GoOn, Copied, Ground

LEMMA UndoInitOps ==
    ASSUME Ground, Ops, NEW o \in Op, UndoInit(o)
    PROVE  Ops'
  <1>1. op[o].at = "undoInit" /\ Sorted(op[o], born) /\ Placed(op[o])
    BY AtTyped DEF UndoInit
  <1>2. born' = born /\ born \in Nat
    BY DEF UndoInit, Ground, recVars, hostVars
  <1>0. op[o].pos \in 0 .. Len(op[o].plan) /\ Len(op[o].plan) \in Nat
    BY <1>1 DEF Placed, Sorted, Undoing
  <1>3. ASSUME NEW x, x = [op[o] EXCEPT !.at = "discardRest", !.pos = 1], Runs(o, x)
        PROVE  Ops'
    <2>1. Sorted(x, born)
      BY <1>1, <1>3 DEF Sorted, Fields, Locs, Callbacks, Backs
    <2>2. Placed(x)
      BY <1>1, <1>3 DEF Sorted, Fields, Placed, WithId, WithRec, Undoing, Callbacks, Backs
    <2> QED
      BY <1>2, <1>3, <2>1, <2>2, RunsOps
  <1>4. ASSUME NEW x, NEW r, x = [op[o] EXCEPT !.pos = @ - 1, !.back = "undoInit"], Awaits(o, x, "rbstop", r), r = Planned(o), op[o].pos # 0
        PROVE  Ops'
    <2>0. /\ op[o].pos \in 1 .. Len(op[o].plan) /\ op[o].plan[op[o].pos] \in 1 .. born
          /\ Planned(o) = op[o].plan[op[o].pos] /\ op[o].pos - 1 \in Nat /\ op[o].pos + 1 \in Nat
      <3>1. op[o].pos # 0 /\ op[o].pos <= Len(op[o].plan)
        BY <1>0, <1>4
      <3> QED
        BY <1>1, <1>2, <3>1, PlannedIs DEF Planned
    <2>1. Sorted(x, born)
      BY <2>0, <1>1, <1>4 DEF Sorted, Fields, Locs, Callbacks, Backs
    <2>2. r \in 0 .. born
      <3>1. r = op[o].plan[op[o].pos]
        BY <2>0, <1>4
      <3>2. op[o].plan[op[o].pos] \in 0 .. born
        BY <2>0, <1>2
      <3> QED
        BY <3>1, <3>2
    <2>3. ASSUME NEW y, y.at = "rbstop", y.rec = r, y.id = x.id, y.plan = x.plan, y.pos = x.pos,
                 y.back = x.back
          PROVE  Placed(y)
      <3>1. x.id = op[o].id /\ x.plan = op[o].plan /\ x.pos = op[o].pos - 1 /\ x.back = "undoInit"
        BY <1>1, <1>4 DEF Sorted, Fields
      <3>2. y.pos + 1 = op[o].pos /\ y.rec = y.plan[y.pos + 1] /\ y.plan = op[o].plan
        BY <2>0, <1>4, <2>3, <3>1
      <3>3. y.pos \in 0 .. Len(y.plan) - 1 /\ y.rec # 0
        <4>1. Len(y.plan) \in Nat /\ y.pos \in Nat
          BY <1>0, <2>0, <2>3, <3>1, <3>2
        <4> QED
          BY <1>0, <2>0, <2>3, <3>1, <3>2, <4>1, SMTT(20)
      <3>4. y.back = "undoInit"
        BY <2>3, <3>1
      <3> QED
        BY <2>3, <3>2, <3>3, <3>4
           DEF Sorted, Placed, WithId, WithRec, Undoing, Callbacks, Planned
    <2>4. "rbstop" \in Callbacks
      BY DEF Callbacks
    <2> QED
      BY <1>2, <1>4, <2>1, <2>2, <2>3, <2>4, AwaitsOps
  <1> QED
    BY <1>1, <1>3, <1>4 DEF UndoInit, GoOn, Copied, Ground

LEMMA DiscardRestOps ==
    ASSUME Ground, Ops, NEW o \in Op, DiscardRest(o)
    PROVE  Ops'
  <1>1. op[o].at = "discardRest" /\ Sorted(op[o], born) /\ Placed(op[o])
    BY AtTyped DEF DiscardRest
  <1>2. born' = born /\ born \in Nat
    BY DEF DiscardRest, Ground, recVars, hostVars
  <1>0. op[o].pos \in 1 .. Len(op[o].plan) + 1 /\ Len(op[o].plan) \in Nat
    BY <1>1 DEF Placed, Sorted
  <1>3. CASE Over(o)
    BY <1>2, <1>3, OverOps
  <1>4. ASSUME NEW x, NEW r, x = [op[o] EXCEPT !.pos = @ + 1, !.back = "discardRest"], Awaits(o, x, "destroy", r), r = Planned(o), op[o].pos <= Len(op[o].plan)
        PROVE  Ops'
    <2>0. /\ op[o].pos \in 1 .. Len(op[o].plan) /\ op[o].plan[op[o].pos] \in 1 .. born
          /\ Planned(o) = op[o].plan[op[o].pos] /\ op[o].pos - 1 \in Nat /\ op[o].pos + 1 \in Nat
      <3>1. op[o].pos # 0 /\ op[o].pos <= Len(op[o].plan)
        BY <1>0, <1>4
      <3> QED
        BY <1>1, <1>2, <3>1, PlannedIs DEF Planned
    <2>1. Sorted(x, born)
      BY <2>0, <1>1, <1>4 DEF Sorted, Fields, Locs, Callbacks, Backs
    <2>2. r \in 0 .. born
      <3>1. r = op[o].plan[op[o].pos]
        BY <2>0, <1>4
      <3>2. op[o].plan[op[o].pos] \in 0 .. born
        BY <2>0, <1>2
      <3> QED
        BY <3>1, <3>2
    <2>3. ASSUME NEW y, y.at = "destroy", y.rec = r, y.id = x.id, y.plan = x.plan, y.pos = x.pos,
                 y.back = x.back
          PROVE  Placed(y)
      <3>1. x.id = op[o].id /\ x.plan = op[o].plan /\ x.pos = op[o].pos + 1 /\ x.back = "discardRest"
        BY <1>1, <1>4 DEF Sorted, Fields
      <3>2. y.pos - 1 = op[o].pos /\ y.rec = y.plan[y.pos - 1] /\ y.plan = op[o].plan
        BY <2>0, <1>4, <2>3, <3>1
      <3>3. y.pos \in 2 .. Len(y.plan) + 1 /\ y.rec # 0
        <4>1. Len(y.plan) \in Nat /\ y.pos \in Nat
          BY <1>0, <2>0, <2>3, <3>1, <3>2
        <4> QED
          BY <1>0, <2>0, <2>3, <3>1, <3>2, <4>1, SMTT(20)
      <3>4. y.back = "discardRest"
        BY <2>3, <3>1
      <3> QED
        BY <2>3, <3>2, <3>3, <3>4
           DEF Sorted, Placed, WithId, WithRec, Undoing, Callbacks, Planned
    <2>4. "destroy" \in Callbacks
      BY DEF Callbacks
    <2> QED
      BY <1>2, <1>4, <2>1, <2>2, <2>3, <2>4, AwaitsOps
  <1>5. ASSUME NEW x, x = [op[o] EXCEPT !.pos = @ + 1], Runs(o, x), op[o].pos <= Len(op[o].plan)
        PROVE  Ops'
    <2>1. Sorted(x, born)
      BY <1>1, <1>5 DEF Sorted, Fields, Locs, Callbacks, Backs
    <2>2. Placed(x)
      BY <1>1, <1>5, SMTT(20) DEF Sorted, Fields, Placed, WithId, WithRec, Undoing, Callbacks, Backs
    <2> QED
      BY <1>2, <1>5, <2>1, <2>2, RunsOps
  <1> QED
    BY <1>1, <1>3, <1>4, <1>5, SMTT(20) DEF DiscardRest, GoOn, Copied, Ground, Sorted

LEMMA NextStartOps ==
    ASSUME Ground, Ops, NEW o \in Op, NextStart(o)
    PROVE  Ops'
  <1>1. op[o].at = "nextStart" /\ Sorted(op[o], born) /\ Placed(op[o])
    BY AtTyped DEF NextStart
  <1>2. born' = born /\ born \in Nat
    BY DEF NextStart, Ground, recVars, hostVars
  <1>0. op[o].pos \in 1 .. Len(op[o].plan) + 1 /\ Len(op[o].plan) \in Nat
    BY <1>1 DEF Placed, Sorted
  <1>3. CASE Over(o)
    BY <1>2, <1>3, OverOps
  <1>4. ASSUME NEW x, NEW r, x = op[o], Awaits(o, x, "start", r), r = Planned(o), op[o].pos <= Len(op[o].plan)
        PROVE  Ops'
    <2>0. /\ op[o].pos \in 1 .. Len(op[o].plan) /\ op[o].plan[op[o].pos] \in 1 .. born
          /\ Planned(o) = op[o].plan[op[o].pos] /\ op[o].pos - 1 \in Nat /\ op[o].pos + 1 \in Nat
      <3>1. op[o].pos # 0 /\ op[o].pos <= Len(op[o].plan)
        BY <1>0, <1>4
      <3> QED
        BY <1>1, <1>2, <3>1, PlannedIs DEF Planned
    <2>1. Sorted(x, born)
      BY <2>0, <1>1, <1>4 DEF Sorted, Fields, Locs, Callbacks, Backs
    <2>2. r \in 0 .. born
      <3>1. r = op[o].plan[op[o].pos]
        BY <2>0, <1>4
      <3>2. op[o].plan[op[o].pos] \in 0 .. born
        BY <2>0, <1>2
      <3> QED
        BY <3>1, <3>2
    <2>3. ASSUME NEW y, y.at = "start", y.rec = r, y.id = x.id, y.plan = x.plan, y.pos = x.pos,
                 y.back = x.back
          PROVE  Placed(y)
      <3>1. x.id = op[o].id /\ x.plan = op[o].plan /\ x.pos = op[o].pos /\ x.back = op[o].back
        BY <1>1, <1>4 DEF Sorted, Fields
      <3> QED
        BY <2>0, <1>1, <1>2, <1>4, <2>3, <3>1, SMTT(20)
           DEF Sorted, Placed, WithId, WithRec, Undoing, Callbacks, Planned
    <2>4. "start" \in Callbacks
      BY DEF Callbacks
    <2> QED
      BY <1>2, <1>4, <2>1, <2>2, <2>3, <2>4, AwaitsOps
  <1> QED
    BY <1>1, <1>3, <1>4 DEF NextStart, GoOn, Copied, Ground, Sorted

LEMMA StartEndsOps ==
    ASSUME Ground, Ops, NEW o \in Op, StartEnds(o)
    PROVE  Ops'
  <1>1. op[o].at = "start" /\ Sorted(op[o], born) /\ Placed(op[o])
    BY AtTyped DEF StartEnds
  <1>2. born' = born /\ born \in Nat
    BY DEF StartEnds, Ground, recVars, hostVars
  <1>3. ASSUME NEW x, NEW r, x = op[o], Awaits(o, x, "drain", r), r = op[o].rec
        PROVE  Ops'
    <2>1. Sorted(x, born)
      BY <1>1, <1>3 DEF Sorted, Fields, Locs, Callbacks, Backs
    <2>2. r \in 0 .. born /\ x.at = op[o].at
      BY <1>1, <1>2, <1>3 DEF Sorted, Fields, Placed, WithRec, Callbacks, Planned
    <2>3. ASSUME NEW y, y.at = "drain", y.rec = r, y.id = x.id, y.plan = x.plan, y.pos = x.pos,
                 y.back = x.back
          PROVE  Placed(y)
      <3>1. x.id = op[o].id /\ x.plan = op[o].plan /\ x.pos = op[o].pos /\ x.back = op[o].back
        BY <1>1, <1>3 DEF Sorted, Fields
      <3> QED
        BY <1>1, <1>2, <1>3, <2>3, <3>1
           DEF Sorted, Placed, WithId, WithRec, Undoing, Callbacks, Planned
    <2>4. "drain" \in Callbacks
      BY DEF Callbacks
    <2> QED
      BY <1>2, <1>3, <2>1, <2>2, <2>3, <2>4, AwaitsOps
  <1>4. ASSUME NEW x, NEW r, x = op[o], Awaits(o, x, "register", r), r = op[o].rec
        PROVE  Ops'
    <2>1. Sorted(x, born)
      BY <1>1, <1>4 DEF Sorted, Fields, Locs, Callbacks, Backs
    <2>2. r \in 0 .. born /\ x.at = op[o].at
      BY <1>1, <1>2, <1>4 DEF Sorted, Fields, Placed, WithRec, Callbacks, Planned
    <2>3. ASSUME NEW y, y.at = "register", y.rec = r, y.id = x.id, y.plan = x.plan, y.pos = x.pos,
                 y.back = x.back
          PROVE  Placed(y)
      <3>1. x.id = op[o].id /\ x.plan = op[o].plan /\ x.pos = op[o].pos /\ x.back = op[o].back
        BY <1>1, <1>4 DEF Sorted, Fields
      <3> QED
        BY <1>1, <1>2, <1>4, <2>3, <3>1
           DEF Sorted, Placed, WithId, WithRec, Undoing, Callbacks, Planned
    <2>4. "register" \in Callbacks
      BY DEF Callbacks
    <2> QED
      BY <1>2, <1>4, <2>1, <2>2, <2>3, <2>4, AwaitsOps
  <1>5. ASSUME NEW x, NEW r, x = [op[o] EXCEPT !.status = "failed"], Awaits(o, x, "register", r), r = op[o].rec
        PROVE  Ops'
    <2>1. Sorted(x, born)
      BY <1>1, <1>5 DEF Sorted, Fields, Locs, Callbacks, Backs
    <2>2. r \in 0 .. born /\ x.at = op[o].at
      BY <1>1, <1>2, <1>5 DEF Sorted, Fields, Placed, WithRec, Callbacks, Planned
    <2>3. ASSUME NEW y, y.at = "register", y.rec = r, y.id = x.id, y.plan = x.plan, y.pos = x.pos,
                 y.back = x.back
          PROVE  Placed(y)
      <3>1. x.id = op[o].id /\ x.plan = op[o].plan /\ x.pos = op[o].pos /\ x.back = op[o].back
        BY <1>1, <1>5 DEF Sorted, Fields
      <3> QED
        BY <1>1, <1>2, <1>5, <2>3, <3>1
           DEF Sorted, Placed, WithId, WithRec, Undoing, Callbacks, Planned
    <2>4. "register" \in Callbacks
      BY DEF Callbacks
    <2> QED
      BY <1>2, <1>5, <2>1, <2>2, <2>3, <2>4, AwaitsOps
  <1>6. ASSUME NEW x, x = [op[o] EXCEPT !.at = "undoStart", !.pos = Len(op[o].plan)], Runs(o, x)
        PROVE  Ops'
    <2>1. Sorted(x, born)
      BY <1>1, <1>6 DEF Sorted, Fields, Locs, Callbacks, Backs
    <2>2. Placed(x)
      BY <1>1, <1>6 DEF Sorted, Fields, Placed, WithId, WithRec, Undoing, Callbacks, Backs
    <2> QED
      BY <1>2, <1>6, <2>1, <2>2, RunsOps
  <1> QED
    BY <1>1, <1>3, <1>4, <1>5, <1>6 DEF StartEnds, GoOn, Copied, Ground

LEMMA RegisterEndsOps ==
    ASSUME Ground, Ops, NEW o \in Op, RegisterEnds(o)
    PROVE  Ops'
  <1>1. op[o].at = "register" /\ Sorted(op[o], born) /\ Placed(op[o])
    BY AtTyped DEF RegisterEnds
  <1>2. born' = born /\ born \in Nat
    BY DEF RegisterEnds, Ground, recVars, hostVars
  <1>3. ASSUME NEW x, NEW r, x = op[o], Awaits(o, x, "drain", r), r = op[o].rec
        PROVE  Ops'
    <2>1. Sorted(x, born)
      BY <1>1, <1>3 DEF Sorted, Fields, Locs, Callbacks, Backs
    <2>2. r \in 0 .. born /\ x.at = op[o].at
      BY <1>1, <1>2, <1>3 DEF Sorted, Fields, Placed, WithRec, Callbacks, Planned
    <2>3. ASSUME NEW y, y.at = "drain", y.rec = r, y.id = x.id, y.plan = x.plan, y.pos = x.pos,
                 y.back = x.back
          PROVE  Placed(y)
      <3>1. x.id = op[o].id /\ x.plan = op[o].plan /\ x.pos = op[o].pos /\ x.back = op[o].back
        BY <1>1, <1>3 DEF Sorted, Fields
      <3> QED
        BY <1>1, <1>2, <1>3, <2>3, <3>1
           DEF Sorted, Placed, WithId, WithRec, Undoing, Callbacks, Planned
    <2>4. "drain" \in Callbacks
      BY DEF Callbacks
    <2> QED
      BY <1>2, <1>3, <2>1, <2>2, <2>3, <2>4, AwaitsOps
  <1>4. ASSUME NEW x, x = [op[o] EXCEPT !.at = "undoStart", !.pos = Len(op[o].plan)], Runs(o, x)
        PROVE  Ops'
    <2>1. Sorted(x, born)
      BY <1>1, <1>4 DEF Sorted, Fields, Locs, Callbacks, Backs
    <2>2. Placed(x)
      BY <1>1, <1>4 DEF Sorted, Fields, Placed, WithId, WithRec, Undoing, Callbacks, Backs
    <2> QED
      BY <1>2, <1>4, <2>1, <2>2, RunsOps
  <1> QED
    BY <1>1, <1>3, <1>4 DEF RegisterEnds, GoOn, Copied, Ground

LEMMA DrainEndsOps ==
    ASSUME Ground, Ops, NEW o \in Op, DrainEnds(o)
    PROVE  Ops'
  <1>1. op[o].at = "drain" /\ Sorted(op[o], born) /\ Placed(op[o])
    BY AtTyped DEF DrainEnds
  <1>2. born' = born /\ born \in Nat
    BY DEF DrainEnds, Ground, recVars, hostVars
  <1>3. ASSUME NEW x, x = [op[o] EXCEPT !.at = "nextStart", !.pos = @ + 1], Runs(o, x)
        PROVE  Ops'
    <2>1. Sorted(x, born)
      BY <1>1, <1>3 DEF Sorted, Fields, Locs, Callbacks, Backs
    <2>2. Placed(x)
      BY <1>1, <1>3 DEF Sorted, Fields, Placed, WithId, WithRec, Undoing, Callbacks, Backs
    <2> QED
      BY <1>2, <1>3, <2>1, <2>2, RunsOps
  <1> QED
    BY <1>1, <1>3 DEF DrainEnds, GoOn, Copied, Ground

LEMMA UndoStartOps ==
    ASSUME Ground, Ops, NEW o \in Op, UndoStart(o)
    PROVE  Ops'
  <1>1. op[o].at = "undoStart" /\ Sorted(op[o], born) /\ Placed(op[o])
    BY AtTyped DEF UndoStart
  <1>2. born' = born /\ born \in Nat
    BY DEF UndoStart, Ground, recVars, hostVars
  <1>0. op[o].pos \in 0 .. Len(op[o].plan) /\ Len(op[o].plan) \in Nat
    BY <1>1 DEF Placed, Sorted, Undoing
  <1>3. CASE Over(o)
    BY <1>2, <1>3, OverOps
  <1>4. ASSUME NEW x, x = [op[o] EXCEPT !.pos = @ - 1, !.back = "undoStart"], Runs(o, x), op[o].pos > 0
        PROVE  Ops'
    <2>0. /\ op[o].pos \in 1 .. Len(op[o].plan) /\ op[o].plan[op[o].pos] \in 1 .. born
          /\ Planned(o) = op[o].plan[op[o].pos] /\ op[o].pos - 1 \in Nat /\ op[o].pos + 1 \in Nat
      <3>1. op[o].pos # 0 /\ op[o].pos <= Len(op[o].plan)
        BY <1>0, <1>4
      <3> QED
        BY <1>1, <1>2, <3>1, PlannedIs DEF Planned
    <2>1. Sorted(x, born)
      BY <2>0, <1>1, <1>4 DEF Sorted, Fields, Locs, Callbacks, Backs
    <2>2. Placed(x)
      <3>1. x.at = "undoStart" /\ x.pos = op[o].pos - 1 /\ x.plan = op[o].plan
        BY <1>1, <1>4 DEF Sorted, Fields
      <3>2. x.pos \in 0 .. Len(x.plan)
        BY <1>0, <2>0, <3>1
      <3> QED
        BY <3>1, <3>2 DEF Placed, WithId, WithRec, Undoing, Callbacks
    <2> QED
      BY <1>2, <1>4, <2>1, <2>2, RunsOps
  <1>5. ASSUME NEW x, NEW r, x = [op[o] EXCEPT !.pos = @ - 1, !.back = "undoStart"], Awaits(o, x, "destroy", r), r = Planned(o), op[o].pos > 0
        PROVE  Ops'
    <2>0. /\ op[o].pos \in 1 .. Len(op[o].plan) /\ op[o].plan[op[o].pos] \in 1 .. born
          /\ Planned(o) = op[o].plan[op[o].pos] /\ op[o].pos - 1 \in Nat /\ op[o].pos + 1 \in Nat
      <3>1. op[o].pos # 0 /\ op[o].pos <= Len(op[o].plan)
        BY <1>0, <1>5
      <3> QED
        BY <1>1, <1>2, <3>1, PlannedIs DEF Planned
    <2>1. Sorted(x, born)
      BY <2>0, <1>1, <1>5 DEF Sorted, Fields, Locs, Callbacks, Backs
    <2>2. r \in 0 .. born
      BY <2>0, <1>2, <1>5
    <2>3. ASSUME NEW y, y.at = "destroy", y.rec = r, y.id = x.id, y.plan = x.plan, y.pos = x.pos,
                 y.back = x.back
          PROVE  Placed(y)
      <3>1. x.id = op[o].id /\ x.plan = op[o].plan /\ x.pos = op[o].pos - 1 /\ x.back = "undoStart"
        BY <1>1, <1>5 DEF Sorted, Fields
      <3>2. y.pos + 1 = op[o].pos /\ y.rec = y.plan[y.pos + 1] /\ y.plan = op[o].plan
        BY <2>0, <1>5, <2>3, <3>1
      <3>3. y.pos \in 0 .. Len(y.plan) - 1 /\ y.rec # 0
        <4>1. Len(y.plan) \in Nat /\ y.pos \in Nat
          BY <1>0, <2>0, <2>3, <3>1, <3>2
        <4> QED
          BY <1>0, <2>0, <2>3, <3>1, <3>2, <4>1, SMTT(20)
      <3>4. y.back = "undoStart"
        BY <2>3, <3>1
      <3> QED
        BY <2>3, <3>2, <3>3, <3>4
           DEF Sorted, Placed, WithId, WithRec, Undoing, Callbacks, Planned
    <2>4. "destroy" \in Callbacks
      BY DEF Callbacks
    <2> QED
      BY <1>2, <1>5, <2>1, <2>2, <2>3, <2>4, AwaitsOps
  <1>6. ASSUME NEW x, NEW r, x = [op[o] EXCEPT !.pos = @ - 1, !.back = "undoStart"], Awaits(o, x, "rbwithdraw", r), r = Planned(o), op[o].pos > 0
        PROVE  Ops'
    <2>0. /\ op[o].pos \in 1 .. Len(op[o].plan) /\ op[o].plan[op[o].pos] \in 1 .. born
          /\ Planned(o) = op[o].plan[op[o].pos] /\ op[o].pos - 1 \in Nat /\ op[o].pos + 1 \in Nat
      <3>1. op[o].pos # 0 /\ op[o].pos <= Len(op[o].plan)
        BY <1>0, <1>6
      <3> QED
        BY <1>1, <1>2, <3>1, PlannedIs DEF Planned
    <2>1. Sorted(x, born)
      BY <2>0, <1>1, <1>6 DEF Sorted, Fields, Locs, Callbacks, Backs
    <2>2. r \in 0 .. born
      BY <2>0, <1>2, <1>6
    <2>3. ASSUME NEW y, y.at = "rbwithdraw", y.rec = r, y.id = x.id, y.plan = x.plan, y.pos = x.pos,
                 y.back = x.back
          PROVE  Placed(y)
      <3>1. x.id = op[o].id /\ x.plan = op[o].plan /\ x.pos = op[o].pos - 1 /\ x.back = "undoStart"
        BY <1>1, <1>6 DEF Sorted, Fields
      <3>2. y.pos + 1 = op[o].pos /\ y.rec = y.plan[y.pos + 1] /\ y.plan = op[o].plan
        BY <2>0, <1>6, <2>3, <3>1
      <3>3. y.pos \in 0 .. Len(y.plan) - 1 /\ y.rec # 0
        <4>1. Len(y.plan) \in Nat /\ y.pos \in Nat
          BY <1>0, <2>0, <2>3, <3>1, <3>2
        <4> QED
          BY <1>0, <2>0, <2>3, <3>1, <3>2, <4>1, SMTT(20)
      <3>4. y.back = "undoStart"
        BY <2>3, <3>1
      <3> QED
        BY <2>3, <3>2, <3>3, <3>4
           DEF Sorted, Placed, WithId, WithRec, Undoing, Callbacks, Planned
    <2>4. "rbwithdraw" \in Callbacks
      BY DEF Callbacks
    <2> QED
      BY <1>2, <1>6, <2>1, <2>2, <2>3, <2>4, AwaitsOps
  <1> QED
    BY <1>1, <1>3, <1>4, <1>5, <1>6 DEF UndoStart, GoOn, Copied, Ground

LEMMA RollbackWithdrawnOps ==
    ASSUME Ground, Ops, NEW o \in Op, RollbackWithdrawn(o)
    PROVE  Ops'
  <1>1. op[o].at = "rbwithdraw" /\ Sorted(op[o], born) /\ Placed(op[o])
    BY AtTyped DEF RollbackWithdrawn
  <1>2. born' = born /\ born \in Nat
    BY DEF RollbackWithdrawn, Ground, recVars, hostVars
  <1>3. ASSUME NEW x, NEW r, x = op[o], Awaits(o, x, "rbstop", r), r = op[o].rec
        PROVE  Ops'
    <2>1. Sorted(x, born)
      BY <1>1, <1>3 DEF Sorted, Fields, Locs, Callbacks, Backs
    <2>2. r \in 0 .. born /\ x.at = op[o].at
      BY <1>1, <1>2, <1>3 DEF Sorted, Fields, Placed, WithRec, Callbacks, Planned
    <2>3. ASSUME NEW y, y.at = "rbstop", y.rec = r, y.id = x.id, y.plan = x.plan, y.pos = x.pos,
                 y.back = x.back
          PROVE  Placed(y)
      <3>1. x.id = op[o].id /\ x.plan = op[o].plan /\ x.pos = op[o].pos /\ x.back = op[o].back
        BY <1>1, <1>3 DEF Sorted, Fields
      <3> QED
        BY <1>1, <1>2, <1>3, <2>3, <3>1
           DEF Sorted, Placed, WithId, WithRec, Undoing, Callbacks, Planned
    <2>4. "rbstop" \in Callbacks
      BY DEF Callbacks
    <2> QED
      BY <1>2, <1>3, <2>1, <2>2, <2>3, <2>4, AwaitsOps
  <1> QED
    BY <1>1, <1>3 DEF RollbackWithdrawn, GoOn, Copied, Ground

LEMMA RollbackStoppedOps ==
    ASSUME Ground, Ops, NEW o \in Op, RollbackStopped(o)
    PROVE  Ops'
  <1>1. op[o].at = "rbstop" /\ Sorted(op[o], born) /\ Placed(op[o])
    BY AtTyped DEF RollbackStopped
  <1>2. born' = born /\ born \in Nat
    BY DEF RollbackStopped, Ground, recVars, hostVars
  <1>3. ASSUME NEW x, NEW r, x = op[o], Awaits(o, x, "destroy", r), r = op[o].rec
        PROVE  Ops'
    <2>1. Sorted(x, born)
      BY <1>1, <1>3 DEF Sorted, Fields, Locs, Callbacks, Backs
    <2>2. r \in 0 .. born /\ x.at = op[o].at
      BY <1>1, <1>2, <1>3 DEF Sorted, Fields, Placed, WithRec, Callbacks, Planned
    <2>3. ASSUME NEW y, y.at = "destroy", y.rec = r, y.id = x.id, y.plan = x.plan, y.pos = x.pos,
                 y.back = x.back
          PROVE  Placed(y)
      <3>1. x.id = op[o].id /\ x.plan = op[o].plan /\ x.pos = op[o].pos /\ x.back = op[o].back
        BY <1>1, <1>3 DEF Sorted, Fields
      <3> QED
        BY <1>1, <1>2, <1>3, <2>3, <3>1
           DEF Sorted, Placed, WithId, WithRec, Undoing, Callbacks, Planned
    <2>4. "destroy" \in Callbacks
      BY DEF Callbacks
    <2> QED
      BY <1>2, <1>3, <2>1, <2>2, <2>3, <2>4, AwaitsOps
  <1> QED
    BY <1>1, <1>3 DEF RollbackStopped, GoOn, Copied, Ground

LEMMA DestroyEndsOps ==
    ASSUME Ground, Ops, NEW o \in Op, DestroyEnds(o)
    PROVE  Ops'
  <1>1. op[o].at = "destroy" /\ Sorted(op[o], born) /\ Placed(op[o])
    BY AtTyped DEF DestroyEnds
  <1>2. born' = born /\ born \in Nat
    BY DEF DestroyEnds, Ground, recVars, hostVars
  <1>3. ASSUME NEW x, x = [op[o] EXCEPT !.at = op[o].back, !.back = "rest", !.rec = 0], Runs(o, x)
        PROVE  Ops'
    <2>0. /\ DOMAIN x = Fields /\ x.at = op[o].back /\ x.back = "rest" /\ x.rec = 0
          /\ x.id = op[o].id /\ x.pos = op[o].pos /\ x.plan = op[o].plan
          /\ x.kind = op[o].kind /\ x.inside = op[o].inside /\ x.status = op[o].status
          /\ x.gen = op[o].gen /\ x.bin = op[o].bin /\ x.ids = op[o].ids
      BY <1>1, <1>3 DEF Sorted, Fields
    <2>1. Sorted(x, born)
      BY <2>0, <1>1, <1>2 DEF Sorted, Locs, Backs
    <2>2. Placed(x)
      BY <2>0, <1>1 DEF Sorted, Placed, WithId, WithRec, Undoing, Callbacks, Backs
    <2> QED
      BY <1>2, <1>3, <2>1, <2>2, RunsOps
  <1> QED
    BY <1>1, <1>3 DEF DestroyEnds, GoOn, Copied, Ground

LEMMA UnloadEntryOps ==
    ASSUME Ground, Ops, NEW o \in Op, UnloadEntry(o)
    PROVE  Ops'
  <1>1. op[o].at = "unload" /\ Sorted(op[o], born) /\ Placed(op[o])
    BY AtTyped DEF UnloadEntry
  <1>2. born' = born /\ born \in Nat
    BY DEF UnloadEntry, Ground, recVars, hostVars
  <1>3. ASSUME NEW x, x = [op[o] EXCEPT !.at = "unloaded", !.status = "failed"], Runs(o, x)
        PROVE  Ops'
    <2>1. Sorted(x, born)
      BY <1>1, <1>3 DEF Sorted, Fields, Locs, Callbacks, Backs
    <2>2. Placed(x)
      BY <1>1, <1>3 DEF Sorted, Fields, Placed, WithId, WithRec, Undoing, Callbacks, Backs
    <2> QED
      BY <1>2, <1>3, <2>1, <2>2, RunsOps
  <1>4. ASSUME NEW x, NEW r, x = [op[o] EXCEPT !.status = "ok", !.back = "unloaded"], Awaits(o, x, "destroy", r), r = inst[op[o].id], inst[op[o].id] \in 1 .. born
        PROVE  Ops'
    <2>1. Sorted(x, born)
      BY <1>1, <1>4 DEF Sorted, Fields, Locs, Callbacks, Backs
    <2>2. r \in 0 .. born /\ x.at = op[o].at
      BY <1>1, <1>2, <1>4 DEF Sorted, Fields, Placed, WithRec, Callbacks, Planned
    <2>3. ASSUME NEW y, y.at = "destroy", y.rec = r, y.id = x.id, y.plan = x.plan, y.pos = x.pos,
                 y.back = x.back
          PROVE  Placed(y)
      <3>1. x.id = op[o].id /\ x.plan = op[o].plan /\ x.pos = op[o].pos /\ x.back = "unloaded"
        BY <1>1, <1>4 DEF Sorted, Fields
      <3> QED
        BY <1>1, <1>2, <1>4, <2>3, <3>1
           DEF Sorted, Placed, WithId, WithRec, Undoing, Callbacks, Planned
    <2>4. "destroy" \in Callbacks
      BY DEF Callbacks
    <2> QED
      BY <1>2, <1>4, <2>1, <2>2, <2>3, <2>4, AwaitsOps
  <1>5. ASSUME NEW x, NEW r, x = [op[o] EXCEPT !.status = "ok", !.back = "unloaded"], Awaits(o, x, "withdraw", r), r = inst[op[o].id], inst[op[o].id] \in 1 .. born
        PROVE  Ops'
    <2>1. Sorted(x, born)
      BY <1>1, <1>5 DEF Sorted, Fields, Locs, Callbacks, Backs
    <2>2. r \in 0 .. born /\ x.at = op[o].at
      BY <1>1, <1>2, <1>5 DEF Sorted, Fields, Placed, WithRec, Callbacks, Planned
    <2>3. ASSUME NEW y, y.at = "withdraw", y.rec = r, y.id = x.id, y.plan = x.plan, y.pos = x.pos,
                 y.back = x.back
          PROVE  Placed(y)
      <3>1. x.id = op[o].id /\ x.plan = op[o].plan /\ x.pos = op[o].pos /\ x.back = "unloaded"
        BY <1>1, <1>5 DEF Sorted, Fields
      <3> QED
        BY <1>1, <1>2, <1>5, <2>3, <3>1
           DEF Sorted, Placed, WithId, WithRec, Undoing, Callbacks, Planned
    <2>4. "withdraw" \in Callbacks
      BY DEF Callbacks
    <2> QED
      BY <1>2, <1>5, <2>1, <2>2, <2>3, <2>4, AwaitsOps
  <1>6. op[o].id \in PlugId /\ (inst[op[o].id] # 0 => inst[op[o].id] \in 1 .. born)
    BY <1>1 DEF Placed, WithId, Ground
  <1> QED
    BY <1>6, <1>1, <1>3, <1>4, <1>5 DEF UnloadEntry, GoOn, Copied, Ground

LEMMA WithdrawEndsOps ==
    ASSUME Ground, Ops, NEW o \in Op, WithdrawEnds(o)
    PROVE  Ops'
  <1>1. op[o].at = "withdraw" /\ Sorted(op[o], born) /\ Placed(op[o])
    BY AtTyped DEF WithdrawEnds
  <1>2. born' = born /\ born \in Nat
    BY DEF WithdrawEnds, Ground, recVars, hostVars
  <1>3. ASSUME NEW x, NEW r, x = op[o], Awaits(o, x, "revoke", r), r = op[o].rec
        PROVE  Ops'
    <2>1. Sorted(x, born)
      BY <1>1, <1>3 DEF Sorted, Fields, Locs, Callbacks, Backs
    <2>2. r \in 0 .. born /\ x.at = op[o].at
      BY <1>1, <1>2, <1>3 DEF Sorted, Fields, Placed, WithRec, Callbacks, Planned
    <2>3. ASSUME NEW y, y.at = "revoke", y.rec = r, y.id = x.id, y.plan = x.plan, y.pos = x.pos,
                 y.back = x.back
          PROVE  Placed(y)
      <3>1. x.id = op[o].id /\ x.plan = op[o].plan /\ x.pos = op[o].pos /\ x.back = op[o].back
        BY <1>1, <1>3 DEF Sorted, Fields
      <3> QED
        BY <1>1, <1>2, <1>3, <2>3, <3>1
           DEF Sorted, Placed, WithId, WithRec, Undoing, Callbacks, Planned
    <2>4. "revoke" \in Callbacks
      BY DEF Callbacks
    <2> QED
      BY <1>2, <1>3, <2>1, <2>2, <2>3, <2>4, AwaitsOps
  <1> QED
    BY <1>1, <1>3 DEF WithdrawEnds, GoOn, Copied, Ground

LEMMA RevokeEndsOps ==
    ASSUME Ground, Ops, NEW o \in Op, RevokeEnds(o)
    PROVE  Ops'
  <1>1. op[o].at = "revoke" /\ Sorted(op[o], born) /\ Placed(op[o])
    BY AtTyped DEF RevokeEnds
  <1>2. born' = born /\ born \in Nat
    BY DEF RevokeEnds, Ground, recVars, hostVars
  <1>3. ASSUME NEW x, x = [op[o] EXCEPT !.at = "unloaded"], Runs(o, x)
        PROVE  Ops'
    <2>1. Sorted(x, born)
      BY <1>1, <1>3 DEF Sorted, Fields, Locs, Callbacks, Backs
    <2>2. Placed(x)
      BY <1>1, <1>3 DEF Sorted, Fields, Placed, WithId, WithRec, Undoing, Callbacks, Backs
    <2> QED
      BY <1>2, <1>3, <2>1, <2>2, RunsOps
  <1>4. ASSUME NEW x, x = [op[o] EXCEPT !.at = "unloaded", !.status = "busy"], Runs(o, x)
        PROVE  Ops'
    <2>1. Sorted(x, born)
      BY <1>1, <1>4 DEF Sorted, Fields, Locs, Callbacks, Backs
    <2>2. Placed(x)
      BY <1>1, <1>4 DEF Sorted, Fields, Placed, WithId, WithRec, Undoing, Callbacks, Backs
    <2> QED
      BY <1>2, <1>4, <2>1, <2>2, RunsOps
  <1>5. ASSUME NEW x, NEW r, x = op[o], Awaits(o, x, "stop", r), r = op[o].rec
        PROVE  Ops'
    <2>1. Sorted(x, born)
      BY <1>1, <1>5 DEF Sorted, Fields, Locs, Callbacks, Backs
    <2>2. r \in 0 .. born /\ x.at = op[o].at
      BY <1>1, <1>2, <1>5 DEF Sorted, Fields, Placed, WithRec, Callbacks, Planned
    <2>3. ASSUME NEW y, y.at = "stop", y.rec = r, y.id = x.id, y.plan = x.plan, y.pos = x.pos,
                 y.back = x.back
          PROVE  Placed(y)
      <3>1. x.id = op[o].id /\ x.plan = op[o].plan /\ x.pos = op[o].pos /\ x.back = op[o].back
        BY <1>1, <1>5 DEF Sorted, Fields
      <3> QED
        BY <1>1, <1>2, <1>5, <2>3, <3>1
           DEF Sorted, Placed, WithId, WithRec, Undoing, Callbacks, Planned
    <2>4. "stop" \in Callbacks
      BY DEF Callbacks
    <2> QED
      BY <1>2, <1>5, <2>1, <2>2, <2>3, <2>4, AwaitsOps
  <1> QED
    BY <1>1, <1>3, <1>4, <1>5 DEF RevokeEnds, GoOn, Copied, Ground

LEMMA StopEndsOps ==
    ASSUME Ground, Ops, NEW o \in Op, StopEnds(o)
    PROVE  Ops'
  <1>1. op[o].at = "stop" /\ Sorted(op[o], born) /\ Placed(op[o])
    BY AtTyped DEF StopEnds
  <1>2. born' = born /\ born \in Nat
    BY DEF StopEnds, Ground, recVars, hostVars
  <1>3. ASSUME NEW x, NEW r, x = op[o], Awaits(o, x, "destroy", r), r = op[o].rec
        PROVE  Ops'
    <2>1. Sorted(x, born)
      BY <1>1, <1>3 DEF Sorted, Fields, Locs, Callbacks, Backs
    <2>2. r \in 0 .. born /\ x.at = op[o].at
      BY <1>1, <1>2, <1>3 DEF Sorted, Fields, Placed, WithRec, Callbacks, Planned
    <2>3. ASSUME NEW y, y.at = "destroy", y.rec = r, y.id = x.id, y.plan = x.plan, y.pos = x.pos,
                 y.back = x.back
          PROVE  Placed(y)
      <3>1. x.id = op[o].id /\ x.plan = op[o].plan /\ x.pos = op[o].pos /\ x.back = op[o].back
        BY <1>1, <1>3 DEF Sorted, Fields
      <3> QED
        BY <1>1, <1>2, <1>3, <2>3, <3>1
           DEF Sorted, Placed, WithId, WithRec, Undoing, Callbacks, Planned
    <2>4. "destroy" \in Callbacks
      BY DEF Callbacks
    <2> QED
      BY <1>2, <1>3, <2>1, <2>2, <2>3, <2>4, AwaitsOps
  <1>4. ASSUME NEW x, x = [op[o] EXCEPT !.at = "unloaded"], Runs(o, x)
        PROVE  Ops'
    <2>1. Sorted(x, born)
      BY <1>1, <1>4 DEF Sorted, Fields, Locs, Callbacks, Backs
    <2>2. Placed(x)
      BY <1>1, <1>4 DEF Sorted, Fields, Placed, WithId, WithRec, Undoing, Callbacks, Backs
    <2> QED
      BY <1>2, <1>4, <2>1, <2>2, RunsOps
  <1> QED
    BY <1>1, <1>3, <1>4 DEF StopEnds, GoOn, Copied, Ground

LEMMA UnloadedOps ==
    ASSUME Ground, Ops, NEW o \in Op, Unloaded(o)
    PROVE  Ops'
  <1>1. op[o].at = "unloaded" /\ Sorted(op[o], born) /\ Placed(op[o])
    BY AtTyped DEF Unloaded
  <1>2. born' = born /\ born \in Nat
    BY DEF Unloaded, Ground, recVars, hostVars
  <1>3. CASE Over(o)
    BY <1>2, <1>3, OverOps
  <1>4. ASSUME NEW x, x = [op[o] EXCEPT !.at = "capture"], Runs(o, x)
        PROVE  Ops'
    <2>1. Sorted(x, born)
      BY <1>1, <1>4 DEF Sorted, Fields, Locs, Callbacks, Backs
    <2>2. Placed(x)
      BY <1>1, <1>4 DEF Sorted, Fields, Placed, WithId, WithRec, Undoing, Callbacks, Backs
    <2> QED
      BY <1>2, <1>4, <2>1, <2>2, RunsOps
  <1>5. ASSUME NEW x, x = [op[o] EXCEPT !.at = "next"], Runs(o, x)
        PROVE  Ops'
    <2>1. Sorted(x, born)
      BY <1>1, <1>5 DEF Sorted, Fields, Locs, Callbacks, Backs
    <2>2. Placed(x)
      BY <1>1, <1>5 DEF Sorted, Fields, Placed, WithId, WithRec, Undoing, Callbacks, Backs
    <2> QED
      BY <1>2, <1>5, <2>1, <2>2, RunsOps
  <1> QED
    BY <1>1, <1>3, <1>4, <1>5 DEF Unloaded, GoOn, Copied, Ground

LEMMA PollDrainedOps ==
    ASSUME Ground, Ops, NEW o \in Op, PollDrained(o)
    PROVE  Ops'
  <1>1. op[o].at = "polldrain" /\ Sorted(op[o], born) /\ Placed(op[o])
    BY AtTyped DEF PollDrained
  <1>2. born' = born /\ born \in Nat
    BY DEF PollDrained, Ground, recVars, hostVars
  <1>3. ASSUME NEW x, x = [op[o] EXCEPT !.at = "next", !.ids = deferred], Runs(o, x), deferred \in Seq(PlugId)
        PROVE  Ops'
    <2>1. Sorted(x, born)
      BY <1>1, <1>3 DEF Sorted, Fields, Locs, Callbacks, Backs
    <2>2. Placed(x)
      BY <1>1, <1>3 DEF Sorted, Fields, Placed, WithId, WithRec, Undoing, Callbacks, Backs
    <2> QED
      BY <1>2, <1>3, <2>1, <2>2, RunsOps
  <1> QED
    BY <1>1, <1>3 DEF PollDrained, GoOn, Copied, Ground

LEMMA NextUnloadOps ==
    ASSUME Ground, Ops, NEW o \in Op, NextUnload(o)
    PROVE  Ops'
  <1>1. op[o].at = "next" /\ Sorted(op[o], born) /\ Placed(op[o])
    BY AtTyped DEF NextUnload
  <1>2. born' = born /\ born \in Nat
    BY DEF NextUnload, Ground, recVars, hostVars
  <1>3. ASSUME NEW x, x = [op[o] EXCEPT !.ids = Tail(op[o].ids)], Runs(o, x), op[o].ids # <<>>
        PROVE  Ops'
    <2>1. Sorted(x, born)
      BY <1>1, <1>3 DEF Sorted, Fields, Locs, Callbacks, Backs
    <2>2. Placed(x)
      BY <1>1, <1>3 DEF Sorted, Fields, Placed, WithId, WithRec, Undoing, Callbacks, Backs
    <2> QED
      BY <1>2, <1>3, <2>1, <2>2, RunsOps
  <1>4. ASSUME NEW x, x = [[op[o] EXCEPT !.ids = Tail(op[o].ids)] EXCEPT !.at = "unload", !.id = Head(op[o].ids)], Runs(o, x), op[o].ids # <<>>
        PROVE  Ops'
    <2>1. Sorted(x, born)
      BY <1>1, <1>4 DEF Sorted, Fields, Locs, Callbacks, Backs
    <2>2. Placed(x)
      BY <1>1, <1>4 DEF Sorted, Fields, Placed, WithId, WithRec, Undoing, Callbacks, Backs
    <2> QED
      BY <1>2, <1>4, <2>1, <2>2, RunsOps
  <1> QED
    BY <1>1, <1>3, <1>4 DEF NextUnload, GoOn, Copied, Ground

LEMMA NoMoreUnloadsOps ==
    ASSUME Ground, Ops, NEW o \in Op, NoMoreUnloads(o)
    PROVE  Ops'
  <1>1. op[o].at = "next" /\ Sorted(op[o], born) /\ Placed(op[o])
    BY AtTyped DEF NoMoreUnloads
  <1>2. born' = born /\ born \in Nat
    BY DEF NoMoreUnloads, Ground, recVars, hostVars
  <1>3. ASSUME NEW x, NEW r, x = op[o], Awaits(o, x, "polldone", r), r = 0
        PROVE  Ops'
    <2>1. Sorted(x, born)
      BY <1>1, <1>3 DEF Sorted, Fields, Locs, Callbacks, Backs
    <2>2. r \in 0 .. born /\ x.at = op[o].at
      BY <1>1, <1>2, <1>3 DEF Sorted, Fields, Placed, WithRec, Callbacks, Planned
    <2>3. ASSUME NEW y, y.at = "polldone", y.rec = r, y.id = x.id, y.plan = x.plan, y.pos = x.pos,
                 y.back = x.back
          PROVE  Placed(y)
      <3>1. x.id = op[o].id /\ x.plan = op[o].plan /\ x.pos = op[o].pos /\ x.back = op[o].back
        BY <1>1, <1>3 DEF Sorted, Fields
      <3> QED
        BY <1>1, <1>2, <1>3, <2>3, <3>1
           DEF Sorted, Placed, WithId, WithRec, Undoing, Callbacks, Planned
    <2>4. "polldone" \in Callbacks
      BY DEF Callbacks
    <2> QED
      BY <1>2, <1>3, <2>1, <2>2, <2>3, <2>4, AwaitsOps
  <1>4. CASE Over(o)
    BY <1>2, <1>4, OverOps
  <1> QED
    BY <1>1, <1>3, <1>4 DEF NoMoreUnloads, GoOn, Copied, Ground

LEMMA PollEndsOps ==
    ASSUME Ground, Ops, NEW o \in Op, PollEnds(o)
    PROVE  Ops'
  <1>1. op[o].at = "polldone" /\ Sorted(op[o], born) /\ Placed(op[o])
    BY AtTyped DEF PollEnds
  <1>2. born' = born /\ born \in Nat
    BY DEF PollEnds, Ground, recVars, hostVars
  <1>3. CASE Over(o)
    BY <1>2, <1>3, OverOps
  <1> QED
    BY <1>1, <1>3 DEF PollEnds, GoOn, Copied, Ground

\* With one record more.
LEMMA SortedMore ==
    ASSUME NEW x, NEW n \in Nat, Sorted(x, n)
    PROVE  Sorted(x, n + 1)
  <1>1. \A s \in Seq(1 .. n) : s \in Seq(1 .. n + 1)
    OBVIOUS
  <1> QED
    BY <1>1 DEF Sorted

LEMMA MoreOps ==
    ASSUME Ops, NEW o \in Op, NEW x, Runs(o, x), born \in Nat, Sorted(x, born + 1), Placed(x),
           born' = born + 1
    PROVE  Ops'
  <1>1. op'[o] = x /\ DOMAIN op' = Op /\ \A b \in Op \ {o} : op'[b] = op[b]
    BY DEF Runs, Ops
  <1>2. \A b \in Op \ {o} : Sorted(op[b], born + 1) /\ Placed(op[b])
    BY SortedMore DEF Ops
  <1> QED
    BY <1>1, <1>2 DEF Ops

LEMMA ImportFailsOps ==
    ASSUME Ground, Ops, NEW o \in Op, ImportFails(o)
    PROVE  Ops'
  <1>1. op[o].at = "import" /\ Sorted(op[o], born) /\ Placed(op[o])
    BY DEF ImportFails, Ops
  <1>2. born' = born /\ born \in Nat
    BY DEF ImportFails, Ground, recVars, hostVars
  <1>3. ASSUME NEW x, x = [op[o] EXCEPT !.at = "discard"], Runs(o, x)
        PROVE  Ops'
    <2>1. Sorted(x, born)
      BY <1>1, <1>3 DEF Sorted, Fields, Locs, Callbacks, Backs
    <2>2. Placed(x)
      BY <1>1, <1>3 DEF Sorted, Fields, Placed, WithId, WithRec, Undoing, Callbacks, Backs
    <2> QED
      BY <1>2, <1>3, <2>1, <2>2, RunsOps
  <1> QED
    BY <1>1, <1>3 DEF ImportFails, GoOn

LEMMA ImportEndsOps ==
    ASSUME Ground, Ops, NEW o \in Op, ImportEnds(o)
    PROVE  Ops'
  <1>1. op[o].at = "import" /\ Sorted(op[o], born) /\ Placed(op[o])
    BY DEF ImportEnds, Ops
  <1>2. born \in Nat
    BY DEF Ground
  <1>3. ASSUME NEW x, x = [op[o] EXCEPT !.at = "discard"], Runs(o, x), born' = born
        PROVE  Ops'
    <2>1. Sorted(x, born)
      BY <1>1, <1>3 DEF Sorted, Fields, Locs, Callbacks, Backs
    <2>2. Placed(x)
      BY <1>1, <1>3 DEF Sorted, Fields, Placed, WithId, WithRec, Undoing, Callbacks, Backs
    <2> QED
      BY <1>2, <1>3, <2>1, <2>2, RunsOps
  <1>4. Sorted(op[o], born + 1)
    BY <1>1, <1>2, SortedMore
  <1>5. ASSUME NEW x, NEW b \in Seq(1 .. born + 1), x = [op[o] EXCEPT !.at = "files", !.gen = 0, !.bin = b],
               Runs(o, x), born' = born + 1
        PROVE  Ops'
    <2>1. Sorted(x, born + 1)
      BY <1>4, <1>5 DEF Sorted, Fields, Locs, Callbacks, Backs
    <2>2. Placed(x)
      BY <1>1, <1>5 DEF Sorted, Fields, Placed, WithId, WithRec, Undoing, Callbacks, Backs
    <2> QED
      BY <1>2, <1>5, <2>1, <2>2, MoreOps
  <1>6. ASSUME NEW x, x = [op[o] EXCEPT !.at = "enter", !.gen = 0], Runs(o, x), born' = born + 1
        PROVE  Ops'
    <2>1. Sorted(x, born + 1)
      BY <1>4, <1>6 DEF Sorted, Fields, Locs, Callbacks, Backs
    <2>2. Placed(x)
      BY <1>1, <1>6 DEF Sorted, Fields, Placed, WithId, WithRec, Undoing, Callbacks, Backs
    <2> QED
      BY <1>2, <1>6, <2>1, <2>2, MoreOps
  <1>7. Append(op[o].bin, born + 1) \in Seq(1 .. born + 1)
    BY <1>2, <1>4 DEF Sorted
  <1> QED
    BY <1>3, <1>5, <1>6, <1>7 DEF ImportEnds, GoOn, Create, recVars

LEMMA MakeOps ==
    ASSUME Ground, Ops, NEW o \in Op, Make(o)
    PROVE  Ops'
  <1>1. op[o].at = "make" /\ Sorted(op[o], born) /\ Placed(op[o])
    BY AtTyped DEF Make
  <1>2. born \in Nat
    BY DEF Ground
  <1>3. Sorted(op[o], born + 1)
    BY <1>1, <1>2, SortedMore
  <1>4. ASSUME NEW x, NEW b \in Seq(1 .. born + 1), NEW i \in Seq(PlugId),
               x = [op[o] EXCEPT !.ids = i, !.bin = b],
               Runs(o, x), born' = born + 1
        PROVE  Ops'
    <2>1. Sorted(x, born + 1)
      BY <1>3, <1>4 DEF Sorted, Fields, Locs, Callbacks, Backs
    <2>2. Placed(x)
      BY <1>1, <1>4 DEF Sorted, Fields, Placed, WithId, WithRec, Undoing, Callbacks, Backs
    <2> QED
      BY <1>2, <1>4, <2>1, <2>2, MoreOps
  <1>5. Append(op[o].bin, born + 1) \in Seq(1 .. born + 1)
    BY <1>2, <1>3 DEF Sorted
  <1>6. Tail(op[o].ids) \in Seq(PlugId)
    BY <1>1, TailIs DEF Make, Sorted
  <1> QED
    BY <1>4, <1>5, <1>6 DEF Make, Create

\* An enumeration of a finite set.
LEMMA EnumerationTyped ==
    ASSUME NEW S, IsFiniteSet(S), NEW s \in SetToSeqs(S)
    PROVE  /\ s \in Seq(S)
           /\ \A i, j \in DOMAIN s : s[i] = s[j] => i = j
           /\ \A e \in S : \E i \in DOMAIN s : s[i] = e
  <1> DEFINE D == 1 .. Cardinality(S)
  <1>1. Cardinality(S) \in Nat
    BY FS_CardinalityType
  <1>2. s \in [D -> S] /\ \A i, j \in D : s[i] = s[j] => i = j
    BY DEF SetToSeqs
  <1>3. s \in Seq(S) /\ DOMAIN s = D
    BY <1>1, <1>2
  <1>4. IsFiniteSet(D) /\ Cardinality(D) = Cardinality(S)
    BY <1>1, FS_Interval
  <1>5. s \in Injection(D, S)
    BY <1>2 DEF Injection, IsInjective
  <1>6. s \in Surjection(D, S)
    BY <1>4, <1>5, FS_Injection
  <1> QED
    BY <1>2, <1>3, <1>6 DEF Surjection

LEMMA WiderSeq ==
    ASSUME NEW S, NEW T, S \subseteq T, NEW s \in Seq(S)
    PROVE  s \in Seq(T)
  <1>1. s \in [1 .. Len(s) -> S]
    OBVIOUS
  <1>2. s \in [1 .. Len(s) -> T]
    BY <1>1
  <1> QED
    BY <1>2

LEMMA PlanOps ==
    ASSUME Ground, Ops, NEW o \in Op, Plan(o)
    PROVE  Ops'
  <1>1. op[o].at = "make" /\ Sorted(op[o], born) /\ Placed(op[o])
    BY AtTyped DEF Plan
  <1>2. born' = born /\ born \in Nat
    <2>1. UNCHANGED recVars
      BY Zenon DEF Plan
    <2> QED
      BY <2>1 DEF Ground, recVars
  <1>3. CASE Over(o)
    BY <1>2, <1>3, OverOps
  <1>4. ASSUME NEW order \in SetToSeqs(Pending)
        PROVE  order \in Seq(1 .. born)
    <2>1. Pending \subseteq 1 .. born
      BY DEF Pending
    <2>2. IsFiniteSet(Pending)
      <3>1. IsFiniteSet(1 .. born)
        BY <1>2, FS_Interval
      <3> QED
        BY <2>1, <3>1, FS_Subset
    <2>3. order \in Seq(Pending)
      BY <2>2, EnumerationTyped
    <2> QED
      BY <2>1, <2>3, WiderSeq
  <1>5. ASSUME NEW x, NEW order \in Seq(1 .. born), x = [op[o] EXCEPT !.at = "nextInit", !.plan = order, !.pos = 1],
               Runs(o, x)
        PROVE  Ops'
    <2>1. Sorted(x, born)
      BY <1>1, <1>5 DEF Sorted, Fields, Locs, Callbacks, Backs
    <2>2. Placed(x)
      BY <1>1, <1>5 DEF Sorted, Fields, Placed, WithId, WithRec, Undoing, Callbacks, Backs
    <2> QED
      BY <1>2, <1>5, <2>1, <2>2, RunsOps
  <1>6. ASSUME NEW x, NEW order \in Seq(1 .. born), x = [op[o] EXCEPT !.at = "discard", !.bin = order],
               Runs(o, x)
        PROVE  Ops'
    <2>1. Sorted(x, born)
      BY <1>1, <1>6 DEF Sorted, Fields, Locs, Callbacks, Backs
    <2>2. Placed(x)
      BY <1>1, <1>6 DEF Sorted, Fields, Placed, WithId, WithRec, Undoing, Callbacks, Backs
    <2> QED
      BY <1>2, <1>6, <2>1, <2>2, RunsOps
  <1> QED
    BY <1>3, <1>4, <1>5, <1>6 DEF Plan

LEMMA ReturnsOps ==
    ASSUME Ground, Ops, NEW o \in Op, NEW ok \in BOOLEAN, CallbackReturns(o, ok)
    PROVE  Ops'
  <1>1. Sorted(op[o], born) /\ Placed(op[o])
    BY DEF Ops
  <1>2. born' = born
    BY DEF CallbackReturns, recVars
  <1> DEFINE s == IF op[o].at \in MayFail \ {"rbstop", "destroy"}
                  THEN IF ok THEN "ok" ELSE "failed" ELSE op[o].status
             y == [op[o] EXCEPT !.inside = FALSE, !.status = s]
  <1>3. op' = [op EXCEPT ![o] = y]
    BY DEF CallbackReturns, Ops
  <1>4. s \in {"ok", "failed", "busy"}
    BY <1>1 DEF Sorted
  <1> HIDE DEF s
  <1>5. ASSUME NEW x, x = y
        PROVE  Sorted(x, born) /\ Placed(x)
    <2>1. Sorted(x, born)
      BY <1>1, <1>4, <1>5 DEF Sorted, Fields
    <2>2. x.at = op[o].at /\ x.id = op[o].id /\ x.rec = op[o].rec /\ x.pos = op[o].pos
          /\ x.plan = op[o].plan /\ x.back = op[o].back
      BY <1>1, <1>5 DEF Sorted, Fields
    <2>3. Placed(x)
      BY <1>1, <2>2 DEF Placed
    <2> QED
      BY <2>1, <2>3
  <1> HIDE DEF y
  <1>6. op'[o] = y /\ DOMAIN op' = Op /\ \A b \in Op \ {o} : op'[b] = op[b]
    BY <1>3 DEF Ops
  <1> QED
    BY <1>2, <1>5, <1>6 DEF Ops

\* An operation that is asked for.
LEMMA BeginsOps ==
    ASSUME Ops, NEW o \in Op, born \in Nat, born' = born,
           NEW kind \in Kinds,
           NEW at \in {"files", "enter", "capture", "unload", "next"}, NEW id \in PlugId \cup {NoPlug},
           NEW ids \in Seq(PlugId), at \in {"capture", "unload"} => id \in PlugId,
           Begins(o, kind, at, id, ids)
    PROVE  Ops'
  <1>1. ASSUME NEW x, x = [Resting EXCEPT !.kind = kind, !.at = at, !.id = id, !.ids = ids], Runs(o, x)
        PROVE  Ops'
    <2>1. /\ DOMAIN x = Fields /\ x.kind = kind /\ x.at = at /\ x.inside = FALSE /\ x.status = "ok"
          /\ x.gen = 0 /\ x.id = id /\ x.rec = 0 /\ x.plan = <<>> /\ x.pos = 0 /\ x.bin = <<>>
          /\ x.ids = ids /\ x.back = "rest"
      BY <1>1 DEF Resting, Fields
    <2>2. Sorted(x, born)
      <3>1. <<>> \in Seq(1 .. born) /\ 0 \in 0 .. born /\ 0 \in Nat
        OBVIOUS
      <3> QED
        BY <2>1, <3>1 DEF Sorted, Locs, Backs
    <2>3. Placed(x)
      BY <2>1 DEF Placed, WithId, WithRec, Callbacks, Undoing
    <2> QED
      BY <1>1, <2>2, <2>3, RunsOps
  <1> QED
    BY <1>1 DEF Begins

LEMMA AsksOps ==
    ASSUME Ground, Ops, NEW o \in Op, Asks(o)
    PROVE  Ops'
  <1>1. born \in Nat
    BY DEF Ground
  <1>2. CASE Boot(o)
    <2>1. PICK files \in SetToSeqs(PlugId) : Begins(o, "boot", "files", NoPlug, files)
      BY <1>2 DEF Boot
    <2>2. files \in Seq(PlugId) /\ born' = born
      BY <1>2, <2>1, EnumerationTyped, RackHostAssumption DEF Boot, recVars
    <2> QED
      BY <1>1, <2>1, <2>2, BeginsOps DEF Kinds
  <1>3. CASE Start(o)
    <2>1. Begins(o, "start", "enter", NoPlug, <<>>) /\ born' = born
      BY <1>3 DEF Start, recVars
    <2>2. /\ "start" \in Kinds /\ "enter" \in {"files", "enter", "capture", "unload", "next"}
          /\ NoPlug \in PlugId \cup {NoPlug} /\ <<>> \in Seq(PlugId)
          /\ "enter" \in {"capture", "unload"} => NoPlug \in PlugId
      BY DEF Kinds
    <2> QED
      BY <1>1, <2>1, <2>2, BeginsOps
  <1>4. CASE Poll(o)
    <2>1. born' = born /\ Awaits(o, [Resting EXCEPT !.kind = "poll"], "polldrain", 0)
      BY <1>4 DEF Poll, recVars
    <2>2. ASSUME NEW x, x = [Resting EXCEPT !.kind = "poll"], Awaits(o, x, "polldrain", 0)
          PROVE  Ops'
      <3>1. Sorted(x, born)
        BY <1>1, <2>2 DEF Sorted, Resting, Fields, Locs, Backs, Kinds
      <3>2. \A y : y.at = "polldrain" => Placed(y)
        BY DEF Placed, WithId, WithRec, Callbacks, Undoing
      <3> QED
        BY <1>1, <2>1, <2>2, <3>1, <3>2, AwaitsOps DEF Callbacks
    <2> QED
      BY <2>1, <2>2
  <1>5. CASE Shutdown(o)
    <2>1. PICK ids \in SetToSeqs({p \in PlugId : inst[p] # 0}) : Begins(o, "shutdown", "next", NoPlug, ids)
      BY <1>5 DEF Shutdown
    <2>2. IsFiniteSet({p \in PlugId : inst[p] # 0})
      BY FS_Subset, RackHostAssumption
    <2>3. ids \in Seq({p \in PlugId : inst[p] # 0})
      BY <2>1, <2>2, EnumerationTyped
    <2>4. ids \in Seq(PlugId) /\ born' = born
      BY <1>5, <2>3 DEF Shutdown, recVars
    <2> QED
      BY <1>1, <2>1, <2>4, BeginsOps DEF Kinds
  <1>6. ASSUME NEW p \in PlugId, Load(o, p)
        PROVE  Ops'
    <2>1. Begins(o, "load", "capture", p, <<>>) /\ born' = born
      BY <1>6 DEF Load, recVars
    <2>2. /\ "load" \in Kinds /\ "capture" \in {"files", "enter", "capture", "unload", "next"}
          /\ p \in PlugId \cup {NoPlug} /\ <<>> \in Seq(PlugId)
          /\ "capture" \in {"capture", "unload"} => p \in PlugId
      BY DEF Kinds
    <2> QED
      BY <1>1, <2>1, <2>2, BeginsOps
  <1>7. ASSUME NEW p \in PlugId, Unload(o, p)
        PROVE  Ops'
    <2>1. Begins(o, "unload", "unload", p, <<>>) /\ born' = born
      BY <1>7 DEF Unload, recVars
    <2>2. /\ "unload" \in Kinds /\ "unload" \in {"files", "enter", "capture", "unload", "next"}
          /\ p \in PlugId \cup {NoPlug} /\ <<>> \in Seq(PlugId)
          /\ "unload" \in {"capture", "unload"} => p \in PlugId
      BY DEF Kinds
    <2> QED
      BY <1>1, <2>1, <2>2, BeginsOps
  <1>8. ASSUME NEW p \in PlugId, Reload(o, p)
        PROVE  Ops'
    <2>1. Begins(o, "reload", "unload", p, <<>>) /\ born' = born
      BY <1>8 DEF Reload, recVars
    <2>2. /\ "reload" \in Kinds /\ "unload" \in {"files", "enter", "capture", "unload", "next"}
          /\ p \in PlugId \cup {NoPlug} /\ <<>> \in Seq(PlugId)
          /\ "unload" \in {"capture", "unload"} => p \in PlugId
      BY DEF Kinds
    <2> QED
      BY <1>1, <2>1, <2>2, BeginsOps
  <1> QED
    BY <1>2, <1>3, <1>4, <1>5, <1>6, <1>7, <1>8 DEF Asks

LEMMA StepOps ==
    ASSUME Ground, Ops, NEW o \in Op, Step(o)
    PROVE  Ops'
  <1>1. CASE Importing(o)
    BY <1>1, NextFileOps, CaptureOps, ImportFailsOps, ImportEndsOps, DiscardOps DEF Importing
  <1>2. CASE Starting(o)
    BY <1>2, EnterRefusedOps, EnterOps, MakeOps, MakeFailsOps, PlanOps, NextInitOps, InitEndsOps,
       NextStartOps, StartEndsOps, RegisterEndsOps, DrainEndsOps DEF Starting
  <1>3. CASE RollingBack(o)
    BY <1>3, UndoInitOps, DiscardRestOps, UndoStartOps, RollbackWithdrawnOps, RollbackStoppedOps,
       DestroyEndsOps DEF RollingBack
  <1>4. CASE TakingDown(o)
    BY <1>4, UnloadEntryOps, WithdrawEndsOps, RevokeEndsOps, StopEndsOps, UnloadedOps, PollDrainedOps,
       NextUnloadOps, NoMoreUnloadsOps, PollEndsOps DEF TakingDown
  <1>5. ASSUME NEW ok \in BOOLEAN, CallbackReturns(o, ok)
        PROVE  Ops'
    BY <1>5, ReturnsOps
  <1> QED
    BY <1>1, <1>2, <1>3, <1>4, <1>5 DEF Step, Importing, Starting, RollingBack, TakingDown

-----------------------------------------------------------------------------
(* The state around the operations                                    *)

States == {"none", "created", "initialized", "active", "revoking", "faulted", "destroyed"}

\* What a step may make of the variables that change most, each in one place.
StMoves == st' = st \/ \E r, v : v \in States /\ st' = [st EXCEPT ![r] = v]
LifeMoves == life' = life \/ \E r, c : c \in RackCallbacks /\ Lives(r, c)
CapsMoves ==
    caps' = caps \/ \E p, g : g \in 0 .. MaxGen /\ caps' = [caps EXCEPT ![p] = g]
QueueMoves ==
    \/ deferred' = deferred \/ deferred' = <<>>
    \/ \E p \in PlugId : deferred' = Queued(p) \/ deferred' = Dropped(p)

LEMMA QueueTyped ==
    ASSUME Ground, QueueMoves
    PROVE  deferred' \in Seq(PlugId) /\ \A i, j \in DOMAIN deferred' : deferred'[i] = deferred'[j] => i = j
  <1>1. deferred \in Seq(PlugId) /\ \A i, j \in DOMAIN deferred : deferred[i] = deferred[j] => i = j
    BY DEF Ground
  <1>2. CASE deferred' = deferred \/ deferred' = <<>>
    <2>1. <<>> \in Seq(PlugId) /\ DOMAIN <<>> = {}
      OBVIOUS
    <2>2. CASE deferred' = <<>>
      BY <2>1, <2>2
    <2>3. CASE deferred' = deferred
      BY <1>1, <2>3
    <2> QED
      BY <1>2, <2>2, <2>3
  <1>3. ASSUME NEW p \in PlugId, deferred' = Dropped(p)
        PROVE  deferred' \in Seq(PlugId) /\ \A i, j \in DOMAIN deferred' : deferred'[i] = deferred'[j] => i = j
    BY <1>1, <1>3, RemoveFirstIs DEF Dropped
  <1>4. ASSUME NEW p \in PlugId, deferred' = Append(deferred, p), ~Contains(deferred, p)
        PROVE  deferred' \in Seq(PlugId) /\ \A i, j \in DOMAIN deferred' : deferred'[i] = deferred'[j] => i = j
    <2>1. /\ deferred' \in Seq(PlugId) /\ Len(deferred') = Len(deferred) + 1
          /\ DOMAIN deferred' = 1 .. Len(deferred) + 1
          /\ \A i \in 1 .. Len(deferred) : deferred'[i] = deferred[i]
          /\ deferred'[Len(deferred) + 1] = p
      BY <1>1, <1>4
    <2>2. \A i \in 1 .. Len(deferred) : deferred[i] # p
      BY <1>4 DEF Contains
    <2>3. DOMAIN deferred = 1 .. Len(deferred) /\ Len(deferred) \in Nat
      BY <1>1
    <2> QED
      BY <1>1, <2>1, <2>2, <2>3
  <1> QED
    BY <1>2, <1>3, <1>4 DEF QueueMoves, Queued

LEMMA GroundKept ==
    ASSUME Ground, UNCHANGED <<born, plug, gen, inst, nextGen>>,
           StMoves, LifeMoves, CapsMoves, QueueMoves,
           staged' \in Seq(PlugId), asked' \subseteq 1 .. born, closing' \in BOOLEAN, turn' \in Op \cup {NoOp}
    PROVE  Ground'
  <1>1. st' \in [Rec -> States]
    BY DEF Ground, StMoves, States
  <1>2. life' \in [Rec -> Seq(RackCallbacks)]
    <2>1. life \in [Rec -> Seq(RackCallbacks)]
      BY DEF Ground
    <2>2. ASSUME NEW r, NEW c \in RackCallbacks, Lives(r, c)
          PROVE  life' \in [Rec -> Seq(RackCallbacks)]
      <3>1. \A q \in Rec : Append(life[q], c) \in Seq(RackCallbacks)
        BY <2>1
      <3> QED
        BY <2>1, <2>2, <3>1 DEF Lives
    <2> QED
      BY <2>1, <2>2 DEF LifeMoves
  <1>3. caps' \in [PlugId -> 0 .. MaxGen]
    BY DEF Ground, CapsMoves
  <1> QED
    BY <1>1, <1>2, <1>3, QueueTyped DEF Ground, States

\* Nothing but an operation changed.
LEMMA GroundSame ==
    ASSUME Ground, UNCHANGED <<recVars, hostVars>>, turn' \in Op \cup {NoOp}
    PROVE  Ground'
  BY DEF Ground, recVars, hostVars

LEMMA WithdrawnMoves ==
    ASSUME NEW r, caps' = Withdrawn(r), Ground
    PROVE  CapsMoves
  <1>1. caps' = [caps EXCEPT ![plug[r]] = IF caps[plug[r]] = gen[r] THEN 0 ELSE caps[plug[r]]]
    BY DEF Withdrawn
  <1>2. CASE caps[plug[r]] = gen[r]
    <2>1. 0 \in 0 .. MaxGen
      BY RackHostAssumption
    <2>2. caps' = [caps EXCEPT ![plug[r]] = 0]
      BY <1>1, <1>2
    <2> QED
      BY <2>1, <2>2, Zenon DEF CapsMoves
  <1>3. CASE caps[plug[r]] # gen[r]
    BY <1>1, <1>3 DEF CapsMoves, Ground
  <1> QED
    BY <1>2, <1>3

\* The steps that change nothing else,
LEMMA StepsAlone ==
    ASSUME Ground, NEW o \in Op, turn' \in Op \cup {NoOp},
           \/ NextFile(o) \/ Capture(o) \/ ImportFails(o) \/ EnterRefused(o) \/ MakeFails(o)
           \/ Plan(o) \/ DrainEnds(o) \/ PollDrained(o) \/ PollEnds(o)
    PROVE  Ground'
  <1>1. UNCHANGED <<recVars, hostVars>>
    BY Zenon DEF NextFile, Capture, ImportFails, EnterRefused, MakeFails, Plan, DrainEnds, PollDrained, PollEnds
  <1> QED
    BY <1>1, GroundSame

\* and the others.
LEMMA DiscardGround ==
    ASSUME Ground, Ops, NEW o \in Op, turn' \in Op \cup {NoOp}, Discard(o)
    PROVE  Ground'
  <1>1. UNCHANGED <<born, plug, gen, inst, nextGen, staged, asked, closing, st, caps, deferred>>
    BY Zenon DEF Discard, recVars, hostVars
  <1>2. StMoves
    BY <1>1 DEF StMoves
  <1>3. LifeMoves
    BY DEF Discard, LifeMoves, RackCallbacks
  <1>4. CapsMoves
    BY <1>1 DEF CapsMoves
  <1>5. QueueMoves
    BY <1>1 DEF QueueMoves
  <1>6. staged' \in Seq(PlugId) /\ asked' \subseteq 1 .. born /\ closing' \in BOOLEAN
    BY <1>1 DEF Ground
  <1> QED
    BY <1>1, <1>2, <1>3, <1>4, <1>5, <1>6, GroundKept

LEMMA EnterGround ==
    ASSUME Ground, Ops, NEW o \in Op, turn' \in Op \cup {NoOp}, Enter(o)
    PROVE  Ground'
  <1>1. UNCHANGED <<born, plug, gen, inst, nextGen, asked, closing, st, life, caps, deferred>>
    BY Zenon DEF Enter, recVars, hostVars
  <1>2. StMoves
    BY <1>1 DEF StMoves
  <1>3. LifeMoves
    BY <1>1 DEF LifeMoves
  <1>4. CapsMoves
    BY <1>1 DEF CapsMoves
  <1>5. QueueMoves
    BY <1>1 DEF QueueMoves
  <1>6. staged' \in Seq(PlugId) /\ asked' \subseteq 1 .. born /\ closing' \in BOOLEAN
    BY <1>1 DEF Ground, Enter
  <1> QED
    BY <1>1, <1>2, <1>3, <1>4, <1>5, <1>6, GroundKept

LEMMA NextInitGround ==
    ASSUME Ground, Ops, NEW o \in Op, turn' \in Op \cup {NoOp}, NextInit(o)
    PROVE  Ground'
  <1>1. UNCHANGED <<born, plug, gen, inst, nextGen, staged, asked, closing, st, caps, deferred>>
    BY Zenon DEF NextInit, recVars, hostVars
  <1>2. StMoves
    BY <1>1 DEF StMoves
  <1>3. LifeMoves
    BY DEF NextInit, LifeMoves, RackCallbacks
  <1>4. CapsMoves
    BY <1>1 DEF CapsMoves
  <1>5. QueueMoves
    BY <1>1 DEF QueueMoves
  <1>6. staged' \in Seq(PlugId) /\ asked' \subseteq 1 .. born /\ closing' \in BOOLEAN
    BY <1>1 DEF Ground
  <1> QED
    BY <1>1, <1>2, <1>3, <1>4, <1>5, <1>6, GroundKept

LEMMA InitEndsGround ==
    ASSUME Ground, Ops, NEW o \in Op, turn' \in Op \cup {NoOp}, InitEnds(o)
    PROVE  Ground'
  <1>1. UNCHANGED <<born, plug, gen, inst, nextGen, staged, asked, closing, life, caps, deferred>>
    BY Zenon DEF InitEnds, recVars, hostVars
  <1>2. StMoves
    BY DEF InitEnds, StMoves, States
  <1>3. LifeMoves
    BY <1>1 DEF LifeMoves
  <1>4. CapsMoves
    BY <1>1 DEF CapsMoves
  <1>5. QueueMoves
    BY <1>1 DEF QueueMoves
  <1>6. staged' \in Seq(PlugId) /\ asked' \subseteq 1 .. born /\ closing' \in BOOLEAN
    BY <1>1 DEF Ground
  <1> QED
    BY <1>1, <1>2, <1>3, <1>4, <1>5, <1>6, GroundKept

LEMMA UndoInitGround ==
    ASSUME Ground, Ops, NEW o \in Op, turn' \in Op \cup {NoOp}, UndoInit(o)
    PROVE  Ground'
  <1>1. UNCHANGED <<born, plug, gen, inst, nextGen, staged, asked, closing, st, caps, deferred>>
    BY Zenon DEF UndoInit, recVars, hostVars
  <1>2. StMoves
    BY <1>1 DEF StMoves
  <1>3. LifeMoves
    BY DEF UndoInit, LifeMoves, RackCallbacks
  <1>4. CapsMoves
    BY <1>1 DEF CapsMoves
  <1>5. QueueMoves
    BY <1>1 DEF QueueMoves
  <1>6. staged' \in Seq(PlugId) /\ asked' \subseteq 1 .. born /\ closing' \in BOOLEAN
    BY <1>1 DEF Ground
  <1> QED
    BY <1>1, <1>2, <1>3, <1>4, <1>5, <1>6, GroundKept

LEMMA DiscardRestGround ==
    ASSUME Ground, Ops, NEW o \in Op, turn' \in Op \cup {NoOp}, DiscardRest(o)
    PROVE  Ground'
  <1>1. UNCHANGED <<born, plug, gen, inst, nextGen, staged, asked, closing, st, caps, deferred>>
    BY Zenon DEF DiscardRest, recVars, hostVars
  <1>2. StMoves
    BY <1>1 DEF StMoves
  <1>3. LifeMoves
    BY DEF DiscardRest, LifeMoves, RackCallbacks
  <1>4. CapsMoves
    BY <1>1 DEF CapsMoves
  <1>5. QueueMoves
    BY <1>1 DEF QueueMoves
  <1>6. staged' \in Seq(PlugId) /\ asked' \subseteq 1 .. born /\ closing' \in BOOLEAN
    BY <1>1 DEF Ground
  <1> QED
    BY <1>1, <1>2, <1>3, <1>4, <1>5, <1>6, GroundKept

LEMMA NextStartGround ==
    ASSUME Ground, Ops, NEW o \in Op, turn' \in Op \cup {NoOp}, NextStart(o)
    PROVE  Ground'
  <1>1. UNCHANGED <<born, plug, gen, inst, nextGen, staged, asked, closing, st, caps, deferred>>
    BY Zenon DEF NextStart, recVars, hostVars
  <1>2. StMoves
    BY <1>1 DEF StMoves
  <1>3. LifeMoves
    BY DEF NextStart, LifeMoves, RackCallbacks
  <1>4. CapsMoves
    BY <1>1 DEF CapsMoves
  <1>5. QueueMoves
    BY <1>1 DEF QueueMoves
  <1>6. staged' \in Seq(PlugId) /\ asked' \subseteq 1 .. born /\ closing' \in BOOLEAN
    BY <1>1 DEF Ground
  <1> QED
    BY <1>1, <1>2, <1>3, <1>4, <1>5, <1>6, GroundKept

LEMMA StartEndsGround ==
    ASSUME Ground, Ops, NEW o \in Op, turn' \in Op \cup {NoOp}, StartEnds(o)
    PROVE  Ground'
  <1>1. UNCHANGED <<born, plug, gen, inst, nextGen, staged, asked, closing, life, deferred>>
    BY Zenon DEF StartEnds, recVars, hostVars
  <1>2. StMoves
    BY DEF StartEnds, StMoves, States
  <1>3. LifeMoves
    BY <1>1 DEF LifeMoves
  <1>4. CapsMoves
    <2>1. op[o].rec \in Rec
      <3>1. op[o].at = "start" /\ Sorted(op[o], born) /\ Placed(op[o])
        BY AtTyped DEF StartEnds
      <3>2. op[o].rec \in 0 .. born
        BY <3>1 DEF Sorted
      <3>3. op[o].rec # 0
        BY <3>1 DEF Placed, WithRec, Callbacks
      <3>4. born \in 0 .. MaxRec
        BY DEF Ground
      <3> QED
        BY <3>2, <3>3, <3>4, RackHostAssumption DEF Rec
    <2>2. gen[op[o].rec] \in 0 .. MaxGen
      BY <2>1 DEF Ground
    <2>3. caps' = caps \/ caps' = [caps EXCEPT ![plug[op[o].rec]] = gen[op[o].rec]]
      BY <1>1, Zenon DEF StartEnds
    <2> QED
      BY <2>2, <2>3, Zenon DEF CapsMoves
  <1>5. QueueMoves
    BY <1>1 DEF QueueMoves
  <1>6. staged' \in Seq(PlugId) /\ asked' \subseteq 1 .. born /\ closing' \in BOOLEAN
    BY <1>1 DEF Ground
  <1> QED
    BY <1>1, <1>2, <1>3, <1>4, <1>5, <1>6, GroundKept

LEMMA RegisterEndsGround ==
    ASSUME Ground, Ops, NEW o \in Op, turn' \in Op \cup {NoOp}, RegisterEnds(o)
    PROVE  Ground'
  <1>1. UNCHANGED <<born, plug, gen, inst, nextGen, staged, asked, closing, st, life, caps, deferred>>
    BY Zenon DEF RegisterEnds, recVars, hostVars
  <1>2. StMoves
    BY <1>1 DEF StMoves
  <1>3. LifeMoves
    BY <1>1 DEF LifeMoves
  <1>4. CapsMoves
    BY <1>1 DEF CapsMoves
  <1>5. QueueMoves
    BY <1>1 DEF QueueMoves
  <1>6. staged' \in Seq(PlugId) /\ asked' \subseteq 1 .. born /\ closing' \in BOOLEAN
    BY <1>1 DEF Ground
  <1> QED
    BY <1>1, <1>2, <1>3, <1>4, <1>5, <1>6, GroundKept

LEMMA UndoStartGround ==
    ASSUME Ground, Ops, NEW o \in Op, turn' \in Op \cup {NoOp}, UndoStart(o)
    PROVE  Ground'
  <1>1. UNCHANGED <<born, plug, gen, inst, nextGen, staged, asked, closing, st, deferred>>
    BY Zenon DEF UndoStart, recVars, hostVars
  <1>2. StMoves
    BY <1>1 DEF StMoves
  <1>3. LifeMoves
    BY DEF UndoStart, LifeMoves, RackCallbacks
  <1>4. CapsMoves
    BY <1>1, WithdrawnMoves DEF UndoStart, CapsMoves, Ground
  <1>5. QueueMoves
    BY <1>1 DEF QueueMoves
  <1>6. staged' \in Seq(PlugId) /\ asked' \subseteq 1 .. born /\ closing' \in BOOLEAN
    BY <1>1 DEF Ground
  <1> QED
    BY <1>1, <1>2, <1>3, <1>4, <1>5, <1>6, GroundKept

LEMMA RollbackWithdrawnGround ==
    ASSUME Ground, Ops, NEW o \in Op, turn' \in Op \cup {NoOp}, RollbackWithdrawn(o)
    PROVE  Ground'
  <1>1. UNCHANGED <<born, plug, gen, inst, nextGen, staged, asked, closing, st, caps, deferred>>
    BY Zenon DEF RollbackWithdrawn, recVars, hostVars
  <1>2. StMoves
    BY <1>1 DEF StMoves
  <1>3. LifeMoves
    BY DEF RollbackWithdrawn, LifeMoves, RackCallbacks
  <1>4. CapsMoves
    BY <1>1 DEF CapsMoves
  <1>5. QueueMoves
    BY <1>1 DEF QueueMoves
  <1>6. staged' \in Seq(PlugId) /\ asked' \subseteq 1 .. born /\ closing' \in BOOLEAN
    BY <1>1 DEF Ground
  <1> QED
    BY <1>1, <1>2, <1>3, <1>4, <1>5, <1>6, GroundKept

LEMMA RollbackStoppedGround ==
    ASSUME Ground, Ops, NEW o \in Op, turn' \in Op \cup {NoOp}, RollbackStopped(o)
    PROVE  Ground'
  <1>1. UNCHANGED <<born, plug, gen, inst, nextGen, staged, asked, closing, st, caps, deferred>>
    BY Zenon DEF RollbackStopped, recVars, hostVars
  <1>2. StMoves
    BY <1>1 DEF StMoves
  <1>3. LifeMoves
    BY DEF RollbackStopped, LifeMoves, RackCallbacks
  <1>4. CapsMoves
    BY <1>1 DEF CapsMoves
  <1>5. QueueMoves
    BY <1>1 DEF QueueMoves
  <1>6. staged' \in Seq(PlugId) /\ asked' \subseteq 1 .. born /\ closing' \in BOOLEAN
    BY <1>1 DEF Ground
  <1> QED
    BY <1>1, <1>2, <1>3, <1>4, <1>5, <1>6, GroundKept

LEMMA UnloadEntryGround ==
    ASSUME Ground, Ops, NEW o \in Op, turn' \in Op \cup {NoOp}, UnloadEntry(o)
    PROVE  Ground'
  <1>1. UNCHANGED <<born, plug, gen, inst, nextGen, staged, asked, closing>>
    BY Zenon DEF UnloadEntry, recVars, hostVars
  <1>2. StMoves
    BY DEF UnloadEntry, StMoves, States
  <1>3. LifeMoves
    BY DEF UnloadEntry, LifeMoves, RackCallbacks
  <1>4. CapsMoves
    BY <1>1, WithdrawnMoves DEF UnloadEntry, CapsMoves, Ground
  <1>5. QueueMoves
    <2>1. op[o].id \in PlugId
      BY AtTyped DEF UnloadEntry, Placed, WithId
    <2>2. deferred' = Dropped(op[o].id)
      BY Zenon DEF UnloadEntry
    <2> QED
      BY <2>1, <2>2, Zenon DEF QueueMoves
  <1>6. staged' \in Seq(PlugId) /\ asked' \subseteq 1 .. born /\ closing' \in BOOLEAN
    BY <1>1 DEF Ground
  <1> QED
    BY <1>1, <1>2, <1>3, <1>4, <1>5, <1>6, GroundKept

LEMMA WithdrawEndsGround ==
    ASSUME Ground, Ops, NEW o \in Op, turn' \in Op \cup {NoOp}, WithdrawEnds(o)
    PROVE  Ground'
  <1>1. UNCHANGED <<born, plug, gen, inst, nextGen, staged, asked, closing, st, life, caps, deferred>>
    BY Zenon DEF WithdrawEnds, recVars, hostVars
  <1>2. StMoves
    BY <1>1 DEF StMoves
  <1>3. LifeMoves
    BY <1>1 DEF LifeMoves
  <1>4. CapsMoves
    BY <1>1 DEF CapsMoves
  <1>5. QueueMoves
    BY <1>1 DEF QueueMoves
  <1>6. staged' \in Seq(PlugId) /\ asked' \subseteq 1 .. born /\ closing' \in BOOLEAN
    BY <1>1 DEF Ground
  <1> QED
    BY <1>1, <1>2, <1>3, <1>4, <1>5, <1>6, GroundKept

LEMMA RevokeEndsGround ==
    ASSUME Ground, Ops, NEW o \in Op, turn' \in Op \cup {NoOp}, RevokeEnds(o)
    PROVE  Ground'
  <1>1. UNCHANGED <<born, plug, gen, inst, nextGen, staged, asked, closing, caps, deferred>>
    BY Zenon DEF RevokeEnds, recVars, hostVars
  <1>2. StMoves
    BY DEF RevokeEnds, StMoves, States
  <1>3. LifeMoves
    BY DEF RevokeEnds, LifeMoves, RackCallbacks
  <1>4. CapsMoves
    BY <1>1 DEF CapsMoves
  <1>5. QueueMoves
    BY <1>1 DEF QueueMoves
  <1>6. staged' \in Seq(PlugId) /\ asked' \subseteq 1 .. born /\ closing' \in BOOLEAN
    BY <1>1 DEF Ground
  <1> QED
    BY <1>1, <1>2, <1>3, <1>4, <1>5, <1>6, GroundKept

LEMMA StopEndsGround ==
    ASSUME Ground, Ops, NEW o \in Op, turn' \in Op \cup {NoOp}, StopEnds(o)
    PROVE  Ground'
  <1>1. UNCHANGED <<born, plug, gen, inst, nextGen, staged, asked, closing, caps, deferred>>
    BY Zenon DEF StopEnds, recVars, hostVars
  <1>2. StMoves
    BY DEF StopEnds, StMoves, States
  <1>3. LifeMoves
    BY DEF StopEnds, LifeMoves, RackCallbacks
  <1>4. CapsMoves
    BY <1>1 DEF CapsMoves
  <1>5. QueueMoves
    BY <1>1 DEF QueueMoves
  <1>6. staged' \in Seq(PlugId) /\ asked' \subseteq 1 .. born /\ closing' \in BOOLEAN
    BY <1>1 DEF Ground
  <1> QED
    BY <1>1, <1>2, <1>3, <1>4, <1>5, <1>6, GroundKept

LEMMA UnloadedGround ==
    ASSUME Ground, Ops, NEW o \in Op, turn' \in Op \cup {NoOp}, Unloaded(o)
    PROVE  Ground'
  <1>1. UNCHANGED <<born, plug, gen, inst, nextGen, staged, asked, closing, st, life, caps>>
    BY Zenon DEF Unloaded, recVars, hostVars
  <1>2. StMoves
    BY <1>1 DEF StMoves
  <1>3. LifeMoves
    BY <1>1 DEF LifeMoves
  <1>4. CapsMoves
    BY <1>1 DEF CapsMoves
  <1>5. QueueMoves
    <2>1. op[o].id \in PlugId
      BY AtTyped DEF Unloaded, Placed, WithId
    <2>2. deferred' = deferred \/ deferred' = Dropped(op[o].id) \/ deferred' = Queued(op[o].id)
      BY Zenon DEF Unloaded, Kept
    <2> QED
      BY <2>1, <2>2, Zenon DEF QueueMoves
  <1>6. staged' \in Seq(PlugId) /\ asked' \subseteq 1 .. born /\ closing' \in BOOLEAN
    BY <1>1 DEF Ground
  <1> QED
    BY <1>1, <1>2, <1>3, <1>4, <1>5, <1>6, GroundKept

LEMMA NextUnloadGround ==
    ASSUME Ground, Ops, NEW o \in Op, turn' \in Op \cup {NoOp}, NextUnload(o)
    PROVE  Ground'
  <1>1. UNCHANGED <<born, plug, gen, inst, nextGen, staged, asked, closing, st, life, caps>>
    BY Zenon DEF NextUnload, recVars, hostVars
  <1>2. StMoves
    BY <1>1 DEF StMoves
  <1>3. LifeMoves
    BY <1>1 DEF LifeMoves
  <1>4. CapsMoves
    BY <1>1 DEF CapsMoves
  <1>5. QueueMoves
    <2>1. op[o].ids # <<>> /\ op[o].ids \in Seq(PlugId)
      BY AtTyped DEF NextUnload, Copied, Sorted
    <2>2. Head(op[o].ids) \in PlugId
      BY <2>1, TailIs
    <2>3. deferred' = deferred \/ deferred' = Dropped(Head(op[o].ids))
      BY Zenon DEF NextUnload, Copied
    <2> QED
      BY <2>2, <2>3, Zenon DEF QueueMoves
  <1>6. staged' \in Seq(PlugId) /\ asked' \subseteq 1 .. born /\ closing' \in BOOLEAN
    BY <1>1 DEF Ground
  <1> QED
    BY <1>1, <1>2, <1>3, <1>4, <1>5, <1>6, GroundKept

LEMMA NoMoreUnloadsGround ==
    ASSUME Ground, Ops, NEW o \in Op, turn' \in Op \cup {NoOp}, NoMoreUnloads(o)
    PROVE  Ground'
  <1>1. UNCHANGED <<born, plug, gen, inst, nextGen, staged, asked, closing, st, life, caps, deferred>>
    BY Zenon DEF NoMoreUnloads, recVars, hostVars
  <1>2. StMoves
    BY <1>1 DEF StMoves
  <1>3. LifeMoves
    BY <1>1 DEF LifeMoves
  <1>4. CapsMoves
    BY <1>1 DEF CapsMoves
  <1>5. QueueMoves
    BY <1>1 DEF QueueMoves
  <1>6. staged' \in Seq(PlugId) /\ asked' \subseteq 1 .. born /\ closing' \in BOOLEAN
    BY <1>1 DEF Ground
  <1> QED
    BY <1>1, <1>2, <1>3, <1>4, <1>5, <1>6, GroundKept

LEMMA DestroyEndsGround ==
    ASSUME Ground, Ops, NEW o \in Op, turn' \in Op \cup {NoOp}, DestroyEnds(o)
    PROVE  Ground'
  <1> DEFINE r == op[o].rec
  <1>1. /\ UNCHANGED <<born, plug, gen, life, caps, nextGen, closing, staged, asked>>
        /\ st' = [st EXCEPT ![r] = "destroyed"] /\ inst' = [inst EXCEPT ![plug[r]] = 0]
        /\ deferred' = Dropped(plug[r])
    BY Zenon DEF DestroyEnds
  <1>2. plug[r] \in PlugId
    <2>1. r \in 0 .. born /\ r # 0
      BY AtTyped DEF DestroyEnds, Sorted, Placed, WithRec, Callbacks
    <2>2. born \in Nat
      BY DEF Ground
    <2> QED
      BY <2>1, <2>2 DEF Ground
  <1> HIDE DEF r
  <1>3. st' \in [Rec -> States]
    BY <1>1 DEF Ground, States
  <1>4. inst' \in [PlugId -> 0 .. born] /\ \A p \in PlugId : inst'[p] # 0 => plug[inst'[p]] = p
    <2>1. born \in Nat /\ inst \in [PlugId -> 0 .. born]
      BY DEF Ground
    <2>2. \A p \in PlugId : inst'[p] = IF p = plug[r] THEN 0 ELSE inst[p]
      BY <1>1, <2>1
    <2>3. inst' \in [PlugId -> 0 .. born]
      <3>1. 0 \in 0 .. born
        BY <2>1
      <3> QED
        BY <1>1, <2>1, <3>1
    <2> QED
      BY <2>2, <2>3 DEF Ground
  <1>5. QueueMoves
    BY <1>1, <1>2, Zenon DEF QueueMoves
  <1> QED
    BY <1>1, <1>3, <1>4, <1>5, QueueTyped DEF Ground, States

\* A new record.
LEMMA CreateGround ==
    ASSUME Ground, NEW p \in PlugId, NEW g \in 0 .. MaxGen, CanCreate, Create(p, g), nextGen' = g,
           inst[p] = 0,
           UNCHANGED <<caps, closing, deferred, staged, asked>>, turn' \in Op \cup {NoOp}
    PROVE  Ground'
  <1>1. /\ born' = born + 1 /\ plug' = [plug EXCEPT ![born + 1] = p]
        /\ st' = [st EXCEPT ![born + 1] = "created"] /\ gen' = [gen EXCEPT ![born + 1] = g]
        /\ inst' = [inst EXCEPT ![p] = born + 1] /\ life' = life
    BY DEF Create
  <1>2. born \in Nat /\ born + 1 \in Rec /\ born + 1 \in 0 .. MaxRec /\ \A r \in 1 .. born : r \in Rec
    BY RackHostAssumption DEF Ground, CanCreate, Rec
  <1>3. st' \in [Rec -> States] /\ gen' \in [Rec -> 0 .. MaxGen] /\ nextGen' \in 0 .. MaxGen
    BY <1>1 DEF Ground, States
  <1>4. plug' \in [Rec -> PlugId \cup {NoPlug}] /\ \A r \in 1 .. born + 1 : plug'[r] \in PlugId
    <2>1. plug \in [Rec -> PlugId \cup {NoPlug}]
      BY DEF Ground
    <2>2. \A r \in Rec : plug'[r] = IF r = born + 1 THEN p ELSE plug[r]
      BY <1>1, <2>1
    <2>3. ASSUME NEW r \in 1 .. born + 1
          PROVE  plug'[r] \in PlugId
      <3>1. r = born + 1 \/ r \in 1 .. born
        BY <1>2
      <3> QED
        BY <1>2, <2>2, <3>1 DEF Ground
    <2> QED
      BY <1>1, <2>1, <2>3
  <1>5. inst' \in [PlugId -> 0 .. born + 1] /\ \A q \in PlugId : inst'[q] # 0 => plug'[inst'[q]] = q
    <2>1. inst \in [PlugId -> 0 .. born] /\ plug \in [Rec -> PlugId \cup {NoPlug}]
      BY DEF Ground
    <2>2. inst' \in [PlugId -> 0 .. born + 1]
      BY <1>1, <1>2, <2>1
    <2>3. ASSUME NEW q \in PlugId, inst'[q] # 0
          PROVE  plug'[inst'[q]] = q
      <3>1. CASE q = p
        BY <1>1, <1>2, <2>1, <3>1
      <3>2. CASE q # p
        <4>1. inst'[q] = inst[q] /\ inst[q] \in 1 .. born /\ plug[inst[q]] = q
          BY <1>1, <1>2, <2>1, <2>3, <3>2 DEF Ground
        <4>2. inst[q] \in Rec /\ inst[q] # born + 1
          BY <1>2, <4>1
        <4> QED
          BY <1>1, <2>1, <4>1, <4>2
      <3> QED
        BY <3>1, <3>2
    <2> QED
      BY <2>2, <2>3
  <1>6. asked' \subseteq 1 .. born'
    BY <1>1, <1>2 DEF Ground
  <1> QED
    BY <1>1, <1>2, <1>3, <1>4, <1>5, <1>6 DEF Ground, States

LEMMA ImportEndsGround ==
    ASSUME Ground, Ops, NEW o \in Op, turn' \in Op \cup {NoOp}, ImportEnds(o)
    PROVE  Ground'
  <1>1. op[o].id \in PlugId /\ op[o].gen \in Nat /\ op[o].gen <= MaxGen /\ op[o].gen \in 0 .. MaxGen
    <2>1. Sorted(op[o], born) /\ Placed(op[o]) /\ op[o].at = "import" /\ op[o].gen <= MaxGen
      BY DEF ImportEnds, Ops
    <2>2. op[o].id \in PlugId /\ op[o].gen \in Nat
      BY <2>1 DEF Sorted, Placed, WithId
    <2> QED
      BY <2>1, <2>2, RackHostAssumption
  <1>2. nextGen' = op[o].gen /\ UNCHANGED <<caps, closing, deferred, staged, asked>>
    BY Zenon DEF ImportEnds
  <1>3. CASE UNCHANGED <<recVars, inst>>
    BY <1>1, <1>2, <1>3 DEF Ground, recVars
  <1>4. CASE CanCreate /\ inst[op[o].id] = 0 /\ Create(op[o].id, op[o].gen)
    BY <1>1, <1>2, <1>4, CreateGround
  <1> QED
    BY <1>3, <1>4, Zenon DEF ImportEnds, Duplicate

LEMMA MakeGround ==
    ASSUME Ground, Ops, NEW o \in Op, turn' \in Op \cup {NoOp}, Make(o)
    PROVE  Ground'
  <1>1. Head(op[o].ids) \in PlugId
    <2>1. op[o].ids # <<>> /\ op[o].ids \in Seq(PlugId)
      BY AtTyped DEF Make, Sorted
    <2> QED
      BY <2>1, TailIs
  <1>2. nextGen + 1 \in 0 .. MaxGen
    BY RackHostAssumption DEF Make, Ground
  <1>3. /\ nextGen' = nextGen + 1 /\ UNCHANGED <<caps, closing, deferred, staged, asked>>
        /\ CanCreate /\ inst[Head(op[o].ids)] = 0 /\ Create(Head(op[o].ids), nextGen + 1)
    BY Zenon DEF Make, Duplicate
  <1> QED
    BY <1>1, <1>2, <1>3, CreateGround

LEMMA StepGround ==
    ASSUME Ground, Ops, NEW o \in Op, turn' \in Op \cup {NoOp}, Step(o)
    PROVE  Ground'
  <1>1. CASE Importing(o)
    BY <1>1, StepsAlone, ImportEndsGround, DiscardGround DEF Importing
  <1>2. CASE Starting(o)
    BY <1>2, StepsAlone, EnterGround, MakeGround, NextInitGround, InitEndsGround,
       NextStartGround, StartEndsGround, RegisterEndsGround DEF Starting
  <1>3. CASE RollingBack(o)
    BY <1>3, UndoInitGround, DiscardRestGround, UndoStartGround, RollbackWithdrawnGround,
       RollbackStoppedGround, DestroyEndsGround DEF RollingBack
  <1>4. CASE TakingDown(o)
    BY <1>4, StepsAlone, UnloadEntryGround, WithdrawEndsGround, RevokeEndsGround, StopEndsGround,
       UnloadedGround, NextUnloadGround, NoMoreUnloadsGround DEF TakingDown
  <1>5. ASSUME NEW ok \in BOOLEAN, CallbackReturns(o, ok)
        PROVE  Ground'
    <2>1. UNCHANGED <<recVars, inst, caps, nextGen, closing, deferred, staged, asked>>
      BY <1>5, Zenon DEF CallbackReturns
    <2> QED
      BY <2>1 DEF Ground, recVars
  <1> QED
    BY <1>1, <1>2, <1>3, <1>4, <1>5 DEF Step, Importing, Starting, RollingBack, TakingDown

LEMMA AsksGround ==
    ASSUME Ground, Ops, NEW o \in Op, turn' \in Op \cup {NoOp}, Asks(o)
    PROVE  Ground'
  <1>1. CASE Shutdown(o)
    <2>1. UNCHANGED <<born, plug, gen, inst, nextGen, st, life, caps, staged, asked>>
          /\ closing' = TRUE /\ deferred' = <<>>
      BY <1>1, Zenon DEF Shutdown, recVars
    <2>2. StMoves /\ LifeMoves /\ CapsMoves /\ QueueMoves
      BY <2>1 DEF StMoves, LifeMoves, CapsMoves, QueueMoves
    <2>3. staged' \in Seq(PlugId) /\ asked' \subseteq 1 .. born
      BY <2>1 DEF Ground
    <2> QED
      BY <2>1, <2>2, <2>3, GroundKept
  <1>2. CASE ~Shutdown(o)
    <2>1. UNCHANGED <<recVars, inst, caps, nextGen, closing, deferred, staged, asked>>
      BY <1>2, Zenon DEF Asks, Boot, Start, Poll, Load, Unload, Reload, hostVars
    <2> QED
      BY <2>1 DEF Ground, recVars
  <1> QED
    BY <1>1, <1>2

LEMMA AskedGround ==
    ASSUME Ground, NEW p \in PlugId, Add(p) \/ DeferUnload(p)
    PROVE  Ground'
  <1>1. turn' \in Op \cup {NoOp}
    BY DEF Ground, Add, DeferUnload
  <1>2. CASE Add(p)
    <2>1. UNCHANGED <<recVars, inst, caps, nextGen, closing, deferred, asked>> /\ staged' = Append(staged, p)
      BY <1>2 DEF Add
    <2>2. staged' \in Seq(PlugId)
      BY <2>1 DEF Ground
    <2> QED
      BY <1>1, <2>1, <2>2 DEF Ground, recVars
  <1>3. CASE DeferUnload(p)
    <2>1. /\ UNCHANGED <<born, plug, gen, inst, nextGen, st, life, caps, staged, closing>>
          /\ deferred' = Queued(p) /\ asked' = asked \cup {inst[p]} /\ inst[p] # 0
      BY <1>3 DEF DeferUnload, recVars
    <2>2. StMoves /\ LifeMoves /\ CapsMoves /\ QueueMoves
      BY <2>1 DEF StMoves, LifeMoves, CapsMoves, QueueMoves
    <2>3. inst[p] \in 1 .. born
      BY <2>1 DEF Ground
    <2>4. staged' \in Seq(PlugId) /\ asked' \subseteq 1 .. born /\ closing' \in BOOLEAN
      BY <2>1, <2>3 DEF Ground
    <2> QED
      BY <1>1, <2>1, <2>2, <2>4, GroundKept
  <1> QED
    BY <1>2, <1>3

-----------------------------------------------------------------------------
(* Calls                                                                   *)

\* A step of an operation leaves them alone.
LEMMA StepLeavesCalls ==
    ASSUME NEW o \in Op, Step(o) \/ Asks(o)
    PROVE  UNCHANGED <<call, caller, inFlight>> /\ born' \in {born, born + 1}
  <1> USE DEF recVars, callVars
  <1>1. CASE Importing(o)
    <2>1. CASE ImportEnds(o)
      <3>1. UNCHANGED <<call, caller>>
        BY <2>1, Zenon DEF ImportEnds
      <3>2. UNCHANGED <<recVars, inst>> \/ Create(op[o].id, op[o].gen)
        BY <2>1, Zenon DEF ImportEnds
      <3> QED
        BY <3>1, <3>2 DEF Create
    <2>2. CASE ~ImportEnds(o)
      BY <1>1, <2>2, Zenon DEF Importing, NextFile, Capture, ImportFails, Discard
    <2> QED
      BY <2>1, <2>2
  <1>2. CASE Starting(o)
    BY <1>2, Zenon DEF Starting, EnterRefused, Enter, Make, MakeFails, Plan, NextInit, InitEnds,
                NextStart, StartEnds, RegisterEnds, DrainEnds, Create
  <1>3. CASE RollingBack(o)
    BY <1>3, Zenon DEF RollingBack, UndoInit, DiscardRest, UndoStart, RollbackWithdrawn,
                RollbackStopped, DestroyEnds
  <1>4. CASE TakingDown(o)
    BY <1>4, Zenon DEF TakingDown, UnloadEntry, WithdrawEnds, RevokeEnds, StopEnds, Unloaded,
                PollDrained, NextUnload, NoMoreUnloads, PollEnds
  <1>5. ASSUME NEW ok \in BOOLEAN, CallbackReturns(o, ok)
        PROVE  UNCHANGED <<call, caller, inFlight>> /\ born' \in {born, born + 1}
    BY <1>5, Zenon DEF CallbackReturns
  <1>6. CASE Asks(o)
    BY <1>6, Zenon DEF Asks, Boot, Start, Poll, Shutdown, Load, Unload, Reload
  <1> QED
    BY <1>1, <1>2, <1>3, <1>4, <1>5, <1>6 DEF Step, Importing, Starting, RollingBack, TakingDown

LEMMA CallsKept ==
    ASSUME Ground, Calls, UNCHANGED <<call, caller, inFlight>>, born' \in {born, born + 1}
    PROVE  Calls'
  <1>1. born \in Nat /\ \A n \in 0 .. born : n \in 0 .. born'
    BY DEF Ground
  <1>2. call \in [Call -> 0 .. born'] /\ caller \in [Call -> 0 .. born']
    BY <1>1 DEF Calls
  <1> QED
    BY <1>2 DEF Calls

LEMMA CallBeginsTyped ==
    ASSUME Ground, Calls, NEW k \in Call, NEW c \in 1 .. born, NEW p \in PlugId, CallBegins(k, c, p)
    PROVE  Calls'
  <1> DEFINE r == inst[p]
  <1>1. /\ call[k] = 0 /\ inFlight[r] = 0 /\ r # 0 /\ born' = born
        /\ call' = [call EXCEPT ![k] = r] /\ caller' = [caller EXCEPT ![k] = c]
        /\ inFlight' = [inFlight EXCEPT ![r] = inFlight[r] + 1]
    BY DEF CallBegins
  <1>2. r \in 1 .. born /\ r \in 0 .. born /\ r \in Rec /\ c \in 0 .. born
    BY <1>1, RackHostAssumption DEF Ground, Rec
  <1> HIDE DEF r
  <1>3. call' \in [Call -> 0 .. born] /\ caller' \in [Call -> 0 .. born]
    BY <1>1, <1>2 DEF Calls
  <1>4. \A l \in Call : call[l] # r
    BY <1>1, <1>2 DEF Calls
  <1>5. \A l \in Call : call'[l] = IF l = k THEN r ELSE call[l]
    BY <1>1 DEF Calls
  <1>6. \A l, m \in Call : call'[l] # 0 /\ call'[l] = call'[m] => l = m
    BY <1>1, <1>4, <1>5 DEF Calls
  <1>7. ASSUME NEW q \in Rec
        PROVE  inFlight'[q] = IF \E l \in Call : call'[l] = q THEN 1 ELSE 0
    <2>1. CASE q = r
      <3>1. inFlight'[q] = 1
        BY <1>1, <1>2, <2>1 DEF Calls
      <3>2. call'[k] = q
        BY <1>5, <2>1
      <3> QED
        BY <3>1, <3>2
    <2>2. CASE q # r
      <3>1. inFlight'[q] = inFlight[q]
        BY <1>1, <2>2 DEF Calls
      <3>2. q # 0
        BY DEF Rec
      <3>3. (\E l \in Call : call'[l] = q) <=> \E l \in Call : call[l] = q
        BY <1>1, <1>5, <2>2, <3>2
      <3> QED
        BY <3>1, <3>3 DEF Calls
    <2> QED
      BY <2>1, <2>2
  <1>8. inFlight' \in [Rec -> Nat]
    BY <1>1, <1>2 DEF Calls
  <1> QED
    BY <1>1, <1>3, <1>6, <1>7, <1>8 DEF Calls

LEMMA CallEndsTyped ==
    ASSUME Ground, Calls, NEW k \in Call, CallEnds(k)
    PROVE  Calls'
  <1> DEFINE r == call[k]
  <1>1. /\ r # 0 /\ born' = born
        /\ call' = [call EXCEPT ![k] = 0] /\ caller' = [caller EXCEPT ![k] = 0]
        /\ inFlight' = [inFlight EXCEPT ![r] = inFlight[r] - 1]
    BY DEF CallEnds
  <1>2. r \in Rec /\ 0 \in 0 .. born
    <2>1. call[k] \in 0 .. born
      BY DEF Calls
    <2>2. born \in 0 .. MaxRec
      BY DEF Ground
    <2> QED
      BY <1>1, <2>1, <2>2, RackHostAssumption DEF Rec
  <1>3. call' \in [Call -> 0 .. born] /\ caller' \in [Call -> 0 .. born]
    BY <1>1, <1>2 DEF Calls
  <1>4. \A l \in Call : l # k => call[l] # r
    BY <1>1 DEF Calls
  <1>5. call[k] = r /\ \A l \in Call : call'[l] = IF l = k THEN 0 ELSE call[l]
    BY <1>1 DEF Calls
  <1> HIDE DEF r
  <1>6. \A l, m \in Call : call'[l] # 0 /\ call'[l] = call'[m] => l = m
    BY <1>1, <1>4, <1>5 DEF Calls
  <1>7. ASSUME NEW q \in Rec
        PROVE  inFlight'[q] = IF \E l \in Call : call'[l] = q THEN 1 ELSE 0
    <2>1. q # 0
      BY DEF Rec
    <2>2. CASE q = r
      <3>1. inFlight[r] = 1
        BY <1>2, <1>5 DEF Calls
      <3>2. inFlight'[q] = 0
        BY <1>1, <1>2, <2>2, <3>1 DEF Calls
      <3>3. ~\E l \in Call : call'[l] = q
        BY <1>4, <1>5, <2>1, <2>2
      <3> QED
        BY <3>2, <3>3
    <2>3. CASE q # r
      <3>1. inFlight'[q] = inFlight[q]
        BY <1>1, <2>3 DEF Calls
      <3>2. (\E l \in Call : call'[l] = q) <=> \E l \in Call : call[l] = q
        BY <1>5, <2>1, <2>3
      <3> QED
        BY <3>1, <3>2 DEF Calls
    <2> QED
      BY <2>2, <2>3
  <1>8. inFlight' \in [Rec -> Nat]
    <2>1. inFlight[r] = 1 /\ inFlight \in [Rec -> Nat]
      BY <1>2, <1>5 DEF Calls
    <2>2. inFlight' = [inFlight EXCEPT ![r] = 0]
      BY <1>1, <2>1
    <2> QED
      BY <2>1, <2>2
  <1> QED
    BY <1>1, <1>3, <1>6, <1>7, <1>8 DEF Calls

-----------------------------------------------------------------------------
(* The types                                                               *)

Typed == BatchInv /\ Ground /\ Ops /\ Calls

LEMMA InitTyped == Init => Typed
  <1> SUFFICES ASSUME Init
               PROVE  Typed
    OBVIOUS
  <1>1. BatchInv
    BY InitBatchInv
  <1>2. 0 \in 0 .. MaxRec /\ 0 \in 0 .. MaxGen /\ 0 \in 0 .. 0 /\ Rec = 1 .. MaxRec
    BY RackHostAssumption DEF Rec
  <1>3. Ground
    <2>1. /\ 0 \in 0 .. MaxRec /\ plug \in [Rec -> PlugId \cup {NoPlug}] /\ 1 .. 0 = {}
          /\ st \in [Rec -> {"none", "created", "initialized", "active", "revoking",
                             "faulted", "destroyed"}]
      BY <1>2 DEF Init
    <2>2. gen \in [Rec -> 0 .. MaxGen] /\ nextGen \in 0 .. MaxGen
      BY <1>2 DEF Init
    <2>3. life \in [Rec -> Seq(RackCallbacks)]
      BY DEF Init
    <2>4. /\ inst \in [PlugId -> 0 .. born] /\ \A p \in PlugId : inst[p] = 0
          /\ caps \in [PlugId -> 0 .. MaxGen] /\ closing \in BOOLEAN
      BY <1>2 DEF Init
    <2>5. deferred = <<>> /\ staged = <<>> /\ asked = {} /\ turn = NoOp /\ born = 0
      BY DEF Init
    <2>6. <<>> \in Seq(PlugId) /\ DOMAIN <<>> = {}
      OBVIOUS
    <2> QED
      BY <2>1, <2>2, <2>3, <2>4, <2>5, <2>6 DEF Ground
  <1>4. Sorted(Resting, 0) /\ Placed(Resting)
    BY DEF Resting, Sorted, Placed, Fields, Locs, Callbacks, Backs, Kinds, WithId, WithRec, Undoing
  <1>5. Ops
    BY <1>4 DEF Init, Ops
  <1>6. Calls
    BY <1>2 DEF Init, Calls
  <1> QED
    BY <1>1, <1>3, <1>5, <1>6 DEF Typed

\* The loop is given to an operation or to nobody.
LEMMA TurnTyped ==
    ASSUME BatchInv, NEW o \in Op, Step(o) \/ Asks(o)
    PROVE  turn' \in Op \cup {NoOp}
  <1>1. Frames
    BY DEF BatchInv, DepthInv
  <1>2. ASSUME Moves(o)
        PROVE  turn' \in Op \cup {NoOp}
    BY <1>2 DEF Moves
  <1>3. ASSUME NEW ok \in BOOLEAN, CallbackReturns(o, ok)
        PROVE  turn' \in Op \cup {NoOp}
    BY <1>3 DEF CallbackReturns
  <1> QED
    BY <1>1, <1>2, <1>3, AsksMoves, ImportingMoves, StartingMoves, RollingBackMoves, TakingDownMoves
       DEF Step, Importing, Starting, RollingBack, TakingDown

LEMMA NextTyped == Typed /\ [Next]_vars => Typed'
  <1> SUFFICES ASSUME Typed, [Next]_vars
               PROVE  Typed'
    OBVIOUS
  <1>1. BatchInv'
    BY NextBatchInv DEF Typed
  <1>2. ASSUME NEW o \in Op, Step(o) \/ Asks(o)
        PROVE  Typed'
    <2>1. Ops'
      BY <1>2, StepOps, AsksOps DEF Typed
    <2>2. Ground'
      BY <1>2, TurnTyped, StepGround, AsksGround DEF Typed
    <2>3. Calls'
      BY <1>2, StepLeavesCalls, CallsKept DEF Typed
    <2> QED
      BY <1>1, <2>1, <2>2, <2>3 DEF Typed
  <1>3. ASSUME NEW p \in PlugId, Add(p) \/ DeferUnload(p)
        PROVE  Typed'
    <2>1. UNCHANGED <<op, born, call, caller, inFlight>>
      BY <1>3, Zenon DEF Add, DeferUnload, recVars, callVars
    <2>2. Ops'
      BY <2>1 DEF Typed, Ops
    <2>3. Calls'
      BY <2>1, CallsKept DEF Typed
    <2> QED
      BY <1>1, <1>3, <2>2, <2>3, AskedGround DEF Typed
  <1>4. ASSUME NEW k \in Call, CallEnds(k) \/ \E c \in 1 .. born, p \in PlugId : CallBegins(k, c, p)
        PROVE  Typed'
    <2>1. UNCHANGED <<op, turn, born, plug, st, gen, life, inst, caps, nextGen, closing, deferred, staged, asked>>
      BY <1>4, Zenon DEF CallBegins, CallEnds
    <2>2. Ops' /\ Ground'
      BY <2>1 DEF Typed, Ops, Ground
    <2>3. Calls'
      BY <1>4, CallBeginsTyped, CallEndsTyped DEF Typed
    <2> QED
      BY <1>1, <2>2, <2>3 DEF Typed
  <1>5. CASE UNCHANGED vars
    <2>1. Ops' /\ Ground' /\ Calls'
      BY <1>5 DEF vars, recVars, hostVars, callVars, Typed, Ops, Ground, Calls
    <2> QED
      BY <1>1, <2>1 DEF Typed
  <1> QED
    BY <1>2, <1>3, <1>4, <1>5 DEF Next

LEMMA TypedHolds == Spec => []Typed
  BY InitTyped, NextTyped, PTL DEF Spec

\* Every variable has its type, an unload is queued once at most and callbackDepth
\* counts the callbacks and calls that run, for any number of overlapping operations.
THEOREM TypesHold == Spec => []TypeOK
  <1>1. ASSUME Typed
        PROVE  TypeOK
    <2>1. DepthBalanced /\ depth \in Nat
      <3>1. DepthBalanced
        BY <1>1 DEF Typed, BatchInv, DepthInv
      <3>2. depth = Cardinality(Inside) + Cardinality(Calling)
        BY <3>1 DEF DepthBalanced, Inside, Calling
      <3> QED
        BY <3>1, <3>2, Counted
    <2>2. inFlight \in [Rec -> Nat]
      BY <1>1 DEF Typed, Calls
    <2> QED
      BY <1>1, <2>1, <2>2 DEF TypeOK, Typed, Ground, Calls
  <1> QED
    BY <1>1, TypedHolds, PTL

-----------------------------------------------------------------------------
(***************************************************************************)
(* The lives of the rack's records, whatever is asked for and whichever    *)
(* callbacks throw: no plugin is called out of order, the registry offers  *)
(* only what is Active, an accepted unload is not lost (all three for      *)
(* operations that are Sheltered, below: with others TLC finds             *)
(* counterexamples), and shutdown() leaves only what is stuck (for         *)
(* operations one at a time).                                              *)
(***************************************************************************)

\* The premise: one operation at a time, or nobody uses the rack between a callback's
\* return and its caller and no boot() overlaps.
Sheltered == (\A o, b \in Op : o = b) \/ (~Gaps /\ "boot" \notin Kind)

\* How a record that the table holds stands: its state and the life behind it.
Has(r, S, L) == st[r] \in S /\ life[r] \in L /\ inst[plug[r]] = r

Fresh(r) == Has(r, {"created"}, {<<>>})
Half(r) == Has(r, {"created"}, {<<>>, <<"init">>})
Inited(r) == Has(r, {"initialized"}, {<<"init">>})
Served(r) == Has(r, {"active"}, {<<"init", "start">>})
Isolated(r) ==
    \/ Has(r, {"revoking"}, {<<"init", "start">>})
    \/ Has(r, {"faulted"}, {<<"init", "start">>, <<"init", "start", "stop">>})

Ended ==
    {<<"destroy">>, <<"init", "destroy">>, <<"init", "stop", "destroy">>,
     <<"init", "start", "stop", "destroy">>}

Gone(r) == st[r] = "destroyed" /\ life[r] \in Ended /\ inst[plug[r]] # r

\* A record nobody is working on.
Idle(r) == Fresh(r) \/ Served(r) \/ Isolated(r) \/ Gone(r)

\* Where an operation stands in its plan, a rollback's detour apart.
Detours == {"rbwithdraw", "rbstop", "destroy"}
Phase(x) == IF x.at \in Detours THEN x.back ELSE x.at
Planning ==
    {"nextInit", "init", "undoInit", "discardRest", "nextStart", "start", "register", "drain",
     "undoStart"}
Handling == Detours \cup {"withdraw", "revoke", "stop"}

\* r is in the hand of an operation: in its plan, or the record it takes down.
InHand(x, r) ==
    \/ Phase(x) \in Planning /\ \E j \in 1 .. Len(x.plan) : x.plan[j] = r
    \/ x.at \in Handling /\ x.rec = r

\* Nothing is in the hands of such an operation, and nothing will be in its bin.
Calm(x) ==
    \/ x.at = "enter"
    \/ x.at \in {"rest", "capture", "import", "discard"} /\ x.bin = <<>>

Engaged(x) ==
    /\ x.at \notin {"rest", "files", "capture", "import", "enter"}
    /\ ~(x.at = "discard" /\ x.bin = <<>>)

\* How record r = plan[j] stands when the plan is at i.
Due(f, i, j, r) ==
    /\ f = "nextInit" => IF j < i THEN Inited(r) ELSE Fresh(r)
    /\ f = "init" => IF j < i THEN Inited(r)
                     ELSE IF j = i THEN Has(r, {"created"}, {<<"init">>}) ELSE Fresh(r)
    /\ f = "undoInit" => IF j <= i THEN Inited(r) ELSE Half(r) \/ Gone(r)
    /\ f = "discardRest" => IF j < i THEN Gone(r) ELSE Half(r) \/ Gone(r)
    /\ f = "nextStart" => IF j < i THEN Served(r) ELSE Inited(r)
    /\ f = "start" => IF j < i THEN Served(r)
                      ELSE IF j = i THEN Has(r, {"initialized"}, {<<"init", "start">>}) ELSE Inited(r)
    /\ f \in {"register", "drain"} => IF j <= i THEN Served(r) ELSE Inited(r)
    /\ f = "undoStart" =>
         IF j <= i THEN Served(r) \/ Has(r, {"initialized"}, {<<"init">>, <<"init", "start">>})
         ELSE Gone(r)

Distinct(s) == \A i, j \in 1 .. Len(s) : s[i] = s[j] => i = j

PlanOK(x) ==
    Phase(x) \in Planning =>
        /\ Distinct(x.plan)
        /\ \A j \in 1 .. Len(x.plan) :
             (x.at \in Detours => x.plan[j] # x.rec) => Due(Phase(x), x.pos, j, x.plan[j])

RecOK(x) ==
    /\ x.at = "rbwithdraw" => Has(x.rec, {"active", "initialized"}, {<<"init">>, <<"init", "start">>})
    /\ x.at = "rbstop" =>
         Has(x.rec, {"active", "initialized"}, {<<"init", "stop">>, <<"init", "start", "stop">>})
    /\ x.at = "destroy" =>
         /\ x.back # "rest"
         /\ \/ Has(x.rec, {"created"}, {<<"destroy">>, <<"init", "destroy">>})
            \/ Has(x.rec, {"active", "initialized", "revoking"},
                   {<<"init", "stop", "destroy">>, <<"init", "start", "stop", "destroy">>})
    /\ x.at \in {"withdraw", "revoke"} => Has(x.rec, {"revoking"}, {<<"init", "start">>})
    /\ x.at = "stop" => Has(x.rec, {"revoking"}, {<<"init", "start", "stop">>})
    /\ x.at \in Handling => caps[plug[x.rec]] = 0

BinOK(x) ==
    x.at \in {"files", "capture", "import", "make", "discard"} \/ (x.at = "destroy" /\ x.back = "discard") =>
        /\ Distinct(x.bin)
        /\ \A i \in 1 .. Len(x.bin) : Fresh(x.bin[i]) /\ (x.at = "destroy" => x.bin[i] # x.rec)

\* What only depends on the operation.
Apart(x) ==
    /\ x.at \in {"rest", "capture", "import", "unload", "withdraw", "revoke", "stop", "unloaded",
                 "next", "polldrain", "polldone"} \/ (x.at = "destroy" /\ x.back = "unloaded")
         => x.bin = <<>> \/ x.kind = "boot"
    /\ x.at = "files" => x.kind = "boot"
    /\ x.kind = "boot" => "boot" \in Kind

Pool(x) == PlanOK(x) /\ RecOK(x) /\ BinOK(x) /\ Apart(x)

Offered == OfferedIsHeld

Lone ==
    /\ ~Gaps => \A o \in Op : Engaged(op[o]) => op[o].inside \/ turn = o
    /\ \A o, b \in Op : Engaged(op[o]) /\ Engaged(op[b]) => o = b

Known ==
    /\ \A r \in 1 .. born : Idle(r) \/ \E o \in Op : InHand(op[o], r)
    /\ \A r \in Rec : r > born => life[r] = <<>>

LifeInv == (\A o \in Op : Pool(op[o])) /\ Offered /\ Lone /\ Known

-----------------------------------------------------------------------------
(* What a step leaves alone                                                *)

\* Record s stands as it stood.
Keeps(s) ==
    /\ st'[s] = st[s] /\ life'[s] = life[s]
    /\ inst'[plug'[s]] = s <=> inst[plug[s]] = s

LEMMA HasKept ==
    ASSUME NEW s, Keeps(s), NEW S, NEW L
    PROVE  Has(s, S, L)' <=> Has(s, S, L)
  BY DEF Keeps, Has

LEMMA StandsKept ==
    ASSUME NEW s, Keeps(s)
    PROVE  /\ Fresh(s)' <=> Fresh(s)
           /\ Half(s)' <=> Half(s)
           /\ Inited(s)' <=> Inited(s)
           /\ Served(s)' <=> Served(s)
           /\ Isolated(s)' <=> Isolated(s)
           /\ Gone(s)' <=> Gone(s)
           /\ Idle(s)' <=> Idle(s)
  <1>1. /\ Fresh(s)' <=> Fresh(s)
        /\ Half(s)' <=> Half(s)
        /\ Inited(s)' <=> Inited(s)
        /\ Served(s)' <=> Served(s)
    BY HasKept DEF Fresh, Half, Inited, Served
  <1>2. Isolated(s)' <=> Isolated(s)
    BY HasKept DEF Isolated
  <1>3. Gone(s)' <=> Gone(s)
    BY DEF Gone, Keeps
  <1> QED
    BY <1>1, <1>2, <1>3 DEF Idle

LEMMA DueKept ==
    ASSUME NEW s, Keeps(s), NEW f, NEW i, NEW j
    PROVE  Due(f, i, j, s)' <=> Due(f, i, j, s)
  <1>1. /\ Has(s, {"created"}, {<<"init">>})' <=> Has(s, {"created"}, {<<"init">>})
        /\ Has(s, {"initialized"}, {<<"init", "start">>})' <=> Has(s, {"initialized"}, {<<"init", "start">>})
        /\ Has(s, {"initialized"}, {<<"init">>, <<"init", "start">>})'
             <=> Has(s, {"initialized"}, {<<"init">>, <<"init", "start">>})
    BY HasKept
  <1> QED
    BY <1>1, StandsKept DEF Due

LEMMA Elements ==
    ASSUME NEW S, NEW s \in Seq(S)
    PROVE  Len(s) \in Nat /\ \A j \in 1 .. Len(s) : s[j] \in S
  OBVIOUS

\* An operation none of whose records is touched.
LEMMA PoolKept ==
    ASSUME NEW x, Ground, Sorted(x, born), Placed(x), \A s \in 1 .. born : Keeps(s) /\ plug'[s] = plug[s],
           caps' = caps, Pool(x)
    PROVE  Pool(x)'
  <1>1. PlanOK(x)'
    <2>0. x.plan \in Seq(1 .. born)
      BY DEF Sorted
    <2>1. \A j \in 1 .. Len(x.plan) : x.plan[j] \in 1 .. born
      BY <2>0, Elements
    <2>2. \A j \in 1 .. Len(x.plan) : Due(Phase(x), x.pos, j, x.plan[j])' <=> Due(Phase(x), x.pos, j, x.plan[j])
      BY <2>1, DueKept
    <2> QED
      BY <2>2 DEF Pool, PlanOK
  <1>2. RecOK(x)'
    <2>1. CASE x.at \notin Handling
      BY <2>1 DEF RecOK, Handling, Detours
    <2>2. CASE x.at \in Handling
      <3>1. x.rec \in 1 .. born
        <4>1. x.rec \in 0 .. born /\ x.rec # 0
          BY <2>2 DEF Sorted, Placed, Handling, Detours, WithRec, Callbacks
        <4> QED
          BY <4>1 DEF Ground
      <3>2. Keeps(x.rec) /\ plug'[x.rec] = plug[x.rec]
        BY <3>1
      <3>3. RecOK(x)
        BY DEF Pool
      <3>4. x.at \in Handling => caps'[plug'[x.rec]] = 0
        BY <3>2, <3>3 DEF RecOK
      <3>5. \A S, L : Has(x.rec, S, L)' <=> Has(x.rec, S, L)
        BY <3>2, HasKept
      <3> QED
        BY <3>3, <3>4, <3>5, Zenon DEF RecOK
    <2> QED
      BY <2>1, <2>2
  <1>3. BinOK(x)'
    <2>0. x.bin \in Seq(1 .. born)
      BY DEF Sorted
    <2>1. \A i \in 1 .. Len(x.bin) : x.bin[i] \in 1 .. born
      BY <2>0, Elements
    <2>2. \A i \in 1 .. Len(x.bin) : Fresh(x.bin[i])' <=> Fresh(x.bin[i])
      BY <2>1, StandsKept
    <2> QED
      BY <2>2 DEF Pool, BinOK
  <1> QED
    BY <1>1, <1>2, <1>3 DEF Pool, Apart

\* One with nothing in its hands.
LEMMA CalmPool ==
    ASSUME NEW x, Calm(x), Apart(x)
    PROVE  Pool(x) /\ Pool(x)' /\ ~Engaged(x) /\ \A r : ~InHand(x, r)
  <1>1. /\ x.at \in {"rest", "capture", "import", "enter", "discard"}
        /\ x.at # "enter" => x.bin = <<>>
    BY DEF Calm
  <1>2. x.at \notin Detours /\ Phase(x) \notin Planning /\ x.at \notin Handling
    BY <1>1 DEF Detours, Phase, Planning, Handling
  <1>3. PlanOK(x) /\ PlanOK(x)'
    BY <1>2 DEF PlanOK
  <1>4. RecOK(x) /\ RecOK(x)'
    BY <1>1, <1>2 DEF RecOK
  <1>5. x.bin = <<>> => Distinct(x.bin) /\ 1 .. Len(x.bin) = {}
    BY DEF Distinct
  <1>6. BinOK(x) /\ BinOK(x)'
    BY <1>1, <1>5 DEF BinOK
  <1>7. ~Engaged(x) /\ \A r : ~InHand(x, r)
    BY <1>1, <1>2 DEF Engaged, InHand
  <1> QED
    BY <1>3, <1>4, <1>6, <1>7 DEF Pool, Apart

\* Everyone else has nothing in hand.
Quiet(o) == \A b \in Op \ {o} : Calm(op[b])

LEMMA QuietWhenEngaged ==
    ASSUME Sheltered, Ops, LifeInv, NEW o \in Op,
           Engaged(op[o]) \/ \A b \in Op \ {o} : ~Engaged(op[b])
    PROVE  Quiet(o)
  <1> SUFFICES ASSUME NEW b \in Op \ {o}
               PROVE  Calm(op[b])
    BY DEF Quiet
  <1>1. "boot" \notin Kind
    BY DEF Sheltered
  <1>2. ~Engaged(op[b])
    BY DEF LifeInv, Lone
  <1>3. Apart(op[b])
    BY DEF LifeInv, Pool
  <1>4. op[b].kind # "boot" /\ op[b].at # "files"
    BY <1>1, <1>3 DEF Apart
  <1> QED
    BY <1>2, <1>3, <1>4 DEF Engaged, Calm, Apart

LEMMA QuietAtZero ==
    ASSUME Sheltered, Typed, LifeInv, NEW o \in Op, depth = 0, turn \in {o, NoOp}
    PROVE  Quiet(o)
  <1>1. CASE \A a, b \in Op : a = b
    BY <1>1 DEF Quiet
  <1>2. CASE ~Gaps
    <2>1. \A b \in Op : ~op[b].inside
      BY NobodyInside DEF Typed, BatchInv, Inside
    <2>2. \A b \in Op \ {o} : ~Engaged(op[b])
      BY <1>2, <2>1, RackHostAssumption DEF LifeInv, Lone
    <2> QED
      BY <2>2, QuietWhenEngaged DEF Typed
  <1> QED
    BY <1>1, <1>2 DEF Sheltered

\* Whatever is not in the hand of the only operation that works is idle.
LEMMA KnownTo ==
    ASSUME LifeInv, NEW o \in Op, Quiet(o)
    PROVE  \A r \in 1 .. born : Idle(r) \/ InHand(op[o], r)
  BY CalmPool DEF LifeInv, Known, Quiet, Pool

\* What the only operation that works has to see to.
LEMMA QuietStep ==
    ASSUME Typed, LifeInv, NEW o \in Op, Quiet(o), NEW y,
           DOMAIN op' = Op, op'[o] = y, \A b \in Op \ {o} : op'[b] = op[b],
           Pool(y)', Engaged(y) => y.inside \/ turn' = o,
           Offered',
           \A r \in 1 .. born' : Idle(r)' \/ InHand(y, r),
           \A r \in Rec : r > born' => life'[r] = <<>>
    PROVE  LifeInv'
  <1>1. \A b \in Op \ {o} : Pool(op[b])' /\ ~Engaged(op[b])
    BY CalmPool DEF Quiet, LifeInv, Pool
  <1>2. ASSUME NEW b \in Op
        PROVE  Pool(op[b])'
    <2>1. CASE b = o
      <3>1. PlanOK(op[o])' /\ RecOK(op[o])' /\ BinOK(op[o])' /\ Apart(op[o])'
        BY DEF Pool, PlanOK, RecOK, BinOK, Apart
      <3> QED
        BY <2>1, <3>1 DEF Pool
    <2>2. CASE b # o
      BY <1>1, <2>2 DEF Pool, PlanOK, RecOK, BinOK, Apart
    <2> QED
      BY <2>1, <2>2
  <1>3. Lone'
    BY <1>1 DEF Lone
  <1>4. Known'
    BY DEF Known
  <1> QED
    BY <1>2, <1>3, <1>4 DEF LifeInv

-----------------------------------------------------------------------------
(* What a step makes of the operation that takes it                        *)

Becomes(o, y) == DOMAIN op' = Op /\ op'[o] = y /\ \A b \in Op \ {o} : op'[b] = op[b]

\* y is x at the callback l of record r.
Awaiting(y, x, l, r) ==
    /\ y.at = l /\ y.inside = TRUE /\ y.rec = r
    /\ y.kind = x.kind /\ y.plan = x.plan /\ y.pos = x.pos /\ y.bin = x.bin /\ y.back = x.back

LEMMA RunsTo ==
    ASSUME Ops, NEW o \in Op, NEW x, Runs(o, x)
    PROVE  Becomes(o, x) /\ turn' = o
  BY DEF Ops, Runs, Becomes

LEMMA OverTo ==
    ASSUME Ops, NEW o \in Op, Over(o)
    PROVE  Becomes(o, Resting) /\ turn' = NoOp
  BY DEF Ops, Over, Becomes

LEMMA AwaitsTo ==
    ASSUME Ops, NEW o \in Op, NEW x, DOMAIN x = Fields, NEW l, NEW r, Awaits(o, x, l, r)
    PROVE  turn' = NoOp /\ \E y : Becomes(o, y) /\ Awaiting(y, x, l, r)
  <1> DEFINE y == [x EXCEPT !.at = l, !.inside = TRUE, !.rec = r]
  <1>1. Awaiting(y, x, l, r)
    BY DEF Awaiting, Fields
  <1>2. op' = [op EXCEPT ![o] = y] /\ turn' = NoOp
    BY DEF Awaits
  <1> HIDE DEF y
  <1>3. Becomes(o, y)
    BY <1>2 DEF Becomes, Ops
  <1> QED
    BY <1>1, <1>2, <1>3

-----------------------------------------------------------------------------
(* What a step makes of the records                                        *)

Untouched == UNCHANGED <<born, plug, gen, st, life, inst>>

\* No record but q is touched, and none is made.
Only(q) ==
    /\ UNCHANGED <<born, plug, gen>>
    /\ \A s \in 1 .. born : s # q => Keeps(s)
    /\ \A r \in Rec : r > born => life'[r] = life[r]

LEMMA UntouchedKeeps ==
    ASSUME Untouched
    PROVE  /\ \A s : Keeps(s) /\ plug'[s] = plug[s]
           /\ \A q : Only(q)
  BY DEF Untouched, Keeps, Only

LEMMA RecordRange ==
    ASSUME Ground
    PROVE  born \in Nat /\ \A r \in 1 .. born : r \in Rec /\ plug[r] \in PlugId
  BY RackHostAssumption DEF Ground, Rec

\* A callback of r's plugin is called.
LEMMA CalledOnly ==
    ASSUME Ground, NEW r \in 1 .. born, NEW c, Lives(r, c), UNCHANGED <<born, plug, gen, st, inst>>
    PROVE  /\ Only(r) /\ life'[r] = Append(life[r], c)
           /\ \A S, L, M : Has(r, S, L) /\ (\A e \in L : Append(e, c) \in M) => Has(r, S, M)'
  <1>1. DOMAIN life = Rec /\ r \in Rec /\ \A s \in Rec : s > born => s # r
    BY RecordRange DEF Ground
  <1>2. life'[r] = Append(life[r], c) /\ \A s \in Rec : s # r => life'[s] = life[s]
    BY <1>1 DEF Lives
  <1>3. Only(r)
    BY <1>1, <1>2, RecordRange DEF Only, Keeps
  <1> QED
    BY <1>2, <1>3 DEF Has

\* r gets a state.
LEMMA StatedOnly ==
    ASSUME Ground, NEW r \in 1 .. born, NEW v, st' = [st EXCEPT ![r] = v],
           UNCHANGED <<born, plug, gen, life, inst>>
    PROVE  Only(r) /\ \A S, L : Has(r, S, L) => Has(r, {v}, L)'
  <1>1. DOMAIN st = Rec /\ r \in Rec
    BY RecordRange DEF Ground
  <1>2. st'[r] = v /\ \A s \in Rec : s # r => st'[s] = st[s]
    BY <1>1
  <1>3. Only(r)
    BY <1>2, RecordRange DEF Only, Keeps
  <1> QED
    BY <1>2, <1>3 DEF Has

\* A record that is in the table is destroyed.
LEMMA DestroyedOnly ==
    ASSUME Ground, NEW r \in 1 .. born, inst[plug[r]] = r, life[r] \in Ended,
           st' = [st EXCEPT ![r] = "destroyed"], inst' = [inst EXCEPT ![plug[r]] = 0],
           UNCHANGED <<born, plug, gen, life>>
    PROVE  Only(r) /\ Gone(r)'
  <1>1. DOMAIN st = Rec /\ r \in Rec /\ DOMAIN inst = PlugId /\ plug[r] \in PlugId
    BY RecordRange DEF Ground
  <1>2. st'[r] = "destroyed" /\ \A s \in Rec : s # r => st'[s] = st[s]
    BY <1>1
  <1>3. inst'[plug[r]] = 0 /\ \A p \in PlugId : p # plug[r] => inst'[p] = inst[p]
    BY <1>1
  <1>4. ASSUME NEW s \in 1 .. born, s # r
        PROVE  Keeps(s)
    <2>1. plug'[s] = plug[s] /\ plug[s] \in PlugId /\ s \in Rec /\ s # 0
      BY RecordRange
    <2> QED
      BY <1>2, <1>3, <1>4, <2>1 DEF Keeps
  <1> QED
    BY <1>2, <1>3, <1>4, RecordRange DEF Only, Gone

-----------------------------------------------------------------------------
(* What a step makes of the registry                                       *)

\* A record that is held and not Active is not offered,
LEMMA NotOffered ==
    ASSUME Ground, Offered, NEW r \in 1 .. born, inst[plug[r]] = r, st[r] # "active"
    PROVE  caps[plug[r]] = 0
  BY RecordRange DEF Offered, OfferedIsHeld

\* nor is one that has been withdrawn.
LEMMA WithdrawnIs ==
    ASSUME Ground, Offered, NEW r \in 1 .. born, inst[plug[r]] = r, caps' = Withdrawn(r)
    PROVE  caps'[plug[r]] = 0 /\ \A p \in PlugId : p # plug[r] => caps'[p] = caps[p]
  BY RecordRange DEF Ground, Offered, OfferedIsHeld, Withdrawn

LEMMA OfferedKept ==
    ASSUME Ground, Offered, NEW q \in 1 .. born, Only(q), caps'[plug[q]] = 0,
           \A p \in PlugId : p # plug[q] => caps'[p] = caps[p] /\ inst'[p] = inst[p]
    PROVE  Offered'
  <1> SUFFICES ASSUME NEW p \in PlugId, caps'[p] # 0
               PROVE  inst'[p] # 0 /\ st'[inst'[p]] = "active" /\ gen'[inst'[p]] = caps'[p]
    BY DEF Offered, OfferedIsHeld
  <1>1. p # plug[q] /\ caps'[p] = caps[p] /\ inst'[p] = inst[p]
    OBVIOUS
  <1>2. inst[p] # 0 /\ st[inst[p]] = "active" /\ gen[inst[p]] = caps[p]
    BY <1>1 DEF Offered, OfferedIsHeld
  <1>3. inst[p] \in 1 .. born /\ plug[inst[p]] = p
    BY <1>2, RecordRange DEF Ground
  <1>4. Keeps(inst[p]) /\ gen' = gen
    BY <1>1, <1>3 DEF Only
  <1> QED
    BY <1>1, <1>2, <1>4 DEF Keeps

LEMMA OfferedSame ==
    ASSUME Offered, UNCHANGED <<st, gen, inst, caps>>
    PROVE  Offered'
  BY DEF Offered, OfferedIsHeld

-----------------------------------------------------------------------------
(* Steps that touch no record, and steps that touch one                    *)

\* Pool(y)' from Pool(y), y being what some operation becomes.
LEMMA BecomesKept ==
    ASSUME Typed, Typed', NEW o \in Op, NEW y, Becomes(o, y), Untouched, caps' = caps, Pool(y)
    PROVE  Pool(y)'
  <1>1. Sorted(y, born) /\ Placed(y)
    BY DEF Typed, Ops, Becomes, Untouched
  <1>2. \A s \in 1 .. born : Keeps(s) /\ plug'[s] = plug[s]
    BY UntouchedKeeps
  <1> QED
    BY <1>1, <1>2, PoolKept DEF Typed

LEMMA KeepStep ==
    ASSUME NEW o \in Op, NEW y,
           Typed, Typed', LifeInv, turn \in {o, NoOp}, Becomes(o, y),
           Untouched, caps' = caps, Pool(y),
           Engaged(y) => /\ ~Gaps => y.inside \/ turn' = o
                         /\ Engaged(op[o]) \/ Quiet(o),
           \A r \in 1 .. born : InHand(op[o], r) => Idle(r) \/ InHand(y, r)
    PROVE  LifeInv'
  <1>1. \A s \in 1 .. born : Keeps(s) /\ plug'[s] = plug[s]
    BY UntouchedKeeps
  <1>2. \A b \in Op : Sorted(op[b], born) /\ Placed(op[b]) /\ Pool(op[b])
    BY DEF Typed, Ops, LifeInv
  <1>3. ASSUME NEW b \in Op
        PROVE  Pool(op[b])'
    <2>1. PICK z : z = op'[b]
      OBVIOUS
    <2>2. Pool(z)'
      <3>1. CASE b = o
        BY <2>1, <3>1, BecomesKept DEF Becomes
      <3>2. CASE b # o
        BY <1>1, <1>2, <2>1, <3>2, PoolKept DEF Becomes, Typed, Untouched
      <3> QED
        BY <3>1, <3>2
    <2> QED
      BY <2>1, <2>2 DEF Pool, PlanOK, RecOK, BinOK, Apart
  <1>4. ASSUME NEW b \in Op \ {o}, Engaged(op[b])
        PROVE  ~Engaged(y) /\ (~Gaps => op[b].inside)
    <2>1. ~Engaged(op[o])
      BY <1>4 DEF LifeInv, Lone
    <2>2. ~Quiet(o)
      BY <1>2, <1>4, CalmPool DEF Quiet, Pool
    <2>3. ~Gaps => op[b].inside \/ turn = b
      BY <1>4, Zenon DEF LifeInv, Lone
    <2> QED
      BY <2>1, <2>2, <2>3, RackHostAssumption
  <1>5. Lone'
    BY <1>4 DEF Lone, Becomes, LifeInv
  <1>6. Offered'
    BY OfferedSame DEF LifeInv, Untouched
  <1>7. Known'
    <2>1. ASSUME NEW r \in 1 .. born
          PROVE  Idle(r)' \/ \E b \in Op : InHand(op'[b], r)
      <3>1. CASE Idle(r)
        BY <1>1, <3>1, StandsKept
      <3>2. ASSUME NEW b \in Op, InHand(op[b], r), ~Idle(r)
            PROVE  \E a \in Op : InHand(op'[a], r)
        BY <3>2 DEF Becomes
      <3> QED
        BY <3>1, <3>2 DEF LifeInv, Known
    <2>2. born' = born /\ life' = life
      BY DEF Untouched
    <2> QED
      BY <2>1, <2>2 DEF Known, LifeInv, InHand
  <1> QED
    BY <1>3, <1>5, <1>6, <1>7 DEF LifeInv

LEMMA TouchStep ==
    ASSUME NEW o \in Op, NEW y, NEW q \in 1 .. born,
           Typed, LifeInv, Quiet(o), Becomes(o, y), Only(q), Pool(y)', Offered',
           Engaged(y) => y.inside \/ turn' = o,
           Idle(q)' \/ InHand(y, q),
           \A r \in 1 .. born : r # q /\ InHand(op[o], r) => Idle(r) \/ InHand(y, r)
    PROVE  LifeInv'
  <1>1. ASSUME NEW r \in 1 .. born'
        PROVE  Idle(r)' \/ InHand(y, r)
    <2>1. r \in 1 .. born
      BY DEF Only
    <2>2. CASE r # q
      <3>1. Keeps(r)
        BY <2>1, <2>2 DEF Only
      <3>2. Idle(r) \/ InHand(op[o], r)
        BY <2>1, KnownTo
      <3> QED
        BY <2>1, <2>2, <3>1, <3>2, StandsKept
    <2> QED
      BY <2>2
  <1>2. \A r \in Rec : r > born' => life'[r] = <<>>
    BY DEF Only, LifeInv, Known
  <1> QED
    BY <1>1, <1>2, QuietStep DEF Becomes

-----------------------------------------------------------------------------
(* Steps of a batch along its plan                                         *)

LEMMA PlanElements ==
    ASSUME Typed, NEW o \in Op
    PROVE  /\ Len(op[o].plan) \in Nat /\ \A j \in 1 .. Len(op[o].plan) : op[o].plan[j] \in 1 .. born
           /\ op[o].pos \in Nat
  <1>1. op[o].plan \in Seq(1 .. born) /\ op[o].pos \in Nat
    BY DEF Typed, Ops, Sorted
  <1> QED
    BY <1>1, Elements

\* A batch has its plan in hand and nothing else.
LEMMA InPlan ==
    ASSUME Typed, NEW o \in Op, Phase(op[o]) \in Planning, NEW r, InHand(op[o], r)
    PROVE  \E j \in 1 .. Len(op[o].plan) : op[o].plan[j] = r
  <1> SUFFICES ASSUME op[o].at \in Handling, op[o].rec = r
               PROVE  \E j \in 1 .. Len(op[o].plan) : op[o].plan[j] = r
    BY DEF InHand
  <1>1. op[o].at \in Detours /\ op[o].back \in Planning
    BY DEF Phase, Planning, Handling
  <1>2. Placed(op[o]) /\ op[o].back \in Backs
    BY DEF Typed, Ops, Sorted
  <1>3. op[o].back \in Undoing \/ op[o].back = "discardRest"
    BY <1>1, <1>2 DEF Planning, Backs, Undoing
  <1>4. CASE op[o].back \in Undoing
    <2>1. op[o].pos \in 0 .. Len(op[o].plan) - 1 /\ op[o].rec = op[o].plan[op[o].pos + 1]
      BY <1>1, <1>2, <1>4 DEF Placed, Detours
    <2>2. op[o].pos + 1 \in 1 .. Len(op[o].plan)
      BY <2>1, PlanElements
    <2> QED
      BY <2>1, <2>2
  <1>5. CASE op[o].back = "discardRest"
    <2>1. op[o].at = "destroy"
      BY <1>1, <1>2, <1>5 DEF Placed, Detours, Undoing
    <2>2. op[o].pos \in 2 .. Len(op[o].plan) + 1 /\ op[o].rec = op[o].plan[op[o].pos - 1]
      BY <1>2, <1>5, <2>1 DEF Placed
    <2>3. op[o].pos - 1 \in 1 .. Len(op[o].plan)
      BY <2>2, PlanElements
    <2> QED
      BY <2>2, <2>3
  <1> QED
    BY <1>3, <1>4, <1>5

LEMMA PlanningIs ==
    ASSUME NEW x, Phase(x) \in Planning
    PROVE  /\ Engaged(x)
           /\ x.at \in Planning \/ (x.at \in Detours /\ x.back \in Planning)
           /\ x.at \in Planning => x.at \notin Handling /\ Phase(x) = x.at
           /\ BinOK(x) /\ BinOK(x)' /\ ("boot" \in Kind \/ x.kind # "boot" => Apart(x))
  <1>1. x.at \in Planning \/ (x.at \in Detours /\ x.back \in Planning)
    BY DEF Phase
  <1>2. x.at \in Planning => x.at \notin Handling /\ Phase(x) = x.at
    BY DEF Planning, Handling, Detours, Phase
  <1>3. Engaged(x)
    BY <1>1 DEF Engaged, Planning, Detours
  <1>4. BinOK(x) /\ BinOK(x)'
    BY <1>1 DEF BinOK, Planning, Detours
  <1>5. "boot" \in Kind \/ x.kind # "boot" => Apart(x)
    BY <1>1 DEF Apart, Planning, Detours
  <1> QED
    BY <1>1, <1>2, <1>3, <1>4, <1>5

LEMMA BatchMoves ==
    ASSUME NEW o \in Op, NEW y,
           Typed, Typed', LifeInv, turn \in {o, NoOp}, op[o].at \in Planning,
           Becomes(o, y), y.at \in Planning, y.plan = op[o].plan, y.kind = op[o].kind,
           Untouched, caps' = caps, y.inside \/ turn' = o,
           \A j \in 1 .. Len(y.plan) :
             Due(op[o].at, op[o].pos, j, y.plan[j]) => Due(y.at, y.pos, j, y.plan[j])
    PROVE  LifeInv'
  <1>1. \A x : x.at \in Planning => Phase(x) = x.at /\ x.at \notin Detours
    BY DEF Planning, Detours, Phase
  <1>2. Pool(op[o])
    BY DEF LifeInv
  <1>3. PlanOK(y)
    BY <1>1, <1>2 DEF PlanOK, Pool
  <1>4. RecOK(y)
    BY DEF RecOK, Planning, Handling, Detours
  <1>5. BinOK(y) /\ Apart(y)
    BY <1>1, <1>2, PlanningIs DEF Pool, Apart
  <1>6. Engaged(op[o])
    BY <1>1, PlanningIs
  <1>7. \A r : InHand(op[o], r) => InHand(y, r)
    BY <1>1, PlanningIs DEF InHand
  <1> QED
    BY <1>3, <1>4, <1>5, <1>6, <1>7, KeepStep DEF Pool

LEMMA BatchTouches ==
    ASSUME NEW o \in Op, NEW f \in Planning, NEW y, NEW g \in Planning,
           NEW k \in 1 .. Len(y.plan), NEW q,
           Sheltered, Typed, LifeInv, Phase(op[o]) = f,
           Becomes(o, y), Phase(y) = g, y.plan = op[o].plan, y.kind = op[o].kind,
           y.plan[k] = q, Only(q),
           op[o].at \in Detours => op[o].rec = q,
           IF y.at \in Detours THEN y.rec = q ELSE Due(g, y.pos, k, q)',
           \A j \in 1 .. Len(y.plan) : \A r : j # k /\ Due(f, op[o].pos, j, r) => Due(g, y.pos, j, r),
           RecOK(y)', Offered', y.inside \/ turn' = o
    PROVE  LifeInv'
  <1>1. Engaged(op[o]) /\ Quiet(o)
    BY PlanningIs, QuietWhenEngaged DEF Typed
  <1>2. Pool(op[o]) /\ Distinct(y.plan)
    BY DEF LifeInv, Pool, PlanOK
  <1>3. \A j \in 1 .. Len(y.plan) : y.plan[j] \in 1 .. born
    BY PlanElements
  <1>4. ASSUME NEW j \in 1 .. Len(y.plan), j # k
        PROVE  Due(g, y.pos, j, y.plan[j])'
    <2>1. y.plan[j] # q
      BY <1>2, <1>4 DEF Distinct
    <2>2. Due(f, op[o].pos, j, y.plan[j])
      BY <1>2, <2>1 DEF Pool, PlanOK
    <2>3. Due(g, y.pos, j, y.plan[j])
      BY <1>4, <2>2
    <2>4. Keeps(y.plan[j])
      BY <1>3, <2>1 DEF Only
    <2> QED
      BY <2>3, <2>4, DueKept
  <1>5. PlanOK(y)'
    BY <1>2, <1>4 DEF PlanOK
  <1>6. BinOK(y)' /\ Apart(y)
    BY <1>2, PlanningIs DEF Pool, Apart
  <1>7. Pool(y)'
    BY <1>5, <1>6 DEF Pool, Apart
  <1>8. InHand(y, q) /\ \A r : InHand(op[o], r) => InHand(y, r)
    BY InPlan DEF InHand
  <1> QED
    BY <1>1, <1>3, <1>7, <1>8, TouchStep

-----------------------------------------------------------------------------
(* init() by init()                                                        *)

\* Where an operation is that makes a step.
LEMMA Here ==
    ASSUME Typed, LifeInv, NEW o \in Op, NEW l, At(o, l)
    PROVE  /\ op[o].at = l /\ turn \in {o, NoOp} /\ Pool(op[o])
           /\ DOMAIN op[o] = Fields /\ Sorted(op[o], born) /\ Placed(op[o])
  BY DEF Typed, Ops, Sorted, LifeInv, At

\* Each record of the plan stands as the place and the position tell.
LEMMA AllDue ==
    ASSUME LifeInv, NEW o \in Op, op[o].at \in Planning
    PROVE  /\ Distinct(op[o].plan) /\ Phase(op[o]) = op[o].at
           /\ \A j \in 1 .. Len(op[o].plan) : Due(op[o].at, op[o].pos, j, op[o].plan[j])
  <1>1. op[o].at \notin Detours /\ Phase(op[o]) = op[o].at
    BY DEF Planning, Detours, Phase
  <1> QED
    BY <1>1 DEF LifeInv, Pool, PlanOK

\* What has come of an append.
LEMMA AppendIs ==
    ASSUME NEW S, NEW s \in Seq(S), NEW t \in Seq(S), NEW e \in S,
           Len(t) = Len(s) + 1, t[Len(t)] = e, \A i \in 1 .. Len(s) : t[i] = s[i]
    PROVE  Append(s, e) = t
  <1>1. /\ Append(s, e) \in Seq(S) /\ Len(Append(s, e)) = Len(t)
        /\ \A i \in 1 .. Len(t) : Append(s, e)[i] = t[i]
    OBVIOUS
  <1> QED
    BY <1>1, SeqEqual

LEMMA AppendToOne ==
    ASSUME NEW a, NEW b
    PROVE  Append(<<a>>, b) = <<a, b>>
  <1> DEFINE s == <<a>>
             t == <<a, b>>
  <1>1. s \in Seq({a, b}) /\ t \in Seq({a, b})
    OBVIOUS
  <1>2. Len(t) = Len(s) + 1 /\ t[Len(t)] = b /\ \A i \in 1 .. Len(s) : t[i] = s[i]
    OBVIOUS
  <1>3. Append(s, b) = t
    <2> HIDE DEF s, t
    <2> QED
      BY <1>1, <1>2, AppendIs
  <1> QED
    BY <1>3

LEMMA AppendToTwo ==
    ASSUME NEW a, NEW b, NEW c
    PROVE  Append(<<a, b>>, c) = <<a, b, c>>
  <1> DEFINE s == <<a, b>>
             t == <<a, b, c>>
  <1>1. s \in Seq({a, b, c}) /\ t \in Seq({a, b, c})
    OBVIOUS
  <1>2. Len(t) = Len(s) + 1 /\ t[Len(t)] = c /\ \A i \in 1 .. Len(s) : t[i] = s[i]
    OBVIOUS
  <1>3. Append(s, c) = t
    <2> HIDE DEF s, t
    <2> QED
      BY <1>1, <1>2, AppendIs
  <1> QED
    BY <1>3

LEMMA AppendToThree ==
    ASSUME NEW a, NEW b, NEW c, NEW d
    PROVE  Append(<<a, b, c>>, d) = <<a, b, c, d>>
  <1> DEFINE s == <<a, b, c>>
             t == <<a, b, c, d>>
  <1>1. s \in Seq({a, b, c, d}) /\ t \in Seq({a, b, c, d})
    OBVIOUS
  <1>2. Len(t) = Len(s) + 1 /\ t[Len(t)] = d /\ \A i \in 1 .. Len(s) : t[i] = s[i]
    OBVIOUS
  <1>3. Append(s, d) = t
    <2> HIDE DEF s, t
    <2> QED
      BY <1>1, <1>2, AppendIs
  <1> QED
    BY <1>3

LEMMA Appends ==
    /\ Append(<<>>, "init") = <<"init">> /\ Append(<<"init">>, "start") = <<"init", "start">>
    /\ Append(<<"init">>, "stop") = <<"init", "stop">>
    /\ Append(<<"init", "start">>, "stop") = <<"init", "start", "stop">>
    /\ Append(<<>>, "destroy") = <<"destroy">> /\ Append(<<"init">>, "destroy") = <<"init", "destroy">>
    /\ Append(<<"init", "stop">>, "destroy") = <<"init", "stop", "destroy">>
    /\ Append(<<"init", "start", "stop">>, "destroy") = <<"init", "start", "stop", "destroy">>
  BY AppendToOne, AppendToTwo, AppendToThree

\* The phase of x at callback l.
Onward(x, l) == IF l \in Detours THEN x.back ELSE l

\* A callback c of a record of the plan is called.
LEMMA BatchCalls ==
    ASSUME NEW o \in Op, NEW x, NEW f \in Planning, NEW k \in 1 .. Len(x.plan), NEW q,
           NEW l, NEW c, NEW g \in Planning,
           Sheltered, Typed, LifeInv, Phase(op[o]) = f,
           DOMAIN x = Fields, x.plan = op[o].plan, x.kind = op[o].kind, x.plan[k] = q,
           op[o].at \in Detours => op[o].rec = q,
           Awaits(o, x, l, q), Lives(q, c), UNCHANGED <<born, plug, st, gen, inst, caps>>,
           Onward(x, l) = g,
           \A j \in 1 .. Len(x.plan) : \A r : j # k /\ Due(f, op[o].pos, j, r) => Due(g, x.pos, j, r),
           life'[q] = Append(life[q], c) =>
             /\ RecOK([at |-> l, rec |-> q, back |-> x.back])'
             /\ l \notin Detours => Due(g, x.pos, k, q)'
    PROVE  LifeInv'
  <1>1. q \in 1 .. born
    BY PlanElements
  <1>2. Only(q) /\ life'[q] = Append(life[q], c)
    BY <1>1, CalledOnly DEF Typed
  <1>3. PICK y : Becomes(o, y) /\ Awaiting(y, x, l, q)
    BY AwaitsTo DEF Typed
  <1>4. /\ y.at = l /\ y.inside = TRUE /\ y.rec = q /\ y.back = x.back
        /\ y.plan = op[o].plan /\ y.kind = op[o].kind /\ y.pos = x.pos
        /\ k \in 1 .. Len(y.plan) /\ y.plan[k] = q
    BY <1>3 DEF Awaiting
  <1>5. Phase(y) = g
    BY <1>4 DEF Phase, Onward
  <1>6. RecOK(y)' /\ (l \notin Detours => Due(g, x.pos, k, q)')
    <2> DEFINE z == [at |-> l, rec |-> q, back |-> x.back]
    <2>1. RecOK(z)' /\ (l \notin Detours => Due(g, x.pos, k, q)')
      BY <1>2
    <2>2. z.at = y.at /\ z.rec = y.rec /\ z.back = y.back
      BY <1>4
    <2> HIDE DEF z
    <2> QED
      BY <2>1, <2>2 DEF RecOK
  <1>7. Offered'
    BY OfferedSame DEF LifeInv
  <1>8. IF y.at \in Detours THEN y.rec = q ELSE Due(g, y.pos, k, q)'
    BY <1>4, <1>6
  <1>9. \A j \in 1 .. Len(y.plan) : \A r : j # k /\ Due(f, op[o].pos, j, r) => Due(g, y.pos, j, r)
    BY <1>4
  <1> QED
    BY <1>2, <1>3, <1>4, <1>5, <1>6, <1>7, <1>8, <1>9, BatchTouches

\* An operation at the place l of its batch, before a step of its own.
Standing(o, x, l) ==
    /\ x.at = l /\ turn \in {o, NoOp} /\ DOMAIN x = Fields /\ Placed(x)
    /\ l \in Planning /\ op[o].at = l /\ l \notin Detours /\ Phase(op[o]) = l
    /\ x.plan = op[o].plan /\ x.kind = op[o].kind /\ op[o].pos = x.pos
    /\ x.pos \in Nat /\ Len(x.plan) \in Nat
    /\ \A j \in 1 .. Len(x.plan) : x.plan[j] \in 1 .. born /\ Due(l, x.pos, j, x.plan[j])

LEMMA Stands ==
    ASSUME Typed, LifeInv, NEW o \in Op, NEW l \in Planning, At(o, l), NEW x, x = op[o]
    PROVE  Standing(o, x, l)
  <1>1. /\ x.at = l /\ turn \in {o, NoOp} /\ DOMAIN x = Fields /\ Placed(x)
    BY Here
  <1>2. l \notin Detours
    BY DEF Planning, Detours
  <1>3. Phase(x) = l /\ \A j \in 1 .. Len(x.plan) : Due(l, x.pos, j, x.plan[j])
    BY <1>1, AllDue
  <1> QED
    BY <1>1, <1>2, <1>3, PlanElements DEF Standing

\* An operation that is over leaves idle records behind.
LEMMA OverStep ==
    ASSUME NEW o \in Op, Typed, Typed', LifeInv, turn \in {o, NoOp}, Over(o), Untouched, caps' = caps,
           \A r \in 1 .. born : InHand(op[o], r) => Idle(r)
    PROVE  LifeInv'
  <1>1. Becomes(o, Resting)
    BY OverTo DEF Typed
  <1>2. Calm(Resting) /\ Apart(Resting)
    BY DEF Calm, Apart, Resting
  <1>3. Pool(Resting) /\ ~Engaged(Resting)
    BY <1>2, CalmPool
  <1> QED
    BY <1>1, <1>3, KeepStep

LEMMA BatchOver ==
    ASSUME NEW o \in Op, Typed, Typed', LifeInv, turn \in {o, NoOp}, op[o].at \in Planning,
           Over(o), Untouched, caps' = caps, \A j \in 1 .. Len(op[o].plan) : Idle(op[o].plan[j])
    PROVE  LifeInv'
  <1>1. Phase(op[o]) \in Planning
    BY AllDue
  <1> QED
    BY <1>1, InPlan, OverStep

LEMMA NextInitLives ==
    ASSUME Sheltered, Typed, Typed', LifeInv, NEW o \in Op, NextInit(o)
    PROVE  LifeInv'
  <1>0. PICK x : x = op[o]
    OBVIOUS
  <1>1. Standing(o, x, "nextInit")
    BY <1>0, Stands DEF NextInit, Planning
  <1>2. UNCHANGED <<born, plug, st, gen, inst, caps>>
    BY Zenon DEF NextInit
  <1>3. ASSUME NEW y, y = [x EXCEPT !.at = "nextStart", !.pos = 1], Runs(o, y), x.pos > Len(x.plan), life' = life
        PROVE  LifeInv'
    <2>1. Becomes(o, y) /\ turn' = o
      BY <1>3, RunsTo DEF Typed
    <2>2. y.at = "nextStart" /\ y.pos = 1 /\ y.plan = x.plan /\ y.kind = x.kind
      BY <1>1, <1>3 DEF Fields, Standing
    <2>3. \A j \in 1 .. Len(y.plan) :
            Due(op[o].at, op[o].pos, j, y.plan[j]) => Due(y.at, y.pos, j, y.plan[j])
      BY <1>1, <1>3, <2>2 DEF Standing, Due
    <2> QED
      BY <1>1, <1>2, <1>3, <2>1, <2>2, <2>3, BatchMoves DEF Planning, Untouched, Standing
  <1>4. ASSUME NEW q, q = Planned(o), ~(x.pos > Len(x.plan)), Awaits(o, x, "init", q), Lives(q, "init")
        PROVE  LifeInv'
    <2>1. x.pos \in 1 .. Len(x.plan) /\ q = x.plan[x.pos]
      BY <1>0, <1>1, <1>4 DEF Standing, Placed, Planned
    <2>3. Has(q, {"created"}, {<<>>})
      BY <1>1, <1>4, <2>1 DEF Standing, Due, Fresh
    <2>4. "init" \in Planning /\ Onward(x, "init") = "init"
      BY DEF Planning, Detours, Onward
    <2>5. ASSUME life'[q] = Append(life[q], "init")
          PROVE  RecOK([at |-> "init", rec |-> q, back |-> x.back])' /\ Due("init", x.pos, x.pos, q)'
      <3>1. life'[q] = <<"init">>
        BY <2>3, <2>5, Appends, Zenon DEF Has
      <3>2. Has(q, {"created"}, {<<"init">>})'
        BY <1>2, <2>3, <3>1 DEF Has
      <3> QED
        BY <2>1, <3>2 DEF RecOK, Handling, Detours, Due
    <2>6. \A j \in 1 .. Len(x.plan) : \A r :
            j # x.pos /\ Due("nextInit", x.pos, j, r) => Due("init", x.pos, j, r)
      BY <1>1, <2>1 DEF Standing, Due
    <2>7. "init" \notin Detours
      BY DEF Detours
    <2>8. /\ DOMAIN x = Fields /\ x.plan = op[o].plan /\ x.kind = op[o].kind
          /\ Phase(op[o]) = "nextInit" /\ "nextInit" \in Planning /\ op[o].at \notin Detours
          /\ x.pos \in 1 .. Len(x.plan) /\ x.plan[x.pos] = q
          /\ \A j \in 1 .. Len(x.plan) : \A r :
               j # x.pos /\ Due("nextInit", op[o].pos, j, r) => Due("init", x.pos, j, r)
      BY <1>1, <2>1, <2>6 DEF Standing
    <2> QED
      BY <1>2, <1>4, <2>4, <2>5, <2>7, <2>8, BatchCalls
  <1> QED
    BY <1>0, <1>3, <1>4 DEF NextInit

LEMMA NextStartLives ==
    ASSUME Sheltered, Typed, Typed', LifeInv, NEW o \in Op, NextStart(o)
    PROVE  LifeInv'
  <1>0. PICK x : x = op[o]
    OBVIOUS
  <1>1. Standing(o, x, "nextStart")
    BY <1>0, Stands DEF NextStart, Planning
  <1>2. UNCHANGED <<born, plug, st, gen, inst, caps>>
    BY Zenon DEF NextStart
  <1>3. CASE Over(o) /\ x.pos > Len(x.plan) /\ life' = life
    <2>1. \A j \in 1 .. Len(x.plan) : Idle(x.plan[j])
      BY <1>1, <1>3 DEF Standing, Due, Idle
    <2> QED
      BY <1>1, <1>2, <1>3, <2>1, BatchOver DEF Standing, Untouched
  <1>4. ASSUME NEW q, q = Planned(o), ~(x.pos > Len(x.plan)), Awaits(o, x, "start", q), Lives(q, "start")
        PROVE  LifeInv'
    <2>1. x.pos \in 1 .. Len(x.plan) /\ q = x.plan[x.pos]
      BY <1>0, <1>1, <1>4 DEF Standing, Placed, Planned
    <2>3. Has(q, {"initialized"}, {<<"init">>})
      BY <1>1, <1>4, <2>1 DEF Standing, Due, Inited
    <2>4. "start" \in Planning /\ Onward(x, "start") = "start"
      BY DEF Planning, Detours, Onward
    <2>5. ASSUME life'[q] = Append(life[q], "start")
          PROVE  RecOK([at |-> "start", rec |-> q, back |-> x.back])' /\ Due("start", x.pos, x.pos, q)'
      <3>1. life'[q] = <<"init", "start">>
        BY <2>3, <2>5, Appends, Zenon DEF Has
      <3>2. Has(q, {"initialized"}, {<<"init", "start">>})'
        BY <1>2, <2>3, <3>1 DEF Has
      <3> QED
        BY <2>1, <3>2 DEF RecOK, Handling, Detours, Due
    <2>6. \A j \in 1 .. Len(x.plan) : \A r :
            j # x.pos /\ Due("nextStart", x.pos, j, r) => Due("start", x.pos, j, r)
      BY <1>1, <2>1 DEF Standing, Due
    <2>7. "start" \notin Detours
      BY DEF Detours
    <2>8. /\ DOMAIN x = Fields /\ x.plan = op[o].plan /\ x.kind = op[o].kind
          /\ Phase(op[o]) = "nextStart" /\ "nextStart" \in Planning /\ op[o].at \notin Detours
          /\ x.pos \in 1 .. Len(x.plan) /\ x.plan[x.pos] = q
          /\ \A j \in 1 .. Len(x.plan) : \A r :
               j # x.pos /\ Due("nextStart", op[o].pos, j, r) => Due("start", x.pos, j, r)
      BY <1>1, <2>1, <2>6 DEF Standing
    <2> QED
      BY <1>2, <1>4, <2>4, <2>5, <2>7, <2>8, BatchCalls
  <1> QED
    BY <1>0, <1>3, <1>4 DEF NextStart

LEMMA UndoInitLives ==
    ASSUME Sheltered, Typed, Typed', LifeInv, NEW o \in Op, UndoInit(o)
    PROVE  LifeInv'
  <1>0. PICK x : x = op[o]
    OBVIOUS
  <1>1. Standing(o, x, "undoInit")
    BY <1>0, Stands DEF UndoInit, Planning
  <1>2. UNCHANGED <<born, plug, st, gen, inst, caps>>
    BY Zenon DEF UndoInit
  <1>3. ASSUME NEW y, y = [x EXCEPT !.at = "discardRest", !.pos = 1], Runs(o, y), x.pos = 0, life' = life
        PROVE  LifeInv'
    <2>1. Becomes(o, y) /\ turn' = o
      BY <1>3, RunsTo DEF Typed
    <2>2. y.at = "discardRest" /\ y.pos = 1 /\ y.plan = x.plan /\ y.kind = x.kind
      BY <1>1, <1>3 DEF Fields, Standing
    <2>3. \A j \in 1 .. Len(y.plan) :
            Due(op[o].at, op[o].pos, j, y.plan[j]) => Due(y.at, y.pos, j, y.plan[j])
      BY <1>1, <1>3, <2>2 DEF Standing, Due
    <2> QED
      BY <1>1, <1>2, <1>3, <2>1, <2>2, <2>3, BatchMoves DEF Planning, Untouched, Standing
  <1>4. ASSUME NEW q, q = Planned(o), x.pos # 0,
               NEW z, z = [x EXCEPT !.pos = @ - 1, !.back = "undoInit"],
               Awaits(o, z, "rbstop", q), Lives(q, "stop")
        PROVE  LifeInv'
    <2>1. x.pos \in 1 .. Len(x.plan) /\ q = x.plan[x.pos]
      BY <1>0, <1>1, <1>4 DEF Standing, Placed, Planned, Undoing
    <2>2. /\ DOMAIN z = Fields /\ z.plan = x.plan /\ z.kind = x.kind
          /\ z.pos = x.pos - 1 /\ z.back = "undoInit"
      BY <1>1, <1>4 DEF Standing, Fields
    <2>3. Has(q, {"initialized"}, {<<"init">>})
      BY <1>1, <1>4, <2>1 DEF Standing, Due, Inited
    <2>4. "undoInit" \in Planning /\ Onward(z, "rbstop") = "undoInit"
      BY <2>2 DEF Planning, Detours, Onward
    <2>5. ASSUME life'[q] = Append(life[q], "stop")
          PROVE  RecOK([at |-> "rbstop", rec |-> q, back |-> z.back])'
      <3>1. life'[q] = <<"init", "stop">>
        BY <2>3, <2>5, Appends, Zenon DEF Has
      <3>2. Has(q, {"active", "initialized"}, {<<"init", "stop">>, <<"init", "start", "stop">>})'
        BY <1>2, <2>3, <3>1 DEF Has
      <3>3. caps'[plug'[q]] = 0
        BY <1>1, <1>2, <2>1, <2>3, NotOffered DEF Standing, Has, Typed, LifeInv
      <3> QED
        BY <2>2, <3>2, <3>3 DEF RecOK, Handling, Detours
    <2>6. \A j \in 1 .. Len(x.plan) : \A r :
            j # x.pos /\ Due("undoInit", x.pos, j, r) => Due("undoInit", z.pos, j, r)
      BY <1>1, <2>1, <2>2 DEF Standing, Due
    <2>7. "rbstop" \in Detours
      BY DEF Detours
    <2>8. /\ DOMAIN z = Fields /\ z.plan = op[o].plan /\ z.kind = op[o].kind
          /\ Phase(op[o]) = "undoInit" /\ "undoInit" \in Planning /\ op[o].at \notin Detours
          /\ x.pos \in 1 .. Len(z.plan) /\ z.plan[x.pos] = q
          /\ \A j \in 1 .. Len(z.plan) : \A r :
               j # x.pos /\ Due("undoInit", op[o].pos, j, r) => Due("undoInit", z.pos, j, r)
      BY <1>1, <2>1, <2>2, <2>6 DEF Standing
    <2> QED
      BY <1>2, <1>4, <2>4, <2>5, <2>7, <2>8, BatchCalls
  <1> QED
    BY <1>0, <1>3, <1>4 DEF UndoInit

LEMMA DiscardRestLives ==
    ASSUME Sheltered, Typed, Typed', LifeInv, NEW o \in Op, DiscardRest(o)
    PROVE  LifeInv'
  <1>0. PICK x : x = op[o]
    OBVIOUS
  <1>1. Standing(o, x, "discardRest")
    BY <1>0, Stands DEF DiscardRest, Planning
  <1>2. UNCHANGED <<born, plug, st, gen, inst, caps>>
    BY Zenon DEF DiscardRest
  <1>3. CASE Over(o) /\ x.pos > Len(x.plan) /\ life' = life
    <2>1. \A j \in 1 .. Len(x.plan) : Idle(x.plan[j])
      BY <1>1, <1>3 DEF Standing, Due, Idle
    <2> QED
      BY <1>1, <1>2, <1>3, <2>1, BatchOver DEF Standing, Untouched
  <1>4. ASSUME NEW q, q = Planned(o), ~(x.pos > Len(x.plan)), st[q] = "created",
               NEW z, z = [x EXCEPT !.pos = @ + 1, !.back = "discardRest"],
               Awaits(o, z, "destroy", q), Lives(q, "destroy")
        PROVE  LifeInv'
    <2>1. x.pos \in 1 .. Len(x.plan) /\ q = x.plan[x.pos]
      BY <1>0, <1>1, <1>4 DEF Standing, Placed, Planned
    <2>2. /\ DOMAIN z = Fields /\ z.plan = x.plan /\ z.kind = x.kind
          /\ z.pos = x.pos + 1 /\ z.back = "discardRest"
      BY <1>1, <1>4 DEF Standing, Fields
    <2>3. Has(q, {"created"}, {<<>>, <<"init">>})
      BY <1>1, <1>4, <2>1 DEF Standing, Due, Half, Gone
    <2>4. "discardRest" \in Planning /\ Onward(z, "destroy") = "discardRest"
      BY <2>2 DEF Planning, Detours, Onward
    <2>5. ASSUME life'[q] = Append(life[q], "destroy")
          PROVE  RecOK([at |-> "destroy", rec |-> q, back |-> z.back])'
      <3>1. life'[q] \in {<<"destroy">>, <<"init", "destroy">>}
        BY <2>3, <2>5, Appends DEF Has
      <3>2. Has(q, {"created"}, {<<"destroy">>, <<"init", "destroy">>})'
        BY <1>2, <2>3, <3>1 DEF Has
      <3>3. caps'[plug'[q]] = 0
        BY <1>1, <1>2, <2>1, <2>3, NotOffered DEF Standing, Has, Typed, LifeInv
      <3> QED
        BY <2>2, <3>2, <3>3 DEF RecOK, Handling, Detours
    <2>6. \A j \in 1 .. Len(x.plan) : \A r :
            j # x.pos /\ Due("discardRest", x.pos, j, r) => Due("discardRest", z.pos, j, r)
      BY <1>1, <2>1, <2>2 DEF Standing, Due
    <2>7. "destroy" \in Detours
      BY DEF Detours
    <2>8. /\ DOMAIN z = Fields /\ z.plan = op[o].plan /\ z.kind = op[o].kind
          /\ Phase(op[o]) = "discardRest" /\ "discardRest" \in Planning /\ op[o].at \notin Detours
          /\ x.pos \in 1 .. Len(z.plan) /\ z.plan[x.pos] = q
          /\ \A j \in 1 .. Len(z.plan) : \A r :
               j # x.pos /\ Due("discardRest", op[o].pos, j, r) => Due("discardRest", z.pos, j, r)
      BY <1>1, <2>1, <2>2, <2>6 DEF Standing
    <2> QED
      BY <1>2, <1>4, <2>4, <2>5, <2>7, <2>8, BatchCalls
  <1>5. ASSUME NEW y, y = [x EXCEPT !.pos = @ + 1], Runs(o, y), ~(x.pos > Len(x.plan)), st[Planned(o)] # "created", life' = life
        PROVE  LifeInv'
    <2>1. Becomes(o, y) /\ turn' = o
      BY <1>5, RunsTo DEF Typed
    <2>2. y.at = "discardRest" /\ y.pos = x.pos + 1 /\ y.plan = x.plan /\ y.kind = x.kind
      BY <1>1, <1>5 DEF Fields, Standing
    <2>3. \A j \in 1 .. Len(y.plan) :
            Due(op[o].at, op[o].pos, j, y.plan[j]) => Due(y.at, y.pos, j, y.plan[j])
      BY <1>1, <1>5, <2>2 DEF Standing, Due, Half, Has, Planned
    <2> QED
      BY <1>1, <1>2, <1>5, <2>1, <2>2, <2>3, BatchMoves DEF Planning, Untouched, Standing
  <1> QED
    BY <1>0, <1>3, <1>4, <1>5 DEF DiscardRest

-----------------------------------------------------------------------------
(* What callbacks of a batch come to                                       *)

\* A record that becomes Active may be registered.
LEMMA OfferedActive ==
    ASSUME NEW q \in 1 .. born, Ground, Offered, Only(q), inst' = inst, inst[plug[q]] = q,
           st'[q] = "active", caps[plug[q]] = 0,
           caps' = caps \/ caps' = [caps EXCEPT ![plug[q]] = gen[q]]
    PROVE  Offered'
  <1> SUFFICES ASSUME NEW p \in PlugId, caps'[p] # 0
               PROVE  inst'[p] # 0 /\ st'[inst'[p]] = "active" /\ gen'[inst'[p]] = caps'[p]
    BY DEF Offered, OfferedIsHeld
  <1>1. gen' = gen /\ q # 0
    BY RecordRange DEF Only
  <1>2. CASE p = plug[q]
    <2>1. caps'[p] = gen[q]
      BY <1>2 DEF Ground
    <2> QED
      BY <1>1, <1>2, <2>1
  <1>3. CASE p # plug[q]
    <2>1. caps'[p] = caps[p]
      BY <1>3 DEF Ground
    <2>2. inst[p] # 0 /\ st[inst[p]] = "active" /\ gen[inst[p]] = caps[p]
      BY <2>1 DEF Offered, OfferedIsHeld
    <2>3. inst[p] \in 1 .. born /\ plug[inst[p]] = p
      BY <2>2, RecordRange DEF Ground
    <2>4. Keeps(inst[p])
      BY <1>3, <2>3 DEF Only
    <2> QED
      BY <1>1, <2>1, <2>2, <2>4 DEF Keeps
  <1> QED
    BY <1>2, <1>3

LEMMA InitEndsLives ==
    ASSUME Sheltered, Typed, Typed', LifeInv, NEW o \in Op, InitEnds(o)
    PROVE  LifeInv'
  <1>0. PICK x : x = op[o]
    OBVIOUS
  <1>1. Standing(o, x, "init")
    BY <1>0, Stands DEF InitEnds, Planning
  <1>2. UNCHANGED <<born, plug, gen, inst, caps, life>>
    BY Zenon DEF InitEnds, hostVars
  <1>3. ASSUME NEW y, y = [x EXCEPT !.at = "nextInit", !.pos = @ + 1], Runs(o, y),
               NEW q, q = x.rec, st' = [st EXCEPT ![q] = "initialized"]
        PROVE  LifeInv'
    <2>1. x.pos \in 1 .. Len(x.plan) /\ q = x.plan[x.pos] /\ q \in 1 .. born
      BY <1>1, <1>3 DEF Standing, Placed
    <2>2. Becomes(o, y) /\ turn' = o
      BY <1>3, RunsTo DEF Typed
    <2>3. /\ y.at = "nextInit" /\ y.pos = x.pos + 1 /\ y.plan = x.plan /\ y.kind = x.kind
          /\ "nextInit" \in Planning /\ Phase(y) = "nextInit" /\ y.at \notin Detours
      BY <1>1, <1>3 DEF Fields, Standing, Phase, Planning, Detours
    <2>4. Has(q, {"created"}, {<<"init">>})
      BY <1>1, <2>1 DEF Standing, Due
    <2>5. Only(q) /\ Has(q, {"initialized"}, {<<"init">>})'
      BY <1>2, <1>3, <2>1, <2>4, StatedOnly DEF Typed
    <2>6. Due("nextInit", y.pos, x.pos, q)'
      BY <2>1, <2>3, <2>5 DEF Due, Inited
    <2>7. Offered'
      <3>1. caps'[plug[q]] = 0
        BY <1>2, <2>1, <2>4, NotOffered DEF Has, Typed, LifeInv
      <3> QED
        BY <1>2, <2>1, <2>5, <3>1, OfferedKept DEF Typed, LifeInv
    <2>8. RecOK(y)'
      BY <2>3 DEF RecOK, Handling, Detours
    <2>9. /\ Phase(op[o]) = "init" /\ "init" \in Planning /\ y.plan = op[o].plan /\ y.kind = op[o].kind
          /\ x.pos \in 1 .. Len(y.plan) /\ y.plan[x.pos] = q
          /\ op[o].at \in Detours => op[o].rec = q
          /\ \A j \in 1 .. Len(y.plan) : \A r :
               j # x.pos /\ Due("init", op[o].pos, j, r) => Due("nextInit", y.pos, j, r)
      BY <1>1, <2>1, <2>3 DEF Standing, Due
    <2> QED
      BY <2>2, <2>3, <2>5, <2>6, <2>7, <2>8, <2>9, BatchTouches
  <1>4. ASSUME NEW y, y = [x EXCEPT !.at = "undoInit", !.pos = @ - 1], Runs(o, y), st' = st
        PROVE  LifeInv'
    <2>1. Becomes(o, y) /\ turn' = o
      BY <1>4, RunsTo DEF Typed
    <2>2. y.at = "undoInit" /\ y.pos = x.pos - 1 /\ y.plan = x.plan /\ y.kind = x.kind
      BY <1>1, <1>4 DEF Fields, Standing
    <2>3. \A j \in 1 .. Len(y.plan) :
            Due(op[o].at, op[o].pos, j, y.plan[j]) => Due(y.at, y.pos, j, y.plan[j])
      BY <1>1, <1>4, <2>2 DEF Standing, Due, Half, Fresh, Inited, Has
    <2> QED
      BY <1>1, <1>2, <1>4, <2>1, <2>2, <2>3, BatchMoves DEF Planning, Untouched, Standing
  <1> QED
    BY <1>0, <1>3, <1>4 DEF InitEnds

LEMMA StartEndsLives ==
    ASSUME Sheltered, Typed, Typed', LifeInv, NEW o \in Op, StartEnds(o)
    PROVE  LifeInv'
  <1>0. PICK x : x = op[o]
    OBVIOUS
  <1>1. Standing(o, x, "start")
    BY <1>0, Stands DEF StartEnds, Planning
  <1>2. UNCHANGED <<born, plug, gen, inst, life>>
    BY Zenon DEF StartEnds
  <1>3. ASSUME NEW z, NEW l \in {"drain", "register"}, NEW q, q = x.rec, Awaits(o, z, l, q),
               DOMAIN z = Fields, z.plan = x.plan, z.kind = x.kind, z.pos = x.pos,
               st' = [st EXCEPT ![q] = "active"],
               caps' = caps \/ caps' = [caps EXCEPT ![plug[q]] = gen[q]]
        PROVE  LifeInv'
    <2>1. x.pos \in 1 .. Len(x.plan) /\ q = x.plan[x.pos] /\ q \in 1 .. born
      BY <1>1, <1>3 DEF Standing, Placed
    <2>2. PICK y : Becomes(o, y) /\ Awaiting(y, z, l, q)
      BY <1>3, AwaitsTo DEF Typed
    <2>3. /\ y.at = l /\ y.inside = TRUE /\ y.pos = x.pos /\ y.plan = x.plan /\ y.kind = x.kind
          /\ l \in Planning /\ Phase(y) = l /\ y.at \notin Detours
      BY <1>3, <2>2 DEF Awaiting, Phase, Planning, Detours
    <2>4. Has(q, {"initialized"}, {<<"init", "start">>})
      BY <1>1, <2>1 DEF Standing, Due
    <2>5. Only(q) /\ Has(q, {"active"}, {<<"init", "start">>})'
      BY <1>2, <1>3, <2>1, <2>4, StatedOnly DEF Typed
    <2>6. Due(l, y.pos, x.pos, q)'
      BY <1>3, <2>1, <2>3, <2>5 DEF Due, Served
    <2>7. Offered'
      <3>1. caps[plug[q]] = 0
        BY <2>1, <2>4, NotOffered DEF Has, Typed, LifeInv
      <3>2. st'[q] = "active" /\ inst[plug[q]] = q
        BY <2>4, <2>5 DEF Has
      <3> QED
        BY <1>2, <1>3, <2>1, <2>5, <3>1, <3>2, OfferedActive DEF Typed, LifeInv
    <2>8. RecOK(y)'
      BY <1>3, <2>3 DEF RecOK, Handling, Detours
    <2>9. /\ Phase(op[o]) = "start" /\ "start" \in Planning /\ y.plan = op[o].plan /\ y.kind = op[o].kind
          /\ x.pos \in 1 .. Len(y.plan) /\ y.plan[x.pos] = q
          /\ op[o].at \in Detours => op[o].rec = q
          /\ \A j \in 1 .. Len(y.plan) : \A r :
               j # x.pos /\ Due("start", op[o].pos, j, r) => Due(l, y.pos, j, r)
      BY <1>1, <1>3, <2>1, <2>3 DEF Standing, Due
    <2> QED
      BY <2>2, <2>3, <2>5, <2>6, <2>7, <2>8, <2>9, BatchTouches
  <1>4. ASSUME NEW y, y = [x EXCEPT !.at = "undoStart", !.pos = Len(x.plan)], Runs(o, y), st' = st, caps' = caps
        PROVE  LifeInv'
    <2>1. Becomes(o, y) /\ turn' = o
      BY <1>4, RunsTo DEF Typed
    <2>2. y.at = "undoStart" /\ y.pos = Len(x.plan) /\ y.plan = x.plan /\ y.kind = x.kind
      BY <1>1, <1>4 DEF Fields, Standing
    <2>3. \A j \in 1 .. Len(y.plan) :
            Due(op[o].at, op[o].pos, j, y.plan[j]) => Due(y.at, y.pos, j, y.plan[j])
      BY <1>1, <1>4, <2>2 DEF Standing, Due, Served, Inited, Has
    <2> QED
      BY <1>1, <1>2, <1>4, <2>1, <2>2, <2>3, BatchMoves DEF Planning, Untouched, Standing
  <1>5. CASE x.status = "ok"
    <2>1. PICK q : q = x.rec
      OBVIOUS
    <2>2. st' = [st EXCEPT ![q] = "active"]
      BY <1>0, <1>5, <2>1 DEF StartEnds
    <2>3. \/ Awaits(o, x, "drain", q) /\ caps' = caps
          \/ Awaits(o, x, "register", q) /\ caps' = [caps EXCEPT ![plug[q]] = gen[q]]
          \/ Awaits(o, [x EXCEPT !.status = "failed"], "register", q) /\ caps' = caps
      BY <1>0, <1>5, <2>1 DEF StartEnds
    <2>4. PICK z : z = [x EXCEPT !.status = "failed"]
      OBVIOUS
    <2>5. DOMAIN x = Fields /\ DOMAIN z = Fields /\ z.plan = x.plan /\ z.kind = x.kind /\ z.pos = x.pos
      BY <1>1, <2>4 DEF Standing, Fields
    <2>6. Awaits(o, z, "register", q) \/ ~Awaits(o, [x EXCEPT !.status = "failed"], "register", q)
      BY <2>4
    <2> QED
      BY <1>3, <2>1, <2>2, <2>3, <2>5, <2>6
  <1>6. CASE x.status # "ok"
    BY <1>0, <1>4, <1>6 DEF StartEnds
  <1> QED
    BY <1>5, <1>6

LEMMA RegisterEndsLives ==
    ASSUME Sheltered, Typed, Typed', LifeInv, NEW o \in Op, RegisterEnds(o)
    PROVE  LifeInv'
  <1>0. PICK x : x = op[o]
    OBVIOUS
  <1>1. Standing(o, x, "register")
    BY <1>0, Stands DEF RegisterEnds, Planning
  <1>2. UNCHANGED <<born, plug, st, gen, life, inst, caps>>
    BY Zenon DEF RegisterEnds, recVars
  <1>3. CASE Awaits(o, x, "drain", x.rec)
    <2>1. PICK y : Becomes(o, y) /\ Awaiting(y, x, "drain", x.rec)
      BY <1>1, <1>3, AwaitsTo DEF Typed, Standing
    <2>2. y.at = "drain" /\ y.inside = TRUE /\ y.pos = x.pos /\ y.plan = x.plan /\ y.kind = x.kind
      BY <2>1 DEF Awaiting
    <2>3. \A j \in 1 .. Len(y.plan) :
            Due(op[o].at, op[o].pos, j, y.plan[j]) => Due(y.at, y.pos, j, y.plan[j])
      BY <1>1, <2>2 DEF Standing, Due
    <2> QED
      BY <1>1, <1>2, <2>1, <2>2, <2>3, BatchMoves DEF Planning, Untouched, Standing
  <1>4. ASSUME NEW y, y = [x EXCEPT !.at = "undoStart", !.pos = Len(x.plan)], Runs(o, y), TRUE
        PROVE  LifeInv'
    <2>1. Becomes(o, y) /\ turn' = o
      BY <1>4, RunsTo DEF Typed
    <2>2. y.at = "undoStart" /\ y.pos = Len(x.plan) /\ y.plan = x.plan /\ y.kind = x.kind
      BY <1>1, <1>4 DEF Fields, Standing
    <2>3. \A j \in 1 .. Len(y.plan) :
            Due(op[o].at, op[o].pos, j, y.plan[j]) => Due(y.at, y.pos, j, y.plan[j])
      BY <1>1, <1>4, <2>2 DEF Standing, Due, Served, Inited, Has
    <2> QED
      BY <1>1, <1>2, <1>4, <2>1, <2>2, <2>3, BatchMoves DEF Planning, Untouched, Standing
  <1> QED
    BY <1>0, <1>3, <1>4 DEF RegisterEnds

LEMMA DrainEndsLives ==
    ASSUME Sheltered, Typed, Typed', LifeInv, NEW o \in Op, DrainEnds(o)
    PROVE  LifeInv'
  <1>0. PICK x : x = op[o]
    OBVIOUS
  <1>1. Standing(o, x, "drain")
    BY <1>0, Stands DEF DrainEnds, Planning
  <1>2. UNCHANGED <<born, plug, st, gen, life, inst, caps>>
    BY Zenon DEF DrainEnds, recVars, hostVars
  <1>3. ASSUME NEW y, y = [x EXCEPT !.at = "nextStart", !.pos = @ + 1], Runs(o, y), TRUE
        PROVE  LifeInv'
    <2>1. Becomes(o, y) /\ turn' = o
      BY <1>3, RunsTo DEF Typed
    <2>2. y.at = "nextStart" /\ y.pos = x.pos + 1 /\ y.plan = x.plan /\ y.kind = x.kind
      BY <1>1, <1>3 DEF Fields, Standing
    <2>3. \A j \in 1 .. Len(y.plan) :
            Due(op[o].at, op[o].pos, j, y.plan[j]) => Due(y.at, y.pos, j, y.plan[j])
      BY <1>1, <1>3, <2>2 DEF Standing, Due
    <2> QED
      BY <1>1, <1>2, <1>3, <2>1, <2>2, <2>3, BatchMoves DEF Planning, Untouched, Standing
  <1> QED
    BY <1>0, <1>3 DEF DrainEnds

-----------------------------------------------------------------------------
(* Records going down                                                      *)

LEMMA UndoStartLives ==
    ASSUME Sheltered, Typed, Typed', LifeInv, NEW o \in Op, UndoStart(o)
    PROVE  LifeInv'
  <1>0. PICK x : x = op[o]
    OBVIOUS
  <1>1. Standing(o, x, "undoStart")
    BY <1>0, Stands DEF UndoStart, Planning
  <1>2. UNCHANGED <<born, plug, st, gen, inst>>
    BY Zenon DEF UndoStart
  <1>3. CASE x.pos = 0
    <2>1. \A j \in 1 .. Len(x.plan) : Idle(x.plan[j])
      BY <1>1, <1>3 DEF Standing, Due, Idle
    <2>2. Over(o) /\ UNCHANGED <<life, caps>>
      BY <1>0, <1>3 DEF UndoStart
    <2> QED
      BY <1>1, <1>2, <2>1, <2>2, BatchOver DEF Standing, Untouched
  <1>4. CASE x.pos # 0
    <2>0. PICK q : q = Planned(o)
      OBVIOUS
    <2>1. x.pos \in 1 .. Len(x.plan) /\ q = x.plan[x.pos] /\ q \in 1 .. born /\ q # 0
      BY <1>0, <1>1, <1>4, <2>0, RecordRange DEF Standing, Placed, Planned, Undoing
    <2>2. Served(q) \/ Has(q, {"initialized"}, {<<"init">>, <<"init", "start">>})
      BY <1>1, <2>1 DEF Standing, Due
    <2>3. Has(q, {"active", "initialized"}, {<<"init">>, <<"init", "start">>})
      BY <2>2 DEF Served, Has
    <2>4. PICK z : z = [x EXCEPT !.pos = @ - 1, !.back = "undoStart"]
      OBVIOUS
    <2>5. Awaits(o, z, "rbwithdraw", q) /\ caps' = Withdrawn(q) /\ life' = life
      <3>1. inst[plug[q]] # 0 /\ ~NeverInitialized(q)
        BY <2>1, <2>3 DEF Has, NeverInitialized
      <3> QED
        BY <1>0, <1>4, <2>0, <2>4, <3>1 DEF UndoStart
    <2>6. DOMAIN z = Fields /\ z.plan = x.plan /\ z.kind = x.kind /\ z.pos = x.pos - 1 /\ z.back = "undoStart"
      BY <1>1, <2>4 DEF Standing, Fields
    <2>7. PICK y : Becomes(o, y) /\ Awaiting(y, z, "rbwithdraw", q)
      BY <2>5, <2>6, AwaitsTo DEF Typed
    <2>8. /\ y.at = "rbwithdraw" /\ y.inside = TRUE /\ y.rec = q /\ y.pos = x.pos - 1
          /\ y.plan = x.plan /\ y.kind = x.kind
          /\ "undoStart" \in Planning /\ Phase(y) = "undoStart" /\ y.at \in Detours
      BY <2>6, <2>7 DEF Awaiting, Phase, Planning, Detours
    <2>9. /\ Phase(op[o]) = "undoStart" /\ "undoStart" \in Planning /\ y.plan = op[o].plan /\ y.kind = op[o].kind
          /\ x.pos \in 1 .. Len(y.plan) /\ y.plan[x.pos] = q
          /\ op[o].at \in Detours => op[o].rec = q
          /\ \A j \in 1 .. Len(y.plan) : \A r :
               j # x.pos /\ Due("undoStart", op[o].pos, j, r) => Due("undoStart", y.pos, j, r)
      BY <1>1, <2>1, <2>8 DEF Standing, Due
    <2>10. Untouched /\ Only(q)
      BY <1>2, <2>5, UntouchedKeeps DEF Untouched
    <2>11. caps'[plug[q]] = 0 /\ \A p \in PlugId : p # plug[q] => caps'[p] = caps[p]
      BY <2>1, <2>3, <2>5, WithdrawnIs DEF Has, Typed, LifeInv
    <2>12. Offered'
      BY <1>2, <2>1, <2>10, <2>11, OfferedKept DEF Typed, LifeInv
    <2>13. RecOK(y)'
      BY <1>2, <2>3, <2>5, <2>8, <2>11 DEF RecOK, Has
    <2> QED
      BY <2>7, <2>8, <2>9, <2>10, <2>12, <2>13, BatchTouches
  <1> QED
    BY <1>3, <1>4

LEMMA RollbackWithdrawnLives ==
    ASSUME Sheltered, Typed, Typed', LifeInv, NEW o \in Op, RollbackWithdrawn(o)
    PROVE  LifeInv'
  <1>0. PICK x, q, f : x = op[o] /\ q = x.rec /\ f = x.back
    OBVIOUS
  <1>1. /\ x.at = "rbwithdraw" /\ turn \in {o, NoOp} /\ DOMAIN x = Fields
        /\ Sorted(x, born) /\ Placed(x) /\ RecOK(x)
    BY <1>0, Here DEF RollbackWithdrawn, Pool
  <1>2. UNCHANGED <<born, plug, st, gen, inst, caps>> /\ Awaits(o, x, "rbstop", q) /\ Lives(q, "stop")
    BY <1>0, Zenon DEF RollbackWithdrawn
  <1>3. f \in {"undoStart"} /\ f \in Planning
    BY <1>0, <1>1 DEF Placed, Undoing, Planning
  <1>4. /\ x.pos \in Nat /\ Len(x.plan) \in Nat /\ x.pos + 1 \in 1 .. Len(x.plan)
        /\ q = x.plan[x.pos + 1] /\ q \in 1 .. born
    <2>1. x.pos \in 0 .. Len(x.plan) - 1 /\ q = x.plan[x.pos + 1]
      BY <1>0, <1>1, <1>3 DEF Placed, Undoing
    <2>2. x.pos + 1 \in 1 .. Len(x.plan)
      BY <1>0, <2>1, PlanElements
    <2> QED
      BY <1>0, <2>1, <2>2, PlanElements
  <1>5. Has(q, {"active", "initialized"}, {<<"init">>, <<"init", "start">>}) /\ caps[plug[q]] = 0
    BY <1>0, <1>1 DEF RecOK, Handling, Detours
  <1>6. ASSUME life'[q] = Append(life[q], "stop")
        PROVE  RecOK([at |-> "rbstop", rec |-> q, back |-> x.back])'
    <2>1. life'[q] \in {<<"init", "stop">>, <<"init", "start", "stop">>}
      BY <1>5, <1>6, Appends DEF Has
    <2>2. Has(q, {"active", "initialized"}, {<<"init", "stop">>, <<"init", "start", "stop">>})'
      BY <1>2, <1>5, <2>1 DEF Has
    <2>3. caps'[plug'[q]] = 0
      BY <1>2, <1>5
    <2> QED
      BY <1>0, <1>3, <2>2, <2>3 DEF RecOK, Handling, Detours
  <1>7. /\ "rbstop" \in Detours /\ Onward(x, "rbstop") = f
        /\ x.at \in Detours /\ Phase(x) = f
    BY <1>0, <1>1 DEF Detours, Onward, Phase
  <1>8. /\ Phase(op[o]) = f /\ f \in Planning /\ x.plan = op[o].plan /\ x.kind = op[o].kind /\ DOMAIN x = Fields
        /\ x.pos + 1 \in 1 .. Len(x.plan) /\ x.plan[x.pos + 1] = q
        /\ op[o].at \in Detours => op[o].rec = q
        /\ \A j \in 1 .. Len(x.plan) : \A r :
             j # x.pos + 1 /\ Due(f, op[o].pos, j, r) => Due(f, x.pos, j, r)
    BY <1>0, <1>1, <1>3, <1>4, <1>7
  <1> QED
    BY <1>2, <1>6, <1>7, <1>8, BatchCalls, SMTT(60)

LEMMA RollbackStoppedLives ==
    ASSUME Sheltered, Typed, Typed', LifeInv, NEW o \in Op, RollbackStopped(o)
    PROVE  LifeInv'
  <1>0. PICK x, q, f : x = op[o] /\ q = x.rec /\ f = x.back
    OBVIOUS
  <1>1. /\ x.at = "rbstop" /\ turn \in {o, NoOp} /\ DOMAIN x = Fields
        /\ Sorted(x, born) /\ Placed(x) /\ RecOK(x)
    BY <1>0, Here DEF RollbackStopped, Pool
  <1>2. UNCHANGED <<born, plug, st, gen, inst, caps>> /\ Awaits(o, x, "destroy", q) /\ Lives(q, "destroy")
    BY <1>0, Zenon DEF RollbackStopped
  <1>3. f \in Undoing /\ f \in Planning
    BY <1>0, <1>1 DEF Placed, Undoing, Planning
  <1>4. /\ x.pos \in Nat /\ Len(x.plan) \in Nat /\ x.pos + 1 \in 1 .. Len(x.plan)
        /\ q = x.plan[x.pos + 1] /\ q \in 1 .. born
    <2>1. x.pos \in 0 .. Len(x.plan) - 1 /\ q = x.plan[x.pos + 1]
      BY <1>0, <1>1, <1>3 DEF Placed, Undoing
    <2>2. x.pos + 1 \in 1 .. Len(x.plan)
      BY <1>0, <2>1, PlanElements
    <2> QED
      BY <1>0, <2>1, <2>2, PlanElements
  <1>5. Has(q, {"active", "initialized"}, {<<"init", "stop">>, <<"init", "start", "stop">>}) /\ caps[plug[q]] = 0
    BY <1>0, <1>1 DEF RecOK, Handling, Detours
  <1>6. ASSUME life'[q] = Append(life[q], "destroy")
        PROVE  RecOK([at |-> "destroy", rec |-> q, back |-> x.back])'
    <2>1. life'[q] \in {<<"init", "stop", "destroy">>, <<"init", "start", "stop", "destroy">>}
      BY <1>5, <1>6, Appends DEF Has
    <2>2. Has(q, {"active", "initialized"}, {<<"init", "stop", "destroy">>, <<"init", "start", "stop", "destroy">>})'
      BY <1>2, <1>5, <2>1 DEF Has
    <2>3. caps'[plug'[q]] = 0
      BY <1>2, <1>5
    <2> QED
      <3>1. Has(q, {"active", "initialized", "revoking"},
                {<<"init", "stop", "destroy">>, <<"init", "start", "stop", "destroy">>})'
        BY <2>2 DEF Has
      <3>2. x.back # "rest"
        BY <1>0, <1>3 DEF Undoing
      <3> QED
        BY <2>3, <3>1, <3>2 DEF RecOK, Handling, Detours
  <1>7. /\ "destroy" \in Detours /\ Onward(x, "destroy") = f
        /\ x.at \in Detours /\ Phase(x) = f
    BY <1>0, <1>1 DEF Detours, Onward, Phase
  <1>8. /\ Phase(op[o]) = f /\ f \in Planning /\ x.plan = op[o].plan /\ x.kind = op[o].kind /\ DOMAIN x = Fields
        /\ x.pos + 1 \in 1 .. Len(x.plan) /\ x.plan[x.pos + 1] = q
        /\ op[o].at \in Detours => op[o].rec = q
        /\ \A j \in 1 .. Len(x.plan) : \A r :
             j # x.pos + 1 /\ Due(f, op[o].pos, j, r) => Due(f, x.pos, j, r)
    BY <1>0, <1>1, <1>3, <1>4, <1>7
  <1> QED
    BY <1>2, <1>6, <1>7, <1>8, BatchCalls, SMTT(60)

\* The record in the hand of an operation.
LEMMA RecIs ==
    ASSUME Typed, NEW o \in Op, op[o].at \in WithRec
    PROVE  op[o].rec \in 1 .. born
  <1>1. op[o].rec \in 0 .. born /\ op[o].rec # 0
    BY DEF Typed, Ops, Sorted, Placed
  <1> QED
    BY <1>1, RecordRange DEF Typed

LEMMA DestroyEndsLives ==
    ASSUME Sheltered, Typed, Typed', LifeInv, NEW o \in Op, DestroyEnds(o)
    PROVE  LifeInv'
  <1>0. PICK x, q, f, y : /\ x = op[o] /\ q = x.rec /\ f = x.back
                          /\ y = [op[o] EXCEPT !.at = op[o].back, !.back = "rest", !.rec = 0]
    OBVIOUS
  <1>1. /\ x.at = "destroy" /\ turn \in {o, NoOp} /\ DOMAIN x = Fields
        /\ Sorted(x, born) /\ Placed(x) /\ Pool(x) /\ RecOK(x)
    BY <1>0, Here DEF DestroyEnds, Pool
  <1>2. /\ st' = [st EXCEPT ![q] = "destroyed"] /\ inst' = [inst EXCEPT ![plug[q]] = 0]
        /\ Runs(o, y) /\ UNCHANGED <<born, plug, gen, life, caps>>
    BY <1>0, Zenon DEF DestroyEnds
  <1>3. Becomes(o, y) /\ turn' = o
    BY <1>2, RunsTo DEF Typed
  <1>4. /\ y.at = f /\ y.plan = x.plan /\ y.pos = x.pos /\ y.kind = x.kind /\ y.bin = x.bin
    BY <1>0, <1>1 DEF Fields
  <1>5. q \in 1 .. born
    BY <1>0, <1>1, RecIs DEF WithRec, Callbacks
  <1>6. f # "rest" /\ caps[plug[q]] = 0 /\ inst[plug[q]] = q /\ life[q] \in Ended
    <2>1. f # "rest" /\ caps[plug[q]] = 0
      BY <1>0, <1>1 DEF RecOK, Handling, Detours
    <2>2. \/ Has(q, {"created"}, {<<"destroy">>, <<"init", "destroy">>})
          \/ Has(q, {"active", "initialized", "revoking"},
                 {<<"init", "stop", "destroy">>, <<"init", "start", "stop", "destroy">>})
      BY <1>0, <1>1 DEF RecOK
    <2> QED
      BY <2>1, <2>2 DEF Has, Ended
  <1>7. Only(q) /\ Gone(q)'
    BY <1>2, <1>5, <1>6, DestroyedOnly DEF Typed
  <1>8. Offered'
    <2>1. caps'[plug[q]] = 0 /\ \A p \in PlugId : p # plug[q] => caps'[p] = caps[p] /\ inst'[p] = inst[p]
      BY <1>2, <1>6 DEF Typed, Ground
    <2> QED
      BY <1>5, <1>7, <2>1, OfferedKept DEF Typed, LifeInv
  <1>9. CASE f \in {"undoInit", "undoStart", "discardRest"}
    <2>1. PICK k : k = IF f = "discardRest" THEN x.pos - 1 ELSE x.pos + 1
      OBVIOUS
    <2>2. x.pos \in Nat /\ Len(x.plan) \in Nat /\ k \in 1 .. Len(x.plan) /\ q = x.plan[k]
      <3>1. x.pos \in Nat /\ Len(x.plan) \in Nat
        BY <1>0, PlanElements
      <3>2. CASE f = "discardRest"
        BY <1>0, <1>1, <2>1, <3>1, <3>2 DEF Placed
      <3>3. CASE f \in Undoing
        <4>1. x.pos \in 0 .. Len(x.plan) - 1 /\ q = x.plan[x.pos + 1]
          BY <1>0, <1>1, <3>3 DEF Placed
        <4>2. k = x.pos + 1
          BY <2>1, <3>3 DEF Undoing
        <4> QED
          BY <3>1, <4>1, <4>2
      <3> QED
        BY <1>9, <3>2, <3>3 DEF Undoing
    <2>3. f \in Planning /\ Phase(y) = f /\ y.at \notin Detours
      BY <1>4, <1>9 DEF Planning, Phase, Detours
    <2>4. Phase(op[o]) = f
      BY <1>0, <1>1 DEF Phase, Detours
    <2>5. Due(f, y.pos, k, q)'
      BY <1>4, <1>7, <1>9, <2>1, <2>2 DEF Due
    <2>6. RecOK(y)'
      BY <1>4, <1>9 DEF RecOK, Handling, Detours
    <2>7. /\ y.plan = op[o].plan /\ y.kind = op[o].kind
          /\ k \in 1 .. Len(y.plan) /\ y.plan[k] = q
          /\ op[o].at \in Detours => op[o].rec = q
          /\ \A j \in 1 .. Len(y.plan) : \A r : j # k /\ Due(f, op[o].pos, j, r) => Due(f, y.pos, j, r)
      BY <1>0, <1>4, <2>2
    <2> QED
      BY <1>3, <1>7, <1>8, <2>3, <2>4, <2>5, <2>6, <2>7, BatchTouches
  <1>10. CASE f \in {"discard", "unloaded"}
    <2>1. Engaged(op[o])
      BY <1>0, <1>1 DEF Engaged
    <2>2. Quiet(o)
      BY <2>1, QuietWhenEngaged DEF Typed
    <2>3. \A r : InHand(op[o], r) => r = q
      BY <1>0, <1>1, <1>10 DEF InHand, Phase, Detours, Planning
    <2>4. PlanOK(y)' /\ RecOK(y)'
      BY <1>4, <1>10 DEF PlanOK, RecOK, Phase, Planning, Handling, Detours
    <2>5. Apart(y)
      BY <1>0, <1>1, <1>4, <1>10 DEF Pool, Apart
    <2>6. BinOK(y)'
      <3>1. CASE f = "unloaded"
        BY <1>4, <3>1 DEF BinOK
      <3>2. CASE f = "discard"
        <4>1. Distinct(x.bin) /\ \A i \in 1 .. Len(x.bin) : Fresh(x.bin[i]) /\ x.bin[i] # q
          BY <1>0, <1>1, <3>2 DEF Pool, BinOK
        <4>2. x.bin \in Seq(1 .. born)
          BY <1>1 DEF Sorted
        <4>3. \A i \in 1 .. Len(x.bin) : x.bin[i] \in 1 .. born
          BY <4>2, Elements
        <4>4. \A i \in 1 .. Len(x.bin) : Fresh(x.bin[i])'
          BY <1>7, <4>1, <4>3, StandsKept DEF Only
        <4> QED
          BY <1>4, <3>2, <4>1, <4>4 DEF BinOK
      <3> QED
        BY <1>10, <3>1, <3>2
    <2>7. Pool(y)'
      BY <2>4, <2>5, <2>6 DEF Pool, Apart
    <2>8. Idle(q)'
      BY <1>7 DEF Idle
    <2> QED
      BY <1>3, <1>5, <1>7, <1>8, <2>2, <2>3, <2>7, <2>8, TouchStep
  <1>11. f \in Backs
    BY <1>0, <1>1 DEF Sorted
  <1> QED
    BY <1>6, <1>9, <1>10, <1>11 DEF Backs

-----------------------------------------------------------------------------
(* Unloads, one after another                                              *)

\* Where an operation has neither a plan nor a record in hand.
Plain ==
    {"rest", "enter", "files", "capture", "import", "discard", "make",
     "unload", "unloaded", "next", "polldrain", "polldone"}

LEMMA PlainPool ==
    ASSUME NEW y, y.at \in Plain
    PROVE  /\ PlanOK(y) /\ RecOK(y) /\ PlanOK(y)' /\ RecOK(y)' /\ \A r : ~InHand(y, r)
           /\ BinOK(y) /\ Apart(y) => Pool(y)
           /\ BinOK(y)' /\ Apart(y) => Pool(y)'
  <1>1. /\ y.at \notin Detours /\ y.at \notin Handling /\ Phase(y) \notin Planning
        /\ y.at \notin {"rbwithdraw", "rbstop", "destroy", "withdraw", "revoke", "stop"}
    BY DEF Plain, Detours, Handling, Phase, Planning
  <1>2. PlanOK(y) /\ PlanOK(y)'
    BY <1>1 DEF PlanOK
  <1>3. RecOK(y) /\ RecOK(y)'
    BY <1>1 DEF RecOK
  <1>4. \A r : ~InHand(y, r)
    BY <1>1 DEF InHand
  <1> QED
    BY <1>2, <1>3, <1>4 DEF Pool, Apart

\* Between two unloads, and around them.
Between == {"unload", "unloaded", "next", "polldrain", "polldone"}

LEMMA BetweenIs ==
    ASSUME NEW x, x.at \in Between
    PROVE  x.at \in Plain /\ Engaged(x) /\ BinOK(x) /\ BinOK(x)'
  BY DEF Between, Plain, Engaged, BinOK

LEMMA BetweenStep ==
    ASSUME NEW o \in Op, NEW x, NEW y, NEW l, Typed, Typed', LifeInv, At(o, l), x = op[o], l \in Between,
           Becomes(o, y), y.at \in Between, y.bin = x.bin, y.kind = x.kind,
           Untouched, caps' = caps, y.inside \/ turn' = o
    PROVE  LifeInv'
  <1>1. x.at = l /\ turn \in {o, NoOp} /\ Pool(x)
    BY Here
  <1>2. y.at \in Plain /\ BinOK(y) /\ Engaged(op[o]) /\ \A r : ~InHand(op[o], r)
    BY <1>1, BetweenIs, PlainPool
  <1>3. Apart(y)
    BY <1>1 DEF Pool, Apart, Between
  <1>4. Pool(y)
    BY <1>2, <1>3, PlainPool
  <1> QED
    BY <1>1, <1>2, <1>4, KeepStep

LEMMA BetweenOver ==
    ASSUME NEW o \in Op, NEW l, Typed, Typed', LifeInv, At(o, l), l \in Plain,
           Over(o), Untouched, caps' = caps
    PROVE  LifeInv'
  <1>1. op[o].at = l /\ turn \in {o, NoOp}
    BY Here
  <1>2. \A r : ~InHand(op[o], r)
    BY <1>1, PlainPool
  <1> QED
    BY <1>1, <1>2, OverStep

LEMMA PollDrainedLives ==
    ASSUME Sheltered, Typed, Typed', LifeInv, NEW o \in Op, PollDrained(o)
    PROVE  LifeInv'
  <1>1. PICK x, y : x = op[o] /\ y = [op[o] EXCEPT !.at = "next", !.ids = deferred]
    OBVIOUS
  <1>2. At(o, "polldrain") /\ Runs(o, y) /\ Untouched /\ caps' = caps
    BY <1>1, Zenon DEF PollDrained, recVars, hostVars, Untouched
  <1>3. Becomes(o, y) /\ turn' = o
    BY <1>2, RunsTo DEF Typed
  <1>4. y.at \in Between /\ y.bin = x.bin /\ y.kind = x.kind /\ "polldrain" \in Between
    BY <1>1, <1>2, Here DEF Fields, Between
  <1> QED
    BY <1>1, <1>2, <1>3, <1>4, BetweenStep

LEMMA NextUnloadLives ==
    ASSUME Sheltered, Typed, Typed', LifeInv, NEW o \in Op, NextUnload(o)
    PROVE  LifeInv'
  <1>1. At(o, "next") /\ Untouched /\ caps' = caps
    BY Zenon DEF NextUnload, recVars, Untouched
  <1>2. PICK ids : ids = IF op[o].kind = "poll" THEN Copied(o) ELSE op[o].ids
    OBVIOUS
  <1>3. \/ Runs(o, [op[o] EXCEPT !.ids = Tail(ids)])
        \/ Runs(o, [[op[o] EXCEPT !.ids = Tail(ids)] EXCEPT !.at = "unload", !.id = Head(ids)])
    BY <1>2 DEF NextUnload
  <1>4. PICK x : x = op[o]
    OBVIOUS
  <1>5. x.at = "next" /\ DOMAIN x = Fields
    BY <1>1, <1>4, Here
  <1>6. \E y : Runs(o, y) /\ y.at \in Between /\ y.bin = x.bin /\ y.kind = x.kind
    <2>1. PICK z : z = [x EXCEPT !.ids = Tail(ids)]
      OBVIOUS
    <2>2. DOMAIN z = Fields /\ z.at = "next" /\ z.bin = x.bin /\ z.kind = x.kind
      BY <1>5, <2>1 DEF Fields
    <2>3. PICK y : y = [z EXCEPT !.at = "unload", !.id = Head(ids)]
      OBVIOUS
    <2>4. y.at = "unload" /\ y.bin = x.bin /\ y.kind = x.kind
      BY <2>2, <2>3 DEF Fields
    <2>5. Runs(o, z) \/ Runs(o, y)
      BY <1>3, <1>4, <2>1, <2>3
    <2> QED
      BY <2>2, <2>4, <2>5 DEF Between
  <1>7. PICK y : Runs(o, y) /\ y.at \in Between /\ y.bin = x.bin /\ y.kind = x.kind
    BY <1>6
  <1>8. Becomes(o, y) /\ turn' = o
    BY <1>7, RunsTo DEF Typed
  <1>9. "next" \in Between
    BY DEF Between
  <1> QED
    BY <1>1, <1>4, <1>7, <1>8, <1>9, BetweenStep

LEMMA NoMoreUnloadsLives ==
    ASSUME Sheltered, Typed, Typed', LifeInv, NEW o \in Op, NoMoreUnloads(o)
    PROVE  LifeInv'
  <1>1. At(o, "next") /\ Untouched /\ caps' = caps
    BY Zenon DEF NoMoreUnloads, recVars, Untouched
  <1>2. "next" \in Between /\ "next" \in Plain /\ "polldone" \in Between
    BY DEF Between, Plain
  <1>3. CASE Over(o)
    BY <1>1, <1>2, <1>3, BetweenOver
  <1>4. CASE Awaits(o, op[o], "polldone", 0)
    <2>1. PICK x : x = op[o]
      OBVIOUS
    <2>2. PICK y : Becomes(o, y) /\ Awaiting(y, x, "polldone", 0)
      BY <1>1, <1>4, <2>1, Here, AwaitsTo DEF Typed
    <2>3. y.at = "polldone" /\ y.inside /\ y.bin = x.bin /\ y.kind = x.kind
      BY <2>2 DEF Awaiting
    <2> QED
      BY <1>1, <1>2, <2>1, <2>2, <2>3, BetweenStep
  <1> QED
    BY <1>3, <1>4 DEF NoMoreUnloads

LEMMA PollEndsLives ==
    ASSUME Sheltered, Typed, Typed', LifeInv, NEW o \in Op, PollEnds(o)
    PROVE  LifeInv'
  <1>1. At(o, "polldone") /\ Over(o) /\ Untouched /\ caps' = caps
    BY Zenon DEF PollEnds, recVars, hostVars, Untouched
  <1>2. "polldone" \in Plain
    BY DEF Plain
  <1> QED
    BY <1>1, <1>2, BetweenOver

LEMMA UnloadedLives ==
    ASSUME Sheltered, Typed, Typed', LifeInv, NEW o \in Op, Unloaded(o)
    PROVE  LifeInv'
  <1>1. At(o, "unloaded") /\ Untouched /\ caps' = caps
    BY Zenon DEF Unloaded, recVars, Untouched
  <1>2. "unloaded" \in Between /\ "unloaded" \in Plain /\ "next" \in Between
    BY DEF Between, Plain
  <1>3. PICK x, y, z : /\ x = op[o] /\ y = [op[o] EXCEPT !.at = "next"]
                       /\ z = [op[o] EXCEPT !.at = "capture"]
    OBVIOUS
  <1>4. x.at = "unloaded" /\ DOMAIN x = Fields /\ turn \in {o, NoOp} /\ Pool(x)
    BY <1>1, <1>3, Here
  <1>5. \/ Over(o) \/ Runs(o, y)
        \/ x.kind = "reload" /\ Runs(o, z)
    BY <1>3 DEF Unloaded, GoOn
  <1>6. CASE Over(o)
    BY <1>1, <1>2, <1>6, BetweenOver
  <1>7. CASE Runs(o, y)
    <2>1. Becomes(o, y) /\ turn' = o
      BY <1>7, RunsTo DEF Typed
    <2>2. y.at = "next" /\ y.bin = x.bin /\ y.kind = x.kind
      BY <1>3, <1>4 DEF Fields
    <2> QED
      BY <1>1, <1>2, <1>3, <2>1, <2>2, BetweenStep
  <1>8. CASE x.kind = "reload" /\ Runs(o, z)
    <2>1. Becomes(o, z) /\ turn' = o
      BY <1>8, RunsTo DEF Typed
    <2>2. z.at = "capture" /\ z.bin = x.bin /\ z.kind = x.kind
      BY <1>3, <1>4 DEF Fields
    <2>3. z.bin = <<>> /\ Apart(z)
      BY <1>4, <1>8, <2>2 DEF Pool, Apart
    <2>4. Calm(z)
      BY <2>2, <2>3 DEF Calm
    <2>5. Pool(z) /\ ~Engaged(z)
      BY <2>3, <2>4, CalmPool
    <2>6. \A r : ~InHand(op[o], r)
      BY <1>2, <1>3, <1>4, PlainPool
    <2> QED
      BY <1>1, <1>4, <2>1, <2>5, <2>6, KeepStep
  <1> QED
    BY <1>5, <1>6, <1>7, <1>8

\* An operation that takes a record down: what it has in hand and what stays with it.
Taking == {"withdraw", "revoke", "stop"}

LEMMA TakingIs ==
    ASSUME NEW o \in Op, NEW x, NEW l \in Taking, Typed, LifeInv, Sheltered, At(o, l), x = op[o]
    PROVE  /\ x.at = l /\ turn \in {o, NoOp} /\ DOMAIN x = Fields /\ RecOK(x) /\ Apart(x)
           /\ x.rec \in 1 .. born /\ x.back = "unloaded" /\ caps[plug[x.rec]] = 0
           /\ Engaged(op[o]) /\ Quiet(o) /\ \A r : InHand(op[o], r) => r = x.rec
  <1>1. /\ x.at = l /\ turn \in {o, NoOp} /\ DOMAIN x = Fields /\ Placed(x) /\ Pool(x)
    BY Here
  <1>2. x.at \in WithRec /\ x.at \in Handling /\ Phase(x) \notin Planning
    BY <1>1 DEF Taking, WithRec, Callbacks, Handling, Detours, Phase, Planning
  <1>3. x.rec \in 1 .. born
    BY <1>2, RecIs
  <1>4. x.back = "unloaded"
    BY <1>1 DEF Placed, Taking
  <1>5. RecOK(x) /\ Apart(x) /\ caps[plug[x.rec]] = 0
    BY <1>1, <1>2 DEF Pool, RecOK
  <1>6. Engaged(op[o])
    BY <1>1 DEF Engaged, Taking
  <1>7. Quiet(o)
    BY <1>6, QuietWhenEngaged DEF Typed
  <1>8. \A r : InHand(op[o], r) => r = x.rec
    BY <1>2 DEF InHand
  <1> QED
    BY <1>1, <1>3, <1>4, <1>5, <1>6, <1>7, <1>8

\* Such an operation comes to a callback of a record that it keeps in hand.
LEMMA TakesOn ==
    ASSUME NEW o \in Op, NEW x, NEW y, NEW q \in 1 .. born, NEW l \in Taking \cup {"destroy"},
           Typed, LifeInv, Quiet(o), Becomes(o, y), Awaiting(y, x, l, q), x.back = "unloaded",
           Only(q), Offered', Apart(x),
           x.at \in {"unload", "withdraw", "revoke", "stop"},
           \A r : InHand(op[o], r) => r = q,
           RecOK([at |-> l, rec |-> q, back |-> "unloaded"])'
    PROVE  LifeInv'
  <1>1. /\ y.at = l /\ y.rec = q /\ y.inside = TRUE /\ y.back = "unloaded"
        /\ y.bin = x.bin /\ y.kind = x.kind
    BY DEF Awaiting
  <1>2. y.at \in Handling /\ Phase(y) \notin Planning
    BY <1>1 DEF Taking, Handling, Detours, Phase, Planning
  <1>3. PlanOK(y)'
    BY <1>2 DEF PlanOK
  <1>4. RecOK(y)'
    <2> DEFINE z == [at |-> l, rec |-> q, back |-> "unloaded"]
    <2>1. RecOK(z)'
      OBVIOUS
    <2>2. z.at = y.at /\ z.rec = y.rec /\ z.back = y.back
      BY <1>1
    <2> HIDE DEF z
    <2> QED
      BY <2>1, <2>2 DEF RecOK
  <1>5. BinOK(y)'
    BY <1>1 DEF BinOK, Taking
  <1>6. Apart(y)
    BY <1>1 DEF Apart, Taking
  <1>7. Pool(y)'
    BY <1>3, <1>4, <1>5, <1>6 DEF Pool, Apart
  <1>8. InHand(y, q)
    BY <1>1, <1>2 DEF InHand
  <1> QED
    BY <1>1, <1>7, <1>8, TouchStep

\* It is through with the record, which is idle from now on.
LEMMA TakesOff ==
    ASSUME NEW o \in Op, NEW x, NEW y, NEW q \in 1 .. born,
           Typed, LifeInv, Quiet(o), Becomes(o, y), turn' = o, y.at = "unloaded",
           y.bin = x.bin, y.kind = x.kind, Apart(x), x.at \in Taking,
           Only(q), Offered', \A r : InHand(op[o], r) => r = q, Idle(q)'
    PROVE  LifeInv'
  <1>1. BinOK(y)' /\ Apart(y) /\ y.at \in Plain
    BY DEF BinOK, Apart, Plain, Taking
  <1>2. Pool(y)'
    BY <1>1, PlainPool
  <1> QED
    BY <1>2, TouchStep

LEMMA WithdrawEndsLives ==
    ASSUME Sheltered, Typed, Typed', LifeInv, NEW o \in Op, WithdrawEnds(o)
    PROVE  LifeInv'
  <1>0. PICK x, q : x = op[o] /\ q = x.rec
    OBVIOUS
  <1>1. At(o, "withdraw") /\ Awaits(o, x, "revoke", q) /\ UNCHANGED <<recVars, inst, caps>>
    BY <1>0, Zenon DEF WithdrawEnds
  <1>2. UNCHANGED <<born, plug, st, gen, life, inst, caps>>
    BY <1>1 DEF recVars
  <1>3. "withdraw" \in Taking
    BY DEF Taking
  <1>4. /\ x.at = "withdraw" /\ DOMAIN x = Fields /\ RecOK(x) /\ Apart(x)
        /\ q \in 1 .. born /\ x.back = "unloaded" /\ caps[plug[q]] = 0
        /\ Quiet(o) /\ \A r : InHand(op[o], r) => r = q
    BY <1>0, <1>1, <1>3, TakingIs
  <1>5. PICK y : Becomes(o, y) /\ Awaiting(y, x, "revoke", q)
    BY <1>1, <1>4, AwaitsTo DEF Typed
  <1>6. Only(q) /\ Offered'
    BY <1>2, UntouchedKeeps, OfferedSame DEF Untouched, LifeInv
  <1>7. RecOK([at |-> "revoke", rec |-> q, back |-> "unloaded"])'
    <2>1. Has(q, {"revoking"}, {<<"init", "start">>})
      BY <1>0, <1>4 DEF RecOK
    <2>2. Has(q, {"revoking"}, {<<"init", "start">>})' /\ caps'[plug'[q]] = 0
      BY <1>2, <1>4, <2>1 DEF Has
    <2> QED
      BY <2>2 DEF RecOK
  <1>8. "revoke" \in Taking \cup {"destroy"}
    BY DEF Taking
  <1> QED
    BY <1>4, <1>5, <1>6, <1>7, <1>8, TakesOn

LEMMA RevokeEndsLives ==
    ASSUME Sheltered, Typed, Typed', LifeInv, NEW o \in Op, RevokeEnds(o)
    PROVE  LifeInv'
  <1>0. PICK x, q : x = op[o] /\ q = x.rec
    OBVIOUS
  <1>1. At(o, "revoke") /\ UNCHANGED <<born, plug, gen, inst, caps>>
    BY <1>0, Zenon DEF RevokeEnds
  <1>2. "revoke" \in Taking
    BY DEF Taking
  <1>3. /\ x.at = "revoke" /\ DOMAIN x = Fields /\ RecOK(x) /\ Apart(x) /\ turn \in {o, NoOp}
        /\ q \in 1 .. born /\ x.back = "unloaded" /\ caps[plug[q]] = 0
        /\ Engaged(op[o]) /\ Quiet(o) /\ \A r : InHand(op[o], r) => r = q
    BY <1>0, <1>1, <1>2, TakingIs
  <1>4. Has(q, {"revoking"}, {<<"init", "start">>})
    BY <1>0, <1>3 DEF RecOK
  <1>5. CASE x.status = "failed"
    <2>1. PICK y : y = [x EXCEPT !.at = "unloaded"]
      OBVIOUS
    <2>2. st' = [st EXCEPT ![q] = "faulted"] /\ life' = life /\ Runs(o, y)
      BY <1>0, <1>5, <2>1 DEF RevokeEnds, GoOn
    <2>3. Becomes(o, y) /\ turn' = o
      BY <2>2, RunsTo DEF Typed
    <2>4. y.at = "unloaded" /\ y.bin = x.bin /\ y.kind = x.kind
      BY <1>3, <2>1 DEF Fields
    <2>5. Only(q) /\ Has(q, {"faulted"}, {<<"init", "start">>})'
      BY <1>1, <1>3, <1>4, <2>2, StatedOnly DEF Typed
    <2>6. Idle(q)'
      BY <2>5 DEF Idle, Isolated, Has
    <2>7. Offered'
      BY <1>1, <1>3, <2>5, OfferedKept DEF Typed, LifeInv
    <2>8. x.at \in Taking
      BY <1>2, <1>3
    <2> QED
      BY <1>3, <2>3, <2>4, <2>5, <2>6, <2>7, <2>8, TakesOff
  <1>6. CASE x.status = "ok" /\ inFlight[q] > 0
    <2>1. PICK y : y = [x EXCEPT !.at = "unloaded", !.status = "busy"]
      OBVIOUS
    <2>2. st' = st /\ life' = life /\ Runs(o, y)
      BY <1>0, <1>6, <2>1 DEF RevokeEnds
    <2>3. Becomes(o, y) /\ turn' = o
      BY <2>2, RunsTo DEF Typed
    <2>4. y.at = "unloaded" /\ y.bin = x.bin /\ y.kind = x.kind
      BY <1>3, <2>1 DEF Fields
    <2>5. Idle(q)
      BY <1>4 DEF Idle, Isolated
    <2>6. BinOK(y) /\ Apart(y) /\ y.at \in Plain
      BY <1>3, <2>4 DEF BinOK, Apart, Plain
    <2>7. Pool(y)
      BY <2>6, PlainPool
    <2>8. Untouched /\ caps' = caps
      BY <1>1, <2>2 DEF Untouched
    <2>9. \A r \in 1 .. born : InHand(op[o], r) => Idle(r)
      BY <1>3, <2>5
    <2> QED
      BY <1>3, <2>3, <2>7, <2>8, <2>9, KeepStep
  <1>7. CASE x.status = "ok" /\ inFlight[q] = 0
    <2>1. st' = st /\ Lives(q, "stop") /\ Awaits(o, x, "stop", q)
      BY <1>0, <1>7 DEF RevokeEnds
    <2>2. PICK y : Becomes(o, y) /\ Awaiting(y, x, "stop", q)
      BY <1>3, <2>1, AwaitsTo DEF Typed
    <2>3. Only(q) /\ life'[q] = Append(life[q], "stop")
      BY <1>1, <1>3, <2>1, CalledOnly DEF Typed
    <2>4. life'[q] = <<"init", "start", "stop">>
      BY <1>4, <2>3, Appends, Zenon DEF Has
    <2>5. Has(q, {"revoking"}, {<<"init", "start", "stop">>})' /\ caps'[plug'[q]] = 0
      BY <1>1, <1>3, <1>4, <2>1, <2>4 DEF Has
    <2>6. RecOK([at |-> "stop", rec |-> q, back |-> "unloaded"])'
      BY <2>5 DEF RecOK
    <2>7. Offered'
      BY <1>1, <2>1, OfferedSame DEF LifeInv
    <2>8. "stop" \in Taking \cup {"destroy"}
      BY DEF Taking
    <2> QED
      BY <1>3, <2>2, <2>3, <2>6, <2>7, <2>8, TakesOn
  <1>8. \/ x.status = "failed"
        \/ x.status = "ok" /\ inFlight[q] > 0
        \/ x.status = "ok" /\ inFlight[q] = 0
    BY <1>0, Zenon DEF RevokeEnds
  <1> QED
    BY <1>5, <1>6, <1>7, <1>8

LEMMA StopEndsLives ==
    ASSUME Sheltered, Typed, Typed', LifeInv, NEW o \in Op, StopEnds(o)
    PROVE  LifeInv'
  <1>0. PICK x, q : x = op[o] /\ q = x.rec
    OBVIOUS
  <1>1. At(o, "stop") /\ UNCHANGED <<born, plug, gen, inst, caps>>
    BY <1>0, Zenon DEF StopEnds
  <1>2. "stop" \in Taking
    BY DEF Taking
  <1>3. /\ x.at = "stop" /\ DOMAIN x = Fields /\ RecOK(x) /\ Apart(x) /\ turn \in {o, NoOp}
        /\ q \in 1 .. born /\ x.back = "unloaded" /\ caps[plug[q]] = 0
        /\ Quiet(o) /\ \A r : InHand(op[o], r) => r = q
    BY <1>0, <1>1, <1>2, TakingIs
  <1>4. Has(q, {"revoking"}, {<<"init", "start", "stop">>})
    BY <1>0, <1>3 DEF RecOK
  <1>5. CASE x.status # "ok"
    <2>1. PICK y : y = [x EXCEPT !.at = "unloaded"]
      OBVIOUS
    <2>2. st' = [st EXCEPT ![q] = "faulted"] /\ life' = life /\ Runs(o, y)
      BY <1>0, <1>5, <2>1 DEF StopEnds, GoOn
    <2>3. Becomes(o, y) /\ turn' = o
      BY <2>2, RunsTo DEF Typed
    <2>4. y.at = "unloaded" /\ y.bin = x.bin /\ y.kind = x.kind
      BY <1>3, <2>1 DEF Fields
    <2>5. Only(q) /\ Has(q, {"faulted"}, {<<"init", "start", "stop">>})'
      BY <1>1, <1>3, <1>4, <2>2, StatedOnly DEF Typed
    <2>6. Idle(q)'
      BY <2>5 DEF Idle, Isolated, Has
    <2>7. Offered'
      BY <1>1, <1>3, <2>5, OfferedKept DEF Typed, LifeInv
    <2>8. x.at \in Taking
      BY <1>2, <1>3
    <2> QED
      BY <1>3, <2>3, <2>4, <2>5, <2>6, <2>7, <2>8, TakesOff
  <1>6. CASE x.status = "ok"
    <2>1. st' = st /\ Lives(q, "destroy") /\ Awaits(o, x, "destroy", q)
      BY <1>0, <1>6 DEF StopEnds
    <2>2. PICK y : Becomes(o, y) /\ Awaiting(y, x, "destroy", q)
      BY <1>3, <2>1, AwaitsTo DEF Typed
    <2>3. Only(q) /\ life'[q] = Append(life[q], "destroy")
      BY <1>1, <1>3, <2>1, CalledOnly DEF Typed
    <2>4. life'[q] = <<"init", "start", "stop", "destroy">>
      BY <1>4, <2>3, Appends, Zenon DEF Has
    <2>5. /\ Has(q, {"active", "initialized", "revoking"},
                 {<<"init", "stop", "destroy">>, <<"init", "start", "stop", "destroy">>})'
          /\ caps'[plug'[q]] = 0
      BY <1>1, <1>3, <1>4, <2>1, <2>4 DEF Has
    <2>6. RecOK([at |-> "destroy", rec |-> q, back |-> "unloaded"])'
      BY <2>5 DEF RecOK
    <2>7. Offered'
      BY <1>1, <2>1, OfferedSame DEF LifeInv
    <2>8. "destroy" \in Taking \cup {"destroy"}
      OBVIOUS
    <2> QED
      BY <1>3, <2>2, <2>3, <2>6, <2>7, <2>8, TakesOn
  <1> QED
    BY <1>5, <1>6

LEMMA UnloadEntryLives ==
    ASSUME Sheltered, Typed, Typed', LifeInv, NEW o \in Op, UnloadEntry(o)
    PROVE  LifeInv'
  <1>0. PICK x, q, y, z :
          /\ x = op[o] /\ q = inst[x.id]
          /\ y = [x EXCEPT !.at = "unloaded", !.status = "failed"]
          /\ z = [x EXCEPT !.status = "ok", !.back = "unloaded"]
    OBVIOUS
  <1>1. At(o, "unload") /\ UNCHANGED <<born, plug, gen, inst>>
    BY <1>0, Zenon DEF UnloadEntry
  <1>2. /\ x.at = "unload" /\ turn \in {o, NoOp} /\ Pool(x)
        /\ DOMAIN x = Fields /\ Sorted(x, born) /\ Placed(x)
    BY <1>0, <1>1, Here
  <1>3. x.id \in PlugId /\ "unload" \in Between /\ x.at \in Plain
    BY <1>2 DEF Placed, WithId, Between, Plain
  <1>4. /\ y.at = "unloaded" /\ y.bin = x.bin /\ y.kind = x.kind
        /\ DOMAIN z = Fields /\ z.at = "unload" /\ z.back = "unloaded" /\ z.bin = x.bin /\ z.kind = x.kind
    BY <1>0, <1>2 DEF Fields
  <1>5. CASE Runs(o, y) /\ UNCHANGED <<st, life, caps>>
    <2>1. Becomes(o, y) /\ turn' = o
      BY <1>5, RunsTo DEF Typed
    <2>2. Untouched /\ y.at \in Between
      BY <1>1, <1>4, <1>5 DEF Untouched, Between
    <2> QED
      BY <1>0, <1>1, <1>3, <1>4, <1>5, <2>1, <2>2, BetweenStep
  <1>6. ASSUME q # 0
        PROVE  /\ q \in 1 .. born /\ inst[plug[q]] = q /\ Quiet(o) /\ Idle(q) /\ Apart(z)
               /\ \A r : ~InHand(op[o], r)
    <2>1. q \in 1 .. born /\ inst[plug[q]] = q
      <3>1. inst \in [PlugId -> 0 .. born] /\ plug[inst[x.id]] = x.id
        BY <1>0, <1>3, <1>6 DEF Typed, Ground
      <3>2. q \in 0 .. born
        BY <1>0, <1>3, <3>1
      <3>3. q \in 1 .. born
        BY <1>6, <3>2, RecordRange DEF Typed
      <3> QED
        BY <1>0, <3>1, <3>3
    <2>2. \A r : ~InHand(op[o], r)
      BY <1>0, <1>3, PlainPool
    <2>3. Quiet(o)
      <3>1. Engaged(op[o])
        BY <1>0, <1>2 DEF Engaged
      <3> QED
        BY <3>1, QuietWhenEngaged DEF Typed
    <2>4. Idle(q)
      BY <2>1, <2>2, <2>3, KnownTo
    <2>5. Apart(z)
      BY <1>2, <1>4 DEF Pool, Apart
    <2> QED
      BY <2>1, <2>2, <2>3, <2>4, <2>5
  <1>7. CASE /\ q # 0 /\ st[q] = "created" /\ Awaits(o, z, "destroy", q)
             /\ Lives(q, "destroy") /\ UNCHANGED <<st, caps>>
    <2>1. Has(q, {"created"}, {<<>>})
      BY <1>6, <1>7 DEF Idle, Fresh, Served, Isolated, Gone, Has
    <2>2. PICK w : Becomes(o, w) /\ Awaiting(w, z, "destroy", q)
      BY <1>4, <1>7, AwaitsTo DEF Typed
    <2>3. Only(q) /\ life'[q] = Append(life[q], "destroy")
      BY <1>1, <1>6, <1>7, CalledOnly DEF Typed
    <2>4. life'[q] = <<"destroy">>
      BY <2>1, <2>3, Appends, Zenon DEF Has
    <2>5. Has(q, {"created"}, {<<"destroy">>, <<"init", "destroy">>})'
      BY <1>1, <1>7, <2>1, <2>4 DEF Has
    <2>6. caps'[plug'[q]] = 0
      BY <1>1, <1>6, <1>7, NotOffered DEF Typed, LifeInv
    <2>7. RecOK([at |-> "destroy", rec |-> q, back |-> "unloaded"])'
      BY <2>5, <2>6 DEF RecOK
    <2>8. Offered'
      BY <1>1, <1>7, OfferedSame DEF LifeInv
    <2> QED
      BY <1>4, <1>6, <1>7, <2>2, <2>3, <2>7, <2>8, TakesOn
  <1>8. CASE /\ q # 0 /\ st[q] \notin {"faulted", "created"} /\ st' = [st EXCEPT ![q] = "revoking"]
             /\ caps' = Withdrawn(q) /\ Awaits(o, z, "withdraw", q) /\ life' = life
    <2>1. Has(q, {"active", "revoking"}, {<<"init", "start">>})
      BY <1>6, <1>8 DEF Idle, Fresh, Served, Isolated, Gone, Has
    <2>2. PICK w : Becomes(o, w) /\ Awaiting(w, z, "withdraw", q)
      BY <1>4, <1>8, AwaitsTo DEF Typed
    <2>3. Only(q) /\ Has(q, {"revoking"}, {<<"init", "start">>})'
      BY <1>1, <1>6, <1>8, <2>1, StatedOnly DEF Typed
    <2>4. caps'[plug[q]] = 0 /\ \A p \in PlugId : p # plug[q] => caps'[p] = caps[p]
      BY <1>6, <1>8, WithdrawnIs DEF Typed, LifeInv
    <2>5. RecOK([at |-> "withdraw", rec |-> q, back |-> "unloaded"])'
      <3>1. caps'[plug'[q]] = 0
        BY <1>1, <2>4
      <3> QED
        BY <2>3, <3>1 DEF RecOK
    <2>6. Offered'
      <3>1. \A p \in PlugId : p # plug[q] => caps'[p] = caps[p] /\ inst'[p] = inst[p]
        BY <1>1, <2>4
      <3> QED
        BY <1>6, <1>8, <2>3, <2>4, <3>1, OfferedKept DEF Typed, LifeInv
    <2>7. "withdraw" \in Taking \cup {"destroy"}
      BY DEF Taking
    <2> QED
      BY <1>4, <1>6, <1>8, <2>2, <2>3, <2>5, <2>6, <2>7, TakesOn
  <1>9. \/ Runs(o, y) /\ UNCHANGED <<st, life, caps>>
        \/ /\ q # 0 /\ st[q] = "created" /\ Awaits(o, z, "destroy", q)
           /\ Lives(q, "destroy") /\ UNCHANGED <<st, caps>>
        \/ /\ q # 0 /\ st[q] \notin {"faulted", "created"} /\ st' = [st EXCEPT ![q] = "revoking"]
           /\ caps' = Withdrawn(q) /\ Awaits(o, z, "withdraw", q) /\ life' = life
    BY <1>0 DEF UnloadEntry
  <1> QED
    BY <1>5, <1>7, <1>8, <1>9


-----------------------------------------------------------------------------
(* From a module file or a factory to the plan                             *)

\* An operation that has begun to work on records has everyone else at rest.
LEMMA AtZero ==
    ASSUME Sheltered, Typed, LifeInv, NEW o \in Op, NEW l, At(o, l), EntryOpen
    PROVE  Quiet(o)
  <1>1. turn \in {o, NoOp} /\ depth = 0
    BY Here DEF EntryOpen
  <1> QED
    BY <1>1, QuietAtZero

LEMMA EnterRefusedLives ==
    ASSUME Sheltered, Typed, Typed', LifeInv, NEW o \in Op, EnterRefused(o)
    PROVE  LifeInv'
  <1>1. At(o, "enter") /\ Over(o) /\ Untouched /\ caps' = caps
    BY Zenon DEF EnterRefused, recVars, hostVars, Untouched
  <1>2. "enter" \in Plain
    BY DEF Plain
  <1> QED
    BY <1>1, <1>2, BetweenOver

\* A step from one place without records in hand to another.
LEMMA PlainStep ==
    ASSUME NEW o \in Op, NEW y, Typed, Typed', LifeInv, op[o].at \in Plain, y.at \in Plain,
           turn \in {o, NoOp}, Becomes(o, y), BinOK(y), Apart(y), Untouched, caps' = caps,
           Engaged(y) => /\ ~Gaps => y.inside \/ turn' = o
                         /\ Engaged(op[o]) \/ Quiet(o)
    PROVE  LifeInv'
  <1>1. Pool(y) /\ \A r : ~InHand(op[o], r)
    BY PlainPool
  <1> QED
    BY <1>1, KeepStep

LEMMA EnterLives ==
    ASSUME Sheltered, Typed, Typed', LifeInv, NEW o \in Op, Enter(o)
    PROVE  LifeInv'
  <1>0. PICK x, y : x = op[o] /\ y = [op[o] EXCEPT !.at = "make", !.ids = staged, !.bin = <<>>]
    OBVIOUS
  <1>1. At(o, "enter") /\ EntryOpen /\ Runs(o, y) /\ Untouched /\ caps' = caps
    BY <1>0, Zenon DEF Enter, recVars, Untouched
  <1>2. x.at = "enter" /\ DOMAIN x = Fields /\ turn \in {o, NoOp} /\ Pool(x)
    BY <1>0, <1>1, Here
  <1>3. y.at = "make" /\ y.bin = <<>> /\ y.kind = x.kind
    BY <1>0, <1>2 DEF Fields
  <1>4. Becomes(o, y) /\ turn' = o
    BY <1>1, RunsTo DEF Typed
  <1>5. BinOK(y) /\ Apart(y)
    BY <1>2, <1>3 DEF BinOK, Distinct, Apart, Pool
  <1>6. Quiet(o)
    BY <1>1, AtZero
  <1>7. op[o].at \in Plain /\ y.at \in Plain
    BY <1>0, <1>2, <1>3 DEF Plain
  <1> QED
    BY <1>1, <1>2, <1>4, <1>5, <1>6, <1>7, PlainStep

LEMMA MakeFailsLives ==
    ASSUME Sheltered, Typed, Typed', LifeInv, NEW o \in Op, MakeFails(o)
    PROVE  LifeInv'
  <1>0. PICK x, y : x = op[o] /\ y = [op[o] EXCEPT !.at = "discard"]
    OBVIOUS
  <1>1. At(o, "make") /\ Runs(o, y) /\ Untouched /\ caps' = caps
    BY <1>0, Zenon DEF MakeFails, GoOn, recVars, hostVars, Untouched
  <1>2. x.at = "make" /\ DOMAIN x = Fields /\ turn \in {o, NoOp} /\ Pool(x)
    BY <1>0, <1>1, Here
  <1>3. y.at = "discard" /\ y.bin = x.bin /\ y.kind = x.kind
    BY <1>0, <1>2 DEF Fields
  <1>4. Becomes(o, y) /\ turn' = o
    BY <1>1, RunsTo DEF Typed
  <1>5. BinOK(y) /\ Apart(y)
    BY <1>2, <1>3 DEF BinOK, Apart, Pool
  <1>6. Engaged(op[o])
    BY <1>0, <1>2 DEF Engaged
  <1>7. op[o].at \in Plain /\ y.at \in Plain
    BY <1>0, <1>2, <1>3 DEF Plain
  <1> QED
    BY <1>1, <1>2, <1>4, <1>5, <1>6, <1>7, PlainStep

LEMMA NextFileLives ==
    ASSUME Sheltered, Typed, Typed', LifeInv, NEW o \in Op, NextFile(o)
    PROVE  LifeInv'
  <1>0. PICK x, y, z :
          /\ x = op[o] /\ y = [op[o] EXCEPT !.at = "enter"]
          /\ z = [op[o] EXCEPT !.at = "capture", !.id = Head(op[o].ids), !.ids = Tail(op[o].ids)]
    OBVIOUS
  <1>1. At(o, "files") /\ Untouched /\ caps' = caps
    BY Zenon DEF NextFile, recVars, hostVars, Untouched
  <1>2. x.at = "files" /\ DOMAIN x = Fields /\ turn \in {o, NoOp} /\ Pool(x)
    BY <1>0, <1>1, Here
  <1>3. \E w : Runs(o, w) /\ w.at \in {"enter", "capture"} /\ w.bin = x.bin /\ w.kind = x.kind
    <2>1. Runs(o, y) \/ Runs(o, z)
      BY <1>0, Zenon DEF NextFile, GoOn
    <2>2. /\ y.at = "enter" /\ y.bin = x.bin /\ y.kind = x.kind
          /\ z.at = "capture" /\ z.bin = x.bin /\ z.kind = x.kind
      BY <1>0, <1>2 DEF Fields
    <2> QED
      BY <2>1, <2>2
  <1>4. PICK w : Runs(o, w) /\ w.at \in {"enter", "capture"} /\ w.bin = x.bin /\ w.kind = x.kind
    BY <1>3
  <1>5. Becomes(o, w)
    BY <1>4, RunsTo DEF Typed
  <1>6. BinOK(w) /\ Apart(w)
    BY <1>2, <1>4 DEF BinOK, Apart, Pool
  <1>7. op[o].at \in Plain /\ w.at \in Plain /\ ~Engaged(w)
    BY <1>0, <1>2, <1>4 DEF Plain, Engaged
  <1> QED
    BY <1>1, <1>2, <1>5, <1>6, <1>7, PlainStep

LEMMA CaptureLives ==
    ASSUME Sheltered, Typed, Typed', LifeInv, NEW o \in Op, Capture(o)
    PROVE  LifeInv'
  <1>0. PICK x, y : x = op[o] /\ y = [op[o] EXCEPT !.at = "import", !.gen = nextGen + 1]
    OBVIOUS
  <1>1. At(o, "capture") /\ Untouched /\ caps' = caps
    BY Zenon DEF Capture, recVars, hostVars, Untouched
  <1>2. x.at = "capture" /\ DOMAIN x = Fields /\ turn \in {o, NoOp} /\ Pool(x)
    BY <1>0, <1>1, Here
  <1>3. op' = [op EXCEPT ![o] = y]
    BY <1>0 DEF Capture, Typed, Ops
  <1>4. y.at = "import" /\ y.bin = x.bin /\ y.kind = x.kind
    BY <1>0, <1>2 DEF Fields
  <1>5. Becomes(o, y)
    BY <1>3 DEF Becomes, Typed, Ops
  <1>6. BinOK(y) /\ Apart(y)
    BY <1>2, <1>4 DEF BinOK, Apart, Pool
  <1>7. op[o].at \in Plain /\ y.at \in Plain /\ ~Engaged(y)
    BY <1>0, <1>2, <1>4 DEF Plain, Engaged
  <1> QED
    BY <1>1, <1>2, <1>5, <1>6, <1>7, PlainStep

\* What an import can end in while an embedder's boot() overlaps nothing.
LEMMA BinQuiet ==
    ASSUME Sheltered, NEW o \in Op, NEW x, x = op[o], Apart(x), x.at = "import", x.bin # <<>>
    PROVE  Quiet(o)
  <1>1. "boot" \in Kind
    BY DEF Apart
  <1> QED
    BY <1>1 DEF Sheltered, Quiet

\* Its import failed, or its descriptor was refused.
LEMMA ToDiscard ==
    ASSUME Sheltered, Typed, Typed', LifeInv, NEW o \in Op, turn \in {o, NoOp},
           op[o].at = "import", GoOn(o, "discard"), Untouched, caps' = caps
    PROVE  LifeInv'
  <1>0. PICK x, y : x = op[o] /\ y = [op[o] EXCEPT !.at = "discard"]
    OBVIOUS
  <1>1. DOMAIN x = Fields /\ x.at = "import" /\ Pool(x)
    BY <1>0 DEF Typed, Ops, Sorted, LifeInv
  <1>2. y.at = "discard" /\ y.bin = x.bin /\ y.kind = x.kind
    BY <1>0, <1>1 DEF Fields
  <1>3. Becomes(o, y) /\ turn' = o
    BY <1>0, RunsTo DEF Typed, GoOn
  <1>4. BinOK(y) /\ Apart(y)
    BY <1>1, <1>2 DEF BinOK, Apart, Pool
  <1>5. Engaged(y) => Quiet(o)
    BY <1>0, <1>1, <1>2, BinQuiet DEF Engaged, Pool
  <1>6. op[o].at \in Plain /\ y.at \in Plain
    BY <1>0, <1>1, <1>2 DEF Plain
  <1> QED
    BY <1>3, <1>4, <1>5, <1>6, PlainStep

LEMMA ImportFailsLives ==
    ASSUME Sheltered, Typed, Typed', LifeInv, NEW o \in Op, ImportFails(o)
    PROVE  LifeInv'
  <1>1. op[o].at = "import" /\ GoOn(o, "discard") /\ turn \in {o, NoOp} /\ Untouched /\ caps' = caps
    BY Zenon DEF ImportFails, Settles, LoopFree, recVars, hostVars, Untouched
  <1> QED
    BY <1>1, ToDiscard

\* Every record that waits for a startup is fresh.
LEMMA PendingFresh ==
    ASSUME LifeInv, NEW o \in Op, Quiet(o), \A r : ~InHand(op[o], r), NEW r \in Pending
    PROVE  Fresh(r)
  <1>1. r \in 1 .. born /\ inst[plug[r]] = r /\ st[r] = "created"
    BY DEF Pending
  <1>2. Idle(r)
    BY <1>1, KnownTo
  <1> QED
    BY <1>1, <1>2 DEF Idle, Served, Isolated, Gone, Has

LEMMA OrderIs ==
    ASSUME Ground, NEW order \in SetToSeqs(Pending)
    PROVE  Distinct(order) /\ \A j \in 1 .. Len(order) : order[j] \in Pending
  <1>1. IsFiniteSet(Pending)
    <2>1. IsFiniteSet(1 .. born)
      BY RecordRange, FS_Interval
    <2> QED
      BY <2>1, FS_Subset DEF Pending
  <1>2. order \in Seq(Pending) /\ \A i, j \in DOMAIN order : order[i] = order[j] => i = j
    BY <1>1, EnumerationTyped
  <1>3. DOMAIN order = 1 .. Len(order)
    BY <1>2
  <1> QED
    BY <1>2, <1>3, Elements DEF Distinct

LEMMA PlanLives ==
    ASSUME Sheltered, Typed, Typed', LifeInv, NEW o \in Op, Plan(o)
    PROVE  LifeInv'
  <1>0. PICK x : x = op[o]
    OBVIOUS
  <1>1. At(o, "make") /\ Untouched /\ caps' = caps
    BY Zenon DEF Plan, recVars, hostVars, Untouched
  <1>2. x.at = "make" /\ DOMAIN x = Fields /\ turn \in {o, NoOp} /\ Pool(x)
    BY <1>0, <1>1, Here
  <1>3. Engaged(op[o]) /\ op[o].at \in Plain /\ "make" \in Plain
    BY <1>0, <1>2 DEF Engaged, Plain
  <1>4. Quiet(o) /\ \A r : ~InHand(op[o], r)
    BY <1>3, QuietWhenEngaged, PlainPool DEF Typed
  <1>5. CASE Over(o)
    BY <1>1, <1>3, <1>5, BetweenOver
  <1>6. ASSUME NEW order \in SetToSeqs(Pending)
        PROVE  Distinct(order) /\ \A j \in 1 .. Len(order) : Fresh(order[j])
    BY <1>4, <1>6, OrderIs, PendingFresh DEF Typed
  <1>7. ASSUME NEW order \in SetToSeqs(Pending), NEW y,
               y = [x EXCEPT !.at = "nextInit", !.plan = order, !.pos = 1], Runs(o, y)
        PROVE  LifeInv'
    <2>1. Becomes(o, y) /\ turn' = o
      BY <1>7, RunsTo DEF Typed
    <2>2. y.at = "nextInit" /\ y.plan = order /\ y.pos = 1 /\ y.bin = x.bin /\ y.kind = x.kind
      BY <1>2, <1>7 DEF Fields
    <2>3. /\ y.at \notin Detours /\ y.at \notin Handling
          /\ Phase(y) = "nextInit" /\ "nextInit" \in Planning
      BY <2>2 DEF Detours, Handling, Phase, Planning
    <2>4. \A j \in 1 .. Len(order) : Due("nextInit", 1, j, order[j])
      BY <1>6 DEF Due
    <2>5. PlanOK(y)
      BY <1>6, <2>2, <2>3, <2>4 DEF PlanOK
    <2>6. RecOK(y)
      BY <2>2, <2>3 DEF RecOK
    <2>7. BinOK(y) /\ Apart(y)
      BY <1>2, <2>2, <2>3, PlanningIs DEF Pool, Apart
    <2>8. Pool(y)
      BY <2>5, <2>6, <2>7 DEF Pool
    <2> QED
      BY <1>1, <1>2, <1>3, <1>4, <2>1, <2>8, KeepStep
  <1>8. ASSUME NEW order \in SetToSeqs(Pending), NEW y,
               y = [x EXCEPT !.at = "discard", !.bin = order], Runs(o, y)
        PROVE  LifeInv'
    <2>1. Becomes(o, y) /\ turn' = o
      BY <1>8, RunsTo DEF Typed
    <2>2. y.at = "discard" /\ y.bin = order /\ y.kind = x.kind
      BY <1>2, <1>8 DEF Fields
    <2>3. BinOK(y)
      BY <1>6, <2>2 DEF BinOK
    <2>4. Apart(y) /\ y.at \in Plain
      BY <1>2, <2>2 DEF Apart, Pool, Plain
    <2> QED
      BY <1>1, <1>2, <1>3, <1>4, <2>1, <2>3, <2>4, PlainStep
  <1> QED
    BY <1>0, <1>5, <1>7, <1>8 DEF Plan

LEMMA HeadTail ==
    ASSUME NEW S, NEW s \in Seq(S), s # <<>>
    PROVE  /\ Len(s) \in Nat \ {0} /\ Head(s) = s[1] /\ s[1] \in S /\ Tail(s) \in Seq(S)
           /\ Len(Tail(s)) = Len(s) - 1
           /\ \A i \in 1 .. Len(Tail(s)) : i + 1 \in 1 .. Len(s) /\ i + 1 # 1 /\ Tail(s)[i] = s[i + 1]
  OBVIOUS

\* Distinct records stay distinct when the first of them goes.
LEMMA DistinctTail ==
    ASSUME NEW S, NEW s \in Seq(S), s # <<>>, Distinct(s)
    PROVE  Distinct(Tail(s)) /\ \A i \in 1 .. Len(Tail(s)) : Tail(s)[i] # s[1]
  <1>1. /\ Len(s) \in Nat \ {0} /\ Len(Tail(s)) \in Nat
        /\ \A i \in 1 .. Len(Tail(s)) : i + 1 \in 1 .. Len(s) /\ i + 1 # 1 /\ Tail(s)[i] = s[i + 1]
    BY HeadTail
  <1>2. 1 \in 1 .. Len(s)
    BY <1>1
  <1>3. \A i \in 1 .. Len(Tail(s)) : Tail(s)[i] # s[1]
    BY <1>1, <1>2 DEF Distinct
  <1>4. Distinct(Tail(s))
    <2> SUFFICES ASSUME NEW i \in 1 .. Len(Tail(s)), NEW j \in 1 .. Len(Tail(s)), Tail(s)[i] = Tail(s)[j]
                 PROVE  i = j
      BY DEF Distinct
    <2>1. i + 1 = j + 1
      BY <1>1 DEF Distinct
    <2> QED
      BY <1>1, <2>1
  <1> QED
    BY <1>3, <1>4

LEMMA DiscardLives ==
    ASSUME Sheltered, Typed, Typed', LifeInv, NEW o \in Op, Discard(o)
    PROVE  LifeInv'
  <1>0. PICK x, q, z : /\ x = op[o] /\ q = Head(x.bin)
                       /\ z = [x EXCEPT !.bin = Tail(x.bin), !.back = "discard"]
    OBVIOUS
  <1>1. At(o, "discard") /\ UNCHANGED <<born, plug, st, gen, inst, caps>>
    BY Zenon DEF Discard
  <1>2. /\ x.at = "discard" /\ DOMAIN x = Fields /\ turn \in {o, NoOp} /\ Pool(x)
        /\ Sorted(x, born)
    BY <1>0, <1>1, Here
  <1>3. "discard" \in Plain /\ op[o].at \in Plain
    BY <1>0, <1>2 DEF Plain
  <1>4. CASE Over(o) /\ life' = life
    BY <1>1, <1>3, <1>4, BetweenOver DEF Untouched
  <1>5. CASE x.bin # <<>> /\ Awaits(o, z, "destroy", q) /\ Lives(q, "destroy")
    <2>1. Engaged(op[o])
      BY <1>0, <1>2, <1>5 DEF Engaged
    <2>2. Quiet(o) /\ \A r : ~InHand(op[o], r)
      BY <1>3, <2>1, QuietWhenEngaged, PlainPool DEF Typed
    <2>3. x.bin \in Seq(1 .. born)
      BY <1>2 DEF Sorted
    <2>4. Distinct(x.bin) /\ \A i \in 1 .. Len(x.bin) : Fresh(x.bin[i])
      BY <1>2 DEF Pool, BinOK
    <2>5. q \in 1 .. born /\ q = x.bin[1] /\ Len(x.bin) \in Nat \ {0}
      BY <1>0, <1>5, <2>3, HeadTail
    <2>6. Has(q, {"created"}, {<<>>})
      BY <2>4, <2>5 DEF Fresh
    <2>7. PICK t : t = Tail(x.bin)
      OBVIOUS
    <2>8. /\ Distinct(t) /\ \A i \in 1 .. Len(t) : t[i] # q /\ Fresh(t[i]) /\ t[i] \in 1 .. born
      BY <1>5, <2>3, <2>4, <2>5, <2>7, HeadTail, DistinctTail, Elements
    <2>9. DOMAIN z = Fields /\ z.bin = t /\ z.back = "discard" /\ z.kind = x.kind
      BY <1>0, <1>2, <2>7 DEF Fields
    <2>10. PICK y : Becomes(o, y) /\ Awaiting(y, z, "destroy", q)
      BY <1>5, <2>9, AwaitsTo DEF Typed
    <2>11. /\ y.at = "destroy" /\ y.inside = TRUE /\ y.rec = q /\ y.back = "discard"
           /\ y.bin = t /\ y.kind = x.kind
      BY <2>9, <2>10 DEF Awaiting
    <2>12. Only(q) /\ life'[q] = Append(life[q], "destroy")
      BY <1>1, <1>5, <2>5, CalledOnly DEF Typed
    <2>13. life'[q] = <<"destroy">>
      BY <2>6, <2>12, Appends, Zenon DEF Has
    <2>14. Has(q, {"created"}, {<<"destroy">>, <<"init", "destroy">>})'
      BY <1>1, <2>6, <2>13 DEF Has
    <2>15. caps'[plug'[q]] = 0
      <3>1. inst[plug[q]] = q /\ st[q] # "active"
        BY <2>6 DEF Has
      <3>2. caps[plug[q]] = 0
        BY <2>5, <3>1, NotOffered DEF Typed, LifeInv
      <3> QED
        BY <1>1, <3>2
    <2>16. y.at \in Handling /\ Phase(y) \notin Planning
      BY <2>11 DEF Handling, Detours, Phase, Planning
    <2>17. RecOK(y)'
      BY <2>11, <2>14, <2>15 DEF RecOK
    <2>18. \A i \in 1 .. Len(t) : Fresh(t[i])'
      BY <2>8, <2>12, StandsKept DEF Only
    <2>19. BinOK(y)'
      BY <2>8, <2>11, <2>18 DEF BinOK
    <2>20. Apart(y) /\ PlanOK(y)'
      BY <1>2, <2>11, <2>16 DEF Apart, PlanOK, Pool
    <2>21. Pool(y)'
      BY <2>17, <2>19, <2>20 DEF Pool, Apart
    <2>22. InHand(y, q)
      BY <2>11, <2>16 DEF InHand
    <2>23. Offered'
      BY <1>1, OfferedSame DEF LifeInv
    <2> QED
      BY <2>2, <2>5, <2>10, <2>11, <2>12, <2>21, <2>22, <2>23, TouchStep
  <1>6. \/ Over(o) /\ life' = life
        \/ x.bin # <<>> /\ Awaits(o, z, "destroy", q) /\ Lives(q, "destroy")
    BY <1>0, Zenon DEF Discard
  <1> QED
    BY <1>4, <1>5, <1>6

-----------------------------------------------------------------------------
(* A record is made                                                        *)

\* The record n that is made is fresh, and the others stand as they stood.
LEMMA Created ==
    ASSUME NEW p \in PlugId, NEW g, NEW n, Ground, Known, CanCreate, inst[p] = 0, Create(p, g), n = born + 1
    PROVE  /\ n \in Nat /\ born' = n /\ life' = life
           /\ \A s \in 1 .. born : s \in 1 .. n /\ s # n /\ Keeps(s) /\ plug'[s] = plug[s]
           /\ \A s \in 1 .. n : s = n \/ s \in 1 .. born
           /\ Fresh(n)'
           /\ \A s \in 1 .. born : st'[s] = st[s] /\ gen'[s] = gen[s]
           /\ \A q \in PlugId : q # p => inst'[q] = inst[q]
  <1>1. /\ born \in Nat /\ n \in Rec /\ n > born /\ \A s \in 1 .. born : s \in Rec
    BY RackHostAssumption DEF Ground, CanCreate, Rec
  <1>2. /\ born' = n /\ plug' = [plug EXCEPT ![n] = p] /\ st' = [st EXCEPT ![n] = "created"]
        /\ gen' = [gen EXCEPT ![n] = g] /\ inst' = [inst EXCEPT ![p] = n] /\ life' = life
    BY DEF Create
  <1>3. DOMAIN plug = Rec /\ DOMAIN st = Rec /\ DOMAIN gen = Rec /\ DOMAIN inst = PlugId
    BY DEF Ground
  <1>4. /\ plug'[n] = p /\ st'[n] = "created" /\ inst'[p] = n
        /\ \A q \in PlugId : q # p => inst'[q] = inst[q]
        /\ \A s \in Rec : s # n => plug'[s] = plug[s] /\ st'[s] = st[s] /\ gen'[s] = gen[s]
    BY <1>1, <1>2, <1>3
  <1>5. Fresh(n)'
    BY <1>1, <1>2, <1>4 DEF Fresh, Has, Known
  <1>6. ASSUME NEW s \in 1 .. born
        PROVE  s \in Rec /\ s # n /\ Keeps(s) /\ plug'[s] = plug[s]
    <2>1. s \in Rec /\ s # n /\ s # 0 /\ plug[s] \in PlugId
      BY <1>1, RecordRange
    <2>2. plug'[s] = plug[s] /\ st'[s] = st[s] /\ life'[s] = life[s]
      BY <1>2, <1>4, <2>1
    <2>3. inst'[plug'[s]] = s <=> inst[plug[s]] = s
      BY <1>4, <2>1, <2>2
    <2> QED
      BY <2>1, <2>2, <2>3 DEF Keeps
  <1>7. \A s \in 1 .. n : s = n \/ s \in 1 .. born
    BY <1>1
  <1>8. \A s \in 1 .. born : s \in 1 .. n
    BY <1>1
  <1> QED
    BY <1>1, <1>2, <1>4, <1>5, <1>6, <1>7, <1>8

LEMMA CreateStep ==
    ASSUME NEW o \in Op, NEW y, NEW p \in PlugId, NEW g,
           Typed, LifeInv, CanCreate, inst[p] = 0, Create(p, g), caps' = caps, turn \in {o, NoOp},
           Becomes(o, y), op[o].at \in Plain, y.at \in Plain, BinOK(y)', Apart(y),
           Engaged(y) => Engaged(op[o]) /\ (y.inside \/ turn' = o)
    PROVE  LifeInv'
  <1>0. PICK n : n = born + 1
    OBVIOUS
  <1>1. /\ n \in Nat /\ born' = n /\ life' = life
        /\ \A s \in 1 .. born : s \in 1 .. n /\ s # n /\ Keeps(s) /\ plug'[s] = plug[s]
        /\ \A s \in 1 .. n : s = n \/ s \in 1 .. born
        /\ Fresh(n)'
        /\ \A s \in 1 .. born : st'[s] = st[s] /\ gen'[s] = gen[s]
        /\ \A q \in PlugId : q # p => inst'[q] = inst[q]
    BY <1>0, Created DEF Typed, LifeInv
  <1>2. Pool(y)' /\ \A r : ~InHand(op[o], r)
    BY PlainPool
  <1>3. ASSUME NEW b \in Op
        PROVE  Pool(op[b])'
    <2>1. PICK z : z = op'[b]
      OBVIOUS
    <2>2. Pool(z)'
      <3>1. CASE b = o
        BY <1>2, <2>1, <3>1 DEF Becomes
      <3>2. CASE b # o
        <4>1. z = op[b] /\ Sorted(z, born) /\ Placed(z) /\ Pool(z)
          BY <2>1, <3>2 DEF Becomes, Typed, Ops, LifeInv
        <4>2. \A s \in 1 .. born : Keeps(s) /\ plug'[s] = plug[s]
          BY <1>1
        <4> QED
          BY <4>1, <4>2, PoolKept DEF Typed
      <3> QED
        BY <3>1, <3>2
    <2> QED
      BY <2>1, <2>2 DEF Pool, PlanOK, RecOK, BinOK, Apart
  <1>4. ASSUME NEW b \in Op, NEW a \in Op, Engaged(op'[a]), Engaged(op'[b])
        PROVE  a = b
    BY <1>4, Zenon DEF Becomes, LifeInv, Lone
  <1>5. ASSUME ~Gaps, NEW b \in Op, Engaged(op'[b])
        PROVE  op'[b].inside \/ turn' = b
    <2>1. CASE b = o
      BY <1>5, <2>1 DEF Becomes
    <2>2. CASE b # o
      <3>1. op'[b] = op[b] /\ turn # b
        BY <2>2, RackHostAssumption DEF Becomes
      <3>2. op[b].inside \/ turn = b
        BY <1>5, <3>1 DEF LifeInv, Lone
      <3> QED
        BY <3>1, <3>2
    <2> QED
      BY <2>1, <2>2
  <1>6. Lone'
    BY <1>4, <1>5 DEF Lone
  <1>7. Offered'
    <2> SUFFICES ASSUME NEW q \in PlugId, caps'[q] # 0
                 PROVE  inst'[q] # 0 /\ st'[inst'[q]] = "active" /\ gen'[inst'[q]] = caps'[q]
      BY DEF Offered, OfferedIsHeld
    <2>1. caps'[q] = caps[q] /\ inst[q] # 0 /\ st[inst[q]] = "active" /\ gen[inst[q]] = caps[q]
      BY DEF LifeInv, Offered, OfferedIsHeld
    <2>2. inst'[q] = inst[q]
      BY <1>1, <2>1
    <2>3. inst[q] \in 1 .. born
      BY <2>1, RecordRange DEF Typed, Ground
    <2> QED
      BY <1>1, <2>1, <2>2, <2>3
  <1>8. Known'
    <2>1. ASSUME NEW r \in 1 .. born'
          PROVE  Idle(r)' \/ \E b \in Op : InHand(op'[b], r)
      <3>1. CASE r = n
        BY <1>1, <3>1 DEF Idle
      <3>2. CASE r # n
        <4>1. r \in 1 .. born /\ Keeps(r)
          BY <1>1, <3>2
        <4>2. CASE Idle(r)
          BY <4>1, <4>2, StandsKept
        <4>3. ASSUME NEW b \in Op, InHand(op[b], r)
              PROVE  InHand(op'[b], r)
          BY <1>2, <4>3 DEF Becomes
        <4> QED
          BY <4>1, <4>2, <4>3 DEF LifeInv, Known
      <3> QED
        BY <3>1, <3>2
    <2>2. \A r \in Rec : r > born' => life'[r] = <<>>
      <3>1. born \in Nat /\ \A r \in Rec : r > n => r > born
        BY <1>0, RecordRange DEF Rec, Typed
      <3> QED
        BY <1>1, <3>1 DEF LifeInv, Known
    <2> QED
      BY <2>1, <2>2 DEF Known, InHand
  <1> QED
    BY <1>3, <1>6, <1>7, <1>8 DEF LifeInv

\* The record n is added to a bin of fresh ones.
LEMMA BinGrows ==
    ASSUME NEW b, NEW n, NEW t, b \in Seq(1 .. born), Distinct(b), \A i \in 1 .. Len(b) : Fresh(b[i]),
           \A s \in 1 .. born : s # n /\ Keeps(s), Fresh(n)', t = Append(b, n)
    PROVE  Distinct(t) /\ \A i \in 1 .. Len(t) : Fresh(t[i])'
  <1>1. /\ Len(b) \in Nat /\ Len(t) = Len(b) + 1 /\ t[Len(b) + 1] = n
        /\ \A i \in 1 .. Len(b) : t[i] = b[i] /\ b[i] \in 1 .. born
    <2>1. b \in Seq(1 .. born \cup {n})
      BY WiderSeq
    <2>2. Len(b) \in Nat /\ \A i \in 1 .. Len(b) : b[i] \in 1 .. born
      BY Elements
    <2> QED
      BY <2>1, <2>2
  <1>2. \A i \in 1 .. Len(t) : i \in 1 .. Len(b) \/ i = Len(b) + 1
    BY <1>1
  <1>3. Distinct(t)
    <2> SUFFICES ASSUME NEW i \in 1 .. Len(t), NEW j \in 1 .. Len(t), t[i] = t[j]
                 PROVE  i = j
      BY DEF Distinct
    <2> QED
      BY <1>1, <1>2 DEF Distinct
  <1>4. \A i \in 1 .. Len(b) : Fresh(b[i])'
    BY <1>1, StandsKept
  <1> QED
    BY <1>1, <1>2, <1>3, <1>4

LEMMA MakeLives ==
    ASSUME Sheltered, Typed, Typed', LifeInv, NEW o \in Op, Make(o)
    PROVE  LifeInv'
  <1>0. PICK x, p, g, n, t, y :
          /\ x = op[o] /\ p = Head(x.ids) /\ g = nextGen + 1 /\ n = born + 1 /\ t = Append(x.bin, n)
          /\ y = [x EXCEPT !.ids = Tail(x.ids), !.bin = t]
    OBVIOUS
  <1>1. /\ At(o, "make") /\ x.ids # <<>> /\ CanCreate /\ inst[p] = 0 /\ Create(p, g) /\ caps' = caps
    BY <1>0, Zenon DEF Make, Duplicate
  <1>2. /\ x.at = "make" /\ DOMAIN x = Fields /\ turn \in {o, NoOp} /\ Pool(x) /\ Sorted(x, born)
    BY <1>0, <1>1, Here
  <1>3. p \in PlugId
    BY <1>0, <1>1, <1>2, TailIs DEF Sorted
  <1>4. Runs(o, y)
    BY <1>0 DEF Make
  <1>5. Becomes(o, y) /\ turn' = o
    BY <1>4, RunsTo DEF Typed
  <1>6. y.at = "make" /\ y.bin = t /\ y.kind = x.kind
    BY <1>0, <1>2 DEF Fields
  <1>7. /\ \A s \in 1 .. born : s # n /\ Keeps(s)
        /\ Fresh(n)'
    BY <1>0, <1>1, <1>3, Created DEF Typed, LifeInv
  <1>8. x.bin \in Seq(1 .. born) /\ Distinct(x.bin) /\ \A i \in 1 .. Len(x.bin) : Fresh(x.bin[i])
    BY <1>2 DEF Sorted, Pool, BinOK
  <1>9. Distinct(t) /\ \A i \in 1 .. Len(t) : Fresh(t[i])'
    <2>1. t = Append(x.bin, n)
      BY <1>0
    <2> QED
      BY <1>7, <1>8, <2>1, BinGrows
  <1>10. BinOK(y)' /\ Apart(y)
    BY <1>2, <1>6, <1>9 DEF BinOK, Apart, Pool
  <1>11. Engaged(op[o]) /\ op[o].at \in Plain /\ y.at \in Plain
    BY <1>0, <1>2, <1>6 DEF Engaged, Plain
  <1> QED
    BY <1>1, <1>2, <1>3, <1>5, <1>10, <1>11, CreateStep

LEMMA ImportEndsLives ==
    ASSUME Sheltered, Typed, Typed', LifeInv, NEW o \in Op, ImportEnds(o)
    PROVE  LifeInv'
  <1>0. PICK x, p, g, n, t, y, z :
          /\ x = op[o] /\ p = x.id /\ g = x.gen /\ n = born + 1 /\ t = Append(x.bin, n)
          /\ y = [x EXCEPT !.at = "files", !.gen = 0, !.bin = t]
          /\ z = [x EXCEPT !.at = "enter", !.gen = 0]
    OBVIOUS
  <1>1. x.at = "import" /\ turn \in {o, NoOp} /\ caps' = caps
    BY <1>0, Zenon DEF ImportEnds, Settles, LoopFree
  <1>2. DOMAIN x = Fields /\ Pool(x) /\ Sorted(x, born) /\ Placed(x)
    BY <1>0 DEF LifeInv, Typed, Ops, Sorted
  <1>3. p \in PlugId
    BY <1>0, <1>1, <1>2 DEF Placed, WithId
  <1>4. CASE GoOn(o, "discard") /\ UNCHANGED <<recVars, inst>>
    BY <1>0, <1>1, <1>4, ToDiscard DEF recVars, Untouched
  <1>5. ASSUME CanCreate, inst[p] = 0, Create(p, g)
        PROVE  Distinct(t) /\ \A i \in 1 .. Len(t) : Fresh(t[i])'
    <2>1. /\ \A s \in 1 .. born : s # n /\ Keeps(s)
          /\ Fresh(n)'
      BY <1>0, <1>3, <1>5, Created DEF Typed, LifeInv
    <2>2. x.bin \in Seq(1 .. born) /\ Distinct(x.bin) /\ \A i \in 1 .. Len(x.bin) : Fresh(x.bin[i])
      BY <1>1, <1>2 DEF Sorted, Pool, BinOK
    <2>3. t = Append(x.bin, n)
      BY <1>0
    <2> QED
      BY <2>1, <2>2, <2>3, BinGrows
  <1>6. ASSUME NEW w, w = y \/ w = z, x.kind = "boot" <=> w = y, Runs(o, w),
               CanCreate, inst[p] = 0, Create(p, g)
        PROVE  LifeInv'
    <2>1. Becomes(o, w)
      BY <1>6, RunsTo DEF Typed
    <2>2. /\ y.at = "files" /\ y.bin = t /\ y.kind = x.kind
          /\ z.at = "enter" /\ z.bin = x.bin /\ z.kind = x.kind
      BY <1>0, <1>2 DEF Fields
    <2>3. BinOK(w)'
      BY <1>5, <1>6, <2>2 DEF BinOK
    <2>4. Apart(w)
      BY <1>2, <1>6, <2>2 DEF Apart, Pool
    <2>5. ~Engaged(w) /\ op[o].at \in Plain /\ w.at \in Plain
      BY <1>0, <1>1, <1>6, <2>2 DEF Engaged, Plain
    <2> QED
      BY <1>1, <1>3, <1>6, <2>1, <2>3, <2>4, <2>5, CreateStep
  <1>7. \/ GoOn(o, "discard") /\ UNCHANGED <<recVars, inst>>
        \/ CanCreate /\ inst[p] = 0 /\ Create(p, g) /\ Runs(o, IF x.kind = "boot" THEN y ELSE z)
    BY <1>0 DEF ImportEnds, Duplicate
  <1>8. y # z
    BY <1>0, <1>2 DEF Fields
  <1> QED
    BY <1>4, <1>6, <1>7, <1>8

-----------------------------------------------------------------------------
(* What is asked for, and what operations have no part in                  *)

LEMMA ReturnsLives ==
    ASSUME Sheltered, Typed, Typed', LifeInv, NEW o \in Op, NEW ok \in BOOLEAN, CallbackReturns(o, ok)
    PROVE  LifeInv'
  <1>0. PICK x : x = op[o]
    OBVIOUS
  <1>1. /\ turn = NoOp /\ x.inside /\ Untouched /\ caps' = caps /\ turn' = IF Gaps THEN NoOp ELSE o
    BY <1>0, Zenon DEF CallbackReturns, Settles, LoopFree, recVars, Untouched
  <1>2. DOMAIN x = Fields /\ Pool(x)
    BY <1>0 DEF Typed, Ops, Sorted, LifeInv
  <1>3. \E s : op' = [op EXCEPT ![o] = [x EXCEPT !.inside = FALSE, !.status = s]]
    BY <1>0 DEF CallbackReturns, Typed, Ops
  <1>4. PICK y, s : y = [x EXCEPT !.inside = FALSE, !.status = s] /\ op' = [op EXCEPT ![o] = y]
    BY <1>3
  <1>5. /\ y.at = x.at /\ y.back = x.back /\ y.rec = x.rec /\ y.plan = x.plan /\ y.pos = x.pos
        /\ y.bin = x.bin /\ y.kind = x.kind
    BY <1>2, <1>4 DEF Fields
  <1>6. Becomes(o, y)
    BY <1>4 DEF Becomes, Typed, Ops
  <1>7. Pool(y)
    <2>1. Phase(y) = Phase(x)
      BY <1>5 DEF Phase
    <2>2. PlanOK(y) /\ RecOK(y) /\ BinOK(y) /\ Apart(y)
      BY <1>2, <1>5, <2>1 DEF Pool, PlanOK, RecOK, BinOK, Apart
    <2> QED
      BY <2>2 DEF Pool
  <1>8. Engaged(y) => Engaged(op[o])
    BY <1>0, <1>5 DEF Engaged
  <1>9. \A r : InHand(op[o], r) => InHand(y, r)
    BY <1>0, <1>5 DEF InHand, Phase
  <1> QED
    BY <1>1, <1>6, <1>7, <1>8, <1>9, KeepStep

\* An operation that begins at a place without records.
LEMMA BeginsStep ==
    ASSUME NEW o \in Op, NEW kind, NEW at, NEW id, NEW ids,
           Typed, Typed', LifeInv, Begins(o, kind, at, id, ids), Untouched, caps' = caps,
           at \in {"files", "enter", "capture", "unload", "next"},
           at = "files" <=> kind = "boot",
           at \in {"unload", "next"} => Quiet(o)
    PROVE  LifeInv'
  <1>1. PICK y : y = [Resting EXCEPT !.kind = kind, !.at = at, !.id = id, !.ids = ids]
    OBVIOUS
  <1>2. op[o] = Resting /\ turn = NoOp /\ kind \in Kind /\ Runs(o, y)
    BY <1>1 DEF Begins, LoopFree
  <1>3. y.at = at /\ y.kind = kind /\ y.bin = <<>>
    BY <1>1 DEF Resting
  <1>4. Becomes(o, y) /\ turn' = o
    BY <1>2, RunsTo DEF Typed
  <1>5. BinOK(y) /\ Apart(y)
    BY <1>2, <1>3 DEF BinOK, Apart, Distinct
  <1>6. op[o].at \in Plain /\ y.at \in Plain
    BY <1>2, <1>3 DEF Plain, Resting
  <1>7. Engaged(y) => Quiet(o)
    BY <1>3 DEF Engaged
  <1> QED
    BY <1>2, <1>4, <1>5, <1>6, <1>7, PlainStep

LEMMA AsksLives ==
    ASSUME Sheltered, Typed, Typed', LifeInv, NEW o \in Op, Asks(o)
    PROVE  LifeInv'
  <1>0. depth = 0 /\ turn \in {o, NoOp} => Quiet(o)
    BY QuietAtZero
  <1>1. CASE Boot(o)
    <2>1. PICK files : Begins(o, "boot", "files", NoPlug, files)
      BY <1>1 DEF Boot
    <2>2. Untouched /\ caps' = caps
      BY <1>1, Zenon DEF Boot, recVars, hostVars, Untouched
    <2> QED
      BY <2>1, <2>2, BeginsStep
  <1>2. CASE Start(o)
    <2>1. Begins(o, "start", "enter", NoPlug, <<>>) /\ Untouched /\ caps' = caps
      BY <1>2, Zenon DEF Start, recVars, hostVars, Untouched
    <2> QED
      BY <2>1, BeginsStep
  <1>3. ASSUME NEW p \in PlugId, Load(o, p)
        PROVE  LifeInv'
    <2>1. Begins(o, "load", "capture", p, <<>>) /\ Untouched /\ caps' = caps
      BY <1>3, Zenon DEF Load, recVars, hostVars, Untouched
    <2> QED
      BY <2>1, BeginsStep
  <1>4. ASSUME NEW p \in PlugId, NEW kind \in {"unload", "reload"}, Begins(o, kind, "unload", p, <<>>),
               depth = 0, UNCHANGED <<recVars, hostVars, callVars>>
        PROVE  LifeInv'
    <2>1. Untouched /\ caps' = caps /\ turn = NoOp
      BY <1>4, Zenon DEF recVars, hostVars, Untouched, Begins, LoopFree
    <2>2. Quiet(o)
      BY <1>0, <1>4, <2>1
    <2> QED
      BY <1>4, <2>1, <2>2, BeginsStep
  <1>5. ASSUME NEW p \in PlugId, Unload(o, p) \/ Reload(o, p)
        PROVE  LifeInv'
    <2>1. /\ depth = 0 /\ UNCHANGED <<recVars, hostVars, callVars>>
          /\ Begins(o, "unload", "unload", p, <<>>) \/ Begins(o, "reload", "unload", p, <<>>)
      BY <1>5, Zenon DEF Unload, Reload, EntryOpen
    <2> QED
      BY <1>4, <2>1
  <1>6. CASE Shutdown(o)
    <2>1. PICK ids : Begins(o, "shutdown", "next", NoPlug, ids)
      BY <1>6 DEF Shutdown
    <2>2. Untouched /\ caps' = caps /\ depth = 0
      BY <1>6, Zenon DEF Shutdown, recVars, Untouched
    <2>3. turn = NoOp
      BY <2>1, Zenon DEF Begins, LoopFree
    <2>4. Quiet(o)
      BY <1>0, <2>2, <2>3
    <2> QED
      BY <2>1, <2>2, <2>4, BeginsStep
  <1>7. CASE Poll(o)
    <2>1. PICK x : x = [Resting EXCEPT !.kind = "poll"]
      OBVIOUS
    <2>2. /\ turn = NoOp /\ depth = 0 /\ op[o] = Resting /\ Awaits(o, x, "polldrain", 0)
          /\ Untouched /\ caps' = caps
      BY <1>7, <2>1, Zenon DEF Poll, LoopFree, recVars, Untouched
    <2>3. DOMAIN x = Fields /\ x.kind = "poll" /\ x.bin = <<>>
      BY <2>1 DEF Resting, Fields
    <2>4. PICK y : Becomes(o, y) /\ Awaiting(y, x, "polldrain", 0)
      BY <2>2, <2>3, AwaitsTo DEF Typed
    <2>5. y.at = "polldrain" /\ y.inside = TRUE /\ y.kind = "poll" /\ y.bin = <<>>
      BY <2>3, <2>4 DEF Awaiting
    <2>6. BinOK(y) /\ Apart(y)
      BY <2>5 DEF BinOK, Apart
    <2>7. op[o].at \in Plain /\ y.at \in Plain
      BY <2>2, <2>5 DEF Plain, Resting
    <2>8. Quiet(o)
      BY <1>0, <2>2
    <2> QED
      BY <2>2, <2>4, <2>5, <2>6, <2>7, <2>8, PlainStep
  <1> QED
    BY <1>1, <1>2, <1>3, <1>5, <1>6, <1>7, Zenon DEF Asks

LEMMA ElsewhereLives ==
    ASSUME LifeInv, UNCHANGED <<op, turn, born, plug, st, gen, life, inst, caps>>
    PROVE  LifeInv'
  <1>1. \A s : Keeps(s)
    BY DEF Keeps
  <1>2. \A S, L, s : Has(s, S, L)' <=> Has(s, S, L)
    BY <1>1, HasKept
  <1>3. \A s : Fresh(s)' <=> Fresh(s)
    BY <1>1, StandsKept
  <1>4. \A s : Idle(s)' <=> Idle(s)
    BY <1>1, StandsKept
  <1>5. \A f, i, j, s : Due(f, i, j, s)' <=> Due(f, i, j, s)
    BY <1>1, DueKept
  <1>6. ASSUME NEW o \in Op
        PROVE  Pool(op[o])'
    <2>1. PICK x : x = op[o] /\ x = op'[o]
      OBVIOUS
    <2>2. Pool(x)
      BY <2>1 DEF LifeInv
    <2>3. PlanOK(x)'
      BY <1>5, <2>2, Zenon DEF Pool, PlanOK
    <2>4. RecOK(x)'
      BY <1>2, <2>2, Zenon DEF Pool, RecOK
    <2>5. BinOK(x)'
      BY <1>3, <2>2, Zenon DEF Pool, BinOK
    <2>6. Pool(x)'
      BY <2>2, <2>3, <2>4, <2>5 DEF Pool, Apart
    <2> QED
      BY <2>1, <2>6 DEF Pool, PlanOK, RecOK, BinOK, Apart
  <1>7. Offered'
    BY OfferedSame DEF LifeInv
  <1>8. Lone'
    BY DEF LifeInv, Lone
  <1>9. Known'
    <2>1. \A r \in 1 .. born' : Idle(r)' \/ \E o \in Op : InHand(op'[o], r)
      BY <1>4 DEF LifeInv, Known
    <2>2. \A r \in Rec : r > born' => life'[r] = <<>>
      BY DEF LifeInv, Known
    <2> QED
      BY <2>1, <2>2 DEF Known, InHand
  <1> QED
    BY <1>6, <1>7, <1>8, <1>9 DEF LifeInv

-----------------------------------------------------------------------------
(* The invariant                                                           *)

LEMMA InitLife == Init => LifeInv
  <1> SUFFICES ASSUME Init
               PROVE  LifeInv
    OBVIOUS
  <1>1. Calm(Resting) /\ Apart(Resting)
    BY DEF Calm, Apart, Resting
  <1>2. Pool(Resting) /\ ~Engaged(Resting)
    BY <1>1, CalmPool
  <1>3. \A o \in Op : op[o] = Resting
    BY DEF Init
  <1>4. Lone
    BY <1>2, <1>3 DEF Lone
  <1>5. Offered
    BY DEF Init, Offered, OfferedIsHeld
  <1>6. Known
    <2>1. 1 .. born = {}
      BY DEF Init
    <2>2. \A r \in Rec : life[r] = <<>>
      BY DEF Init
    <2> QED
      BY <2>1, <2>2 DEF Known
  <1> QED
    BY <1>2, <1>3, <1>4, <1>5, <1>6 DEF LifeInv

LEMMA StepLives ==
    ASSUME Sheltered, Typed, Typed', LifeInv, NEW o \in Op, Step(o)
    PROVE  LifeInv'
  <1>1. CASE Importing(o)
    BY <1>1, NextFileLives, CaptureLives, ImportFailsLives, ImportEndsLives, DiscardLives DEF Importing
  <1>2. CASE Starting(o)
    BY <1>2, EnterRefusedLives, EnterLives, MakeLives, MakeFailsLives, PlanLives, NextInitLives,
       InitEndsLives, NextStartLives, StartEndsLives, RegisterEndsLives, DrainEndsLives DEF Starting
  <1>3. CASE RollingBack(o)
    BY <1>3, UndoInitLives, DiscardRestLives, UndoStartLives, RollbackWithdrawnLives,
       RollbackStoppedLives, DestroyEndsLives DEF RollingBack
  <1>4. CASE TakingDown(o)
    BY <1>4, UnloadEntryLives, WithdrawEndsLives, RevokeEndsLives, StopEndsLives, UnloadedLives,
       PollDrainedLives, NextUnloadLives, NoMoreUnloadsLives, PollEndsLives DEF TakingDown
  <1>5. ASSUME NEW ok \in BOOLEAN, CallbackReturns(o, ok)
        PROVE  LifeInv'
    BY <1>5, ReturnsLives
  <1> QED
    BY <1>1, <1>2, <1>3, <1>4, <1>5 DEF Step, Importing, Starting, RollingBack, TakingDown

LEMMA NextLife ==
    ASSUME Sheltered
    PROVE  Typed /\ Typed' /\ LifeInv /\ [Next]_vars => LifeInv'
  <1> SUFFICES ASSUME Typed, Typed', LifeInv, [Next]_vars
               PROVE  LifeInv'
    OBVIOUS
  <1>1. ASSUME NEW o \in Op, Asks(o) \/ Step(o)
        PROVE  LifeInv'
    BY <1>1, AsksLives, StepLives
  <1>2. ASSUME NEW p \in PlugId, Add(p) \/ DeferUnload(p)
        PROVE  LifeInv'
    <2>1. UNCHANGED <<op, turn, born, plug, st, gen, life, inst, caps>>
      BY <1>2, Zenon DEF Add, DeferUnload, recVars
    <2> QED
      BY <2>1, ElsewhereLives
  <1>3. ASSUME NEW k \in Call, CallEnds(k) \/ \E c \in 1 .. born, p \in PlugId : CallBegins(k, c, p)
        PROVE  LifeInv'
    <2>1. UNCHANGED <<op, turn, born, plug, st, gen, life, inst, caps>>
      BY <1>3, Zenon DEF CallBegins, CallEnds
    <2> QED
      BY <2>1, ElsewhereLives
  <1>4. CASE UNCHANGED vars
    <2>1. UNCHANGED <<op, turn, born, plug, st, gen, life, inst, caps>>
      BY <1>4, Zenon DEF vars, recVars, hostVars
    <2> QED
      BY <2>1, ElsewhereLives
  <1> QED
    BY <1>1, <1>2, <1>3, <1>4 DEF Next

LEMMA LifeHolds ==
    ASSUME Sheltered
    PROVE  Spec => []LifeInv
  <1>1. Typed /\ Typed' /\ LifeInv /\ [Next]_vars => LifeInv'
    BY NextLife
  <1> QED
    BY <1>1, InitLife, TypedHolds, PTL DEF Spec

\* The registry offers only the Active record the table holds, whatever is started,
\* rolled back or unloaded.
THEOREM OnlyHeldIsOffered ==
    ASSUME Sheltered
    PROVE  Spec => []OfferedIsHeld
  BY LifeHolds, PTL DEF LifeInv, Offered

Legal(r) ==
    /\ life[r] \in Lives4
    /\ life[r] = <<"init", "destroy">> => st[r] \in {"created", "destroyed"}

LEMMA HasLegal ==
    ASSUME NEW r, NEW S, NEW L, Has(r, S, L), L \subseteq Lives4,
           <<"init", "destroy">> \notin L \/ S \subseteq {"created", "destroyed"}
    PROVE  Legal(r)
  BY DEF Has, Legal

\* The lives behind the states of an instance, each of them legal.
LEMMA SetsLegal ==
    /\ \A L \in {{<<>>}, {<<>>, <<"init">>}, {<<"init">>}, {<<"init", "start">>},
                 {<<"init", "start">>, <<"init", "start", "stop">>},
                 {<<"init">>, <<"init", "start">>}, {<<"init", "start", "stop">>},
                 {<<"init", "stop">>, <<"init", "start", "stop">>},
                 {<<"init", "stop", "destroy">>, <<"init", "start", "stop", "destroy">>}} :
         L \subseteq Lives4 /\ <<"init", "destroy">> \notin L
    /\ {<<"destroy">>, <<"init", "destroy">>} \subseteq Lives4 /\ Ended \subseteq Lives4
  <1>1. /\ <<"init", "destroy">> # <<>> /\ <<"init", "destroy">> # <<"init">>
        /\ <<"init", "destroy">> # <<"init", "start">> /\ <<"init", "destroy">> # <<"init", "stop">>
        /\ <<"init", "destroy">> # <<"init", "start", "stop">>
        /\ <<"init", "destroy">> # <<"init", "stop", "destroy">>
        /\ <<"init", "destroy">> # <<"init", "start", "stop", "destroy">>
    OBVIOUS
  <1> QED
    BY <1>1, Zenon DEF Lives4, Ended

LEMMA IdleLegal ==
    ASSUME NEW r
    PROVE  /\ Fresh(r) => Legal(r)
           /\ Half(r) => Legal(r)
           /\ Inited(r) => Legal(r)
           /\ Served(r) => Legal(r)
           /\ Gone(r) => Legal(r)
           /\ Idle(r) => Legal(r)
  <1>1. (Fresh(r) => Legal(r)) /\ (Half(r) => Legal(r)) /\ (Inited(r) => Legal(r)) /\ (Served(r) => Legal(r))
    BY HasLegal, SetsLegal DEF Fresh, Half, Inited, Served
  <1>2. Isolated(r) => Legal(r)
    BY HasLegal, SetsLegal DEF Isolated
  <1>3. Gone(r) => Legal(r)
    BY SetsLegal DEF Gone, Legal
  <1> QED
    BY <1>1, <1>2, <1>3 DEF Idle

LEMMA DueLegal ==
    ASSUME NEW f \in Planning, NEW i, NEW j, NEW r, Due(f, i, j, r)
    PROVE  Legal(r)
  <1>1. /\ Has(r, {"created"}, {<<"init">>}) => Legal(r)
        /\ Has(r, {"initialized"}, {<<"init", "start">>}) => Legal(r)
        /\ Has(r, {"initialized"}, {<<"init">>, <<"init", "start">>}) => Legal(r)
    BY HasLegal, SetsLegal
  <1> QED
    BY <1>1, IdleLegal, Zenon DEF Due, Planning

LEMMA RecLegal ==
    ASSUME NEW x, RecOK(x), x.at \in Handling
    PROVE  Legal(x.rec)
  <1>1. CASE x.at = "rbwithdraw"
    BY <1>1, HasLegal, SetsLegal DEF RecOK
  <1>2. CASE x.at = "rbstop"
    BY <1>2, HasLegal, SetsLegal DEF RecOK
  <1>3. CASE x.at = "destroy"
    <2>1. Has(x.rec, {"created"}, {<<"destroy">>, <<"init", "destroy">>}) => Legal(x.rec)
      BY HasLegal, SetsLegal
    <2>2. Has(x.rec, {"active", "initialized", "revoking"},
              {<<"init", "stop", "destroy">>, <<"init", "start", "stop", "destroy">>}) => Legal(x.rec)
      BY HasLegal, SetsLegal
    <2> QED
      BY <1>3, <2>1, <2>2 DEF RecOK
  <1>4. CASE x.at \in {"withdraw", "revoke"}
    BY <1>4, HasLegal, SetsLegal DEF RecOK
  <1>5. CASE x.at = "stop"
    BY <1>5, HasLegal, SetsLegal DEF RecOK
  <1> QED
    BY <1>1, <1>2, <1>3, <1>4, <1>5 DEF Handling, Detours

\* init, start, stop and destroy are called on every record in the order of the
\* lifecycle, each once at most, and a record whose init() returned is stopped before
\* it is destroyed, whichever callbacks throw and whatever is rolled back.
THEOREM LivesAreLegal ==
    ASSUME Sheltered
    PROVE  Spec => []LegalLife
  <1>1. ASSUME Typed, LifeInv, NEW r \in Rec
        PROVE  Legal(r)
    <2>1. CASE r > born
      <3>1. life[r] = <<>> /\ <<>> # <<"init", "destroy">>
        BY <1>1, <2>1 DEF LifeInv, Known
      <3> QED
        BY <3>1, Zenon DEF Legal, Lives4
    <2>2. CASE Idle(r)
      BY <2>2, IdleLegal
    <2>3. ASSUME NEW o \in Op, InHand(op[o], r)
          PROVE  Legal(r)
      <3>0. PICK x : x = op[o]
        OBVIOUS
      <3>1. PlanOK(x) /\ RecOK(x)
        BY <1>1, <3>0 DEF LifeInv, Pool
      <3>2. CASE x.at \in Handling /\ x.rec = r
        BY <3>1, <3>2, RecLegal
      <3>3. CASE /\ Phase(x) \in Planning /\ ~(x.at \in Handling /\ x.rec = r)
                 /\ \E j \in 1 .. Len(x.plan) : x.plan[j] = r
        <4>1. PICK j \in 1 .. Len(x.plan) : x.plan[j] = r
          BY <3>3
        <4>2. Due(Phase(x), x.pos, j, r)
          BY <3>1, <3>3, <4>1 DEF PlanOK, Handling
        <4> QED
          BY <3>3, <4>2, DueLegal
      <3> QED
        BY <2>3, <3>0, <3>2, <3>3 DEF InHand
    <2>4. r > born \/ r \in 1 .. born
      BY <1>1, RecordRange DEF Rec, Typed
    <2> QED
      BY <1>1, <2>1, <2>2, <2>3, <2>4 DEF LifeInv, Known
  <1>2. Typed /\ LifeInv => LegalLife
    BY <1>1 DEF LegalLife, Legal
  <1> QED
    BY <1>2, TypedHolds, LifeHolds, PTL

-----------------------------------------------------------------------------
(* Accepted unloads                                                        *)

NotLost(r) ==
    \/ Contains(deferred, plug[r])
    \/ closing \/ inst[plug[r]] # r \/ st[r] = "faulted"
    \/ \E o \in Op : Unloading(o) /\ op[o].id = plug[r]

\* The kinds of operation that may meet calls in flight: others begin their only
\* unload with no call on the stack.
Repeated == {"poll", "shutdown"}

Rounds == {"polldrain", "next", "polldone"}

\* How an operation stands that executes unloads; once it is through with one, the
\* status tells what became of the record.
Executing(o, x) ==
    /\ x.kind = "shutdown" => closing
    /\ x.at \in Rounds => x.kind \in Repeated
    /\ x.at = "unload" /\ x.kind \notin Repeated => turn = o /\ \A k \in Call : call[k] = 0
    /\ x.at \in Taking => plug[x.rec] = x.id /\ x.status # "busy"
    /\ x.at \in {"withdraw", "revoke"} /\ x.kind \notin Repeated => \A k \in Call : call[k] # x.rec
    /\ x.at = "destroy" /\ x.back = "unloaded" => plug[x.rec] = x.id /\ x.status = "ok"
    /\ x.at = "unloaded" =>
         /\ turn = o
         /\ x.status = "ok" => inst[x.id] = 0
         /\ x.status = "failed" => inst[x.id] = 0 \/ st[inst[x.id]] = "faulted"
         /\ x.status = "busy" => x.kind \in Repeated

QueueInv ==
    /\ \A r \in asked : NotLost(r)
    /\ \A o \in Op : Executing(o, op[o])

Takes(x) ==
    \/ x.at \in {"unload", "withdraw", "revoke", "stop", "unloaded"}
    \/ x.at = "destroy" /\ x.back = "unloaded"

\* An operation that executes no unload.
Aside(x) == ~Takes(x) /\ x.at \notin Rounds

\* One that executes none after a step either.
StaysAside(o) ==
    /\ DOMAIN op' = Op /\ \A b \in Op \ {o} : op'[b] = op[b]
    /\ Aside(op'[o]) /\ op'[o].kind \in {op[o].kind, "none"}

LEMMA UnloadingIs ==
    ASSUME NEW o \in Op, NEW x
    PROVE  /\ x = op[o] => (Unloading(o) <=> Takes(x))
           /\ x = op'[o] => (Unloading(o)' <=> Takes(x))
  BY DEF Unloading, Takes

LEMMA OthersExecute ==
    ASSUME NEW o \in Op, NEW b \in Op \ {o}, Typed, Executing(b, op[b]), turn \in {o, NoOp},
           NEW x, x = op[b], \A s \in 1 .. born : plug'[s] = plug[s],
           closing => closing', call' = call
    PROVE  Executing(b, x)'
  <1>1. turn # b
    BY RackHostAssumption
  <1>2. x.at # "unloaded" /\ ~(x.at = "unload" /\ x.kind \notin Repeated)
    BY <1>1 DEF Executing
  <1>3. x.at \in Taking \/ x.at = "destroy" => x.rec \in 1 .. born
    BY RecIs DEF WithRec, Callbacks, Taking
  <1> QED
    BY <1>2, <1>3 DEF Executing

LEMMA QueueStep ==
    ASSUME NEW o \in Op, NEW y, Typed, QueueInv, turn \in {o, NoOp}, Becomes(o, y),
           \A s \in 1 .. born : plug'[s] = plug[s], closing => closing', call' = call, asked' = asked,
           Executing(o, y)',
           \A r \in asked :
             /\ Contains(deferred, plug[r]) => NotLost(r)'
             /\ inst[plug[r]] # r \/ st[r] = "faulted" => NotLost(r)'
             /\ Unloading(o) /\ op[o].id = plug[r] => NotLost(r)'
    PROVE  QueueInv'
  <1>1. ASSUME NEW r \in asked
        PROVE  NotLost(r)'
    <2>1. plug'[r] = plug[r]
      BY DEF Typed, Ground
    <2>2. CASE closing
      BY <2>2 DEF NotLost
    <2>3. ASSUME NEW b \in Op \ {o}, Unloading(b), op[b].id = plug[r]
          PROVE  NotLost(r)'
      <3>1. op'[b] = op[b]
        BY DEF Becomes
      <3>2. Unloading(b)'
        BY <2>3, <3>1 DEF Unloading
      <3> QED
        BY <2>1, <2>3, <3>1, <3>2 DEF NotLost
    <2> QED
      BY <2>2, <2>3 DEF QueueInv, NotLost
  <1>2. ASSUME NEW b \in Op
        PROVE  Executing(b, op[b])'
    <2>1. PICK x : x = op'[b]
      OBVIOUS
    <2>2. Executing(b, x)'
      <3>1. CASE b = o
        BY <2>1, <3>1 DEF Becomes
      <3>2. CASE b # o
        <4>1. x = op[b] /\ Executing(b, op[b])
          BY <2>1, <3>2 DEF Becomes, QueueInv
        <4> QED
          BY <3>2, <4>1, OthersExecute
      <3> QED
        BY <3>1, <3>2
    <2> QED
      BY <2>1, <2>2 DEF Executing
  <1> QED
    BY <1>1, <1>2 DEF QueueInv

\* A step that brings no record back and ends no quarantine.
Steady ==
    \A r \in 1 .. born :
        /\ plug'[r] = plug[r]
        /\ inst[plug[r]] # r => inst'[plug[r]] # r
        /\ st[r] = "faulted" => st'[r] = "faulted" \/ inst'[plug[r]] # r

LEMMA AsideStep ==
    ASSUME NEW o \in Op, Typed, QueueInv, turn \in {o, NoOp}, Aside(op[o]), StaysAside(o), Steady,
           UNCHANGED <<closing, deferred, asked, call>>
    PROVE  QueueInv'
  <1>1. PICK y : y = op'[o]
    OBVIOUS
  <1>2. Becomes(o, y) /\ Aside(y) /\ y.kind \in {op[o].kind, "none"}
    BY <1>1 DEF Becomes, StaysAside
  <1>3. Executing(o, y)'
    BY <1>2 DEF Aside, Takes, Taking, Executing, QueueInv
  <1>4. ~Unloading(o)
    BY UnloadingIs DEF Aside
  <1>5. \A s \in 1 .. born : plug'[s] = plug[s]
    BY DEF Steady
  <1>6. ASSUME NEW r \in asked
        PROVE  /\ Contains(deferred, plug[r]) => NotLost(r)'
               /\ inst[plug[r]] # r \/ st[r] = "faulted" => NotLost(r)'
    <2>1. r \in 1 .. born
      BY DEF Typed, Ground
    <2> QED
      BY <2>1 DEF Steady, NotLost
  <1> QED
    BY <1>2, <1>3, <1>4, <1>5, <1>6, QueueStep

\* The three ways to stay aside: to go on,
LEMMA RunsAside ==
    ASSUME Ops, NEW o \in Op, NEW x, Runs(o, x), Aside(x), x.kind = op[o].kind
    PROVE  StaysAside(o)
  BY DEF Ops, Runs, StaysAside

\* to await a callback,
LEMMA AwaitsAside ==
    ASSUME Ops, NEW o \in Op, NEW x, NEW l, NEW r, Awaits(o, x, l, r), DOMAIN x = Fields,
           x.kind = op[o].kind, Aside([at |-> l, back |-> x.back])
    PROVE  StaysAside(o)
  <1>1. PICK y : Becomes(o, y) /\ Awaiting(y, x, l, r)
    BY AwaitsTo
  <1>2. y.at = l /\ y.back = x.back /\ y.kind = x.kind
    BY <1>1 DEF Awaiting
  <1>3. Aside(y)
    BY <1>2 DEF Aside, Takes, Rounds
  <1> QED
    BY <1>1, <1>2, <1>3 DEF Becomes, StaysAside

\* and to be over.
LEMMA OverAside ==
    ASSUME Ops, NEW o \in Op, Over(o)
    PROVE  StaysAside(o)
  BY DEF Ops, Over, Resting, StaysAside, Aside, Takes, Rounds

\* Where an operation is, to tell what it executes.
LEMMA AsideAt ==
    ASSUME Ops, NEW o \in Op, NEW l, At(o, l)
    PROVE  op[o].at = l /\ DOMAIN op[o] = Fields /\ op[o].back \in Backs
  BY DEF Ops, At, Sorted

LEMMA ImportingAside ==
    ASSUME Ops, NEW o \in Op, Importing(o)
    PROVE  Aside(op[o]) /\ StaysAside(o)
  <1> USE DEF Fields, Aside, Takes, Rounds
  <1>1. CASE NextFile(o)
    <2>1. op[o].at = "files" /\ DOMAIN op[o] = Fields
      BY <1>1, AsideAt DEF NextFile
    <2>2. CASE op[o].ids = <<>>
      BY <1>1, <2>1, <2>2, RunsAside DEF NextFile, GoOn
    <2>3. CASE op[o].ids # <<>>
      BY <1>1, <2>1, <2>3, RunsAside DEF NextFile
    <2> QED
      BY <2>2, <2>3
  <1>2. CASE Capture(o)
    <2>1. op[o].at = "capture" /\ DOMAIN op[o] = Fields
      BY <1>2, AsideAt DEF Capture
    <2>2. PICK x : x = [op[o] EXCEPT !.at = "import", !.gen = nextGen + 1]
      OBVIOUS
    <2>3. x.at = "import" /\ x.kind = op[o].kind
      BY <2>1, <2>2
    <2>4. op' = [op EXCEPT ![o] = x]
      BY <1>2, <2>2 DEF Capture
    <2> QED
      BY <2>1, <2>3, <2>4 DEF StaysAside, Ops
  <1>3. ASSUME op[o].at = "import", GoOn(o, "discard")
        PROVE  Aside(op[o]) /\ StaysAside(o)
    <2>1. DOMAIN op[o] = Fields
      BY DEF Ops, Sorted
    <2> QED
      BY <1>3, <2>1, RunsAside DEF GoOn
  <1>4. CASE ImportFails(o)
    BY <1>3, <1>4 DEF ImportFails
  <1>5. CASE ImportEnds(o)
    <2>1. DOMAIN op[o] = Fields /\ op[o].at = "import"
      BY <1>5 DEF Ops, Sorted, ImportEnds
    <2>2. CASE GoOn(o, "discard")
      BY <1>3, <2>1, <2>2
    <2>3. CASE Runs(o, [op[o] EXCEPT !.at = "files", !.gen = 0, !.bin = Append(@, born + 1)])
      BY <2>1, <2>3, RunsAside
    <2>4. CASE Runs(o, [op[o] EXCEPT !.at = "enter", !.gen = 0])
      BY <2>1, <2>4, RunsAside
    <2> QED
      BY <1>5, <2>2, <2>3, <2>4 DEF ImportEnds
  <1>6. CASE Discard(o)
    <2>1. op[o].at = "discard" /\ DOMAIN op[o] = Fields
      BY <1>6, AsideAt DEF Discard
    <2>2. CASE op[o].bin = <<>>
      BY <1>6, <2>1, <2>2, OverAside DEF Discard
    <2>3. CASE op[o].bin # <<>>
      <3>1. PICK x, r : /\ x = [op[o] EXCEPT !.bin = Tail(@), !.back = "discard"]
                        /\ r = Head(op[o].bin)
        OBVIOUS
      <3>2. DOMAIN x = Fields /\ x.kind = op[o].kind /\ x.back = "discard"
        BY <2>1, <3>1
      <3>3. Awaits(o, x, "destroy", r)
        BY <1>6, <2>3, <3>1 DEF Discard
      <3> QED
        BY <2>1, <3>2, <3>3, AwaitsAside
    <2> QED
      BY <2>2, <2>3
  <1> QED
    BY <1>1, <1>2, <1>4, <1>5, <1>6 DEF Importing

LEMMA StartingAside ==
    ASSUME Ops, NEW o \in Op, Starting(o)
    PROVE  Aside(op[o]) /\ StaysAside(o)
  <1> USE DEF Fields, Aside, Takes, Rounds
  <1>1. CASE EnterRefused(o)
    BY <1>1, AsideAt, OverAside DEF EnterRefused
  <1>2. CASE Enter(o)
    <2>1. op[o].at = "enter" /\ DOMAIN op[o] = Fields
      BY <1>2, AsideAt DEF Enter
    <2>2. PICK x : x = [op[o] EXCEPT !.at = "make", !.ids = staged, !.bin = <<>>]
      OBVIOUS
    <2>3. x.kind = op[o].kind /\ x.at \in {"make", "nextStart"}
      BY <2>1, <2>2
    <2>4. Runs(o, x)
      BY <1>2, <2>2 DEF Enter
    <2> QED
      BY <2>1, <2>3, <2>4, RunsAside
  <1>3. CASE Make(o)
    <2>1. op[o].at = "make" /\ DOMAIN op[o] = Fields
      BY <1>3, AsideAt DEF Make
    <2>2. PICK x : x = [op[o] EXCEPT !.ids = Tail(@), !.bin = Append(@, born + 1)]
      OBVIOUS
    <2>3. x.kind = op[o].kind /\ x.at \in {"make", "nextStart"}
      BY <2>1, <2>2
    <2>4. Runs(o, x)
      BY <1>3, <2>2 DEF Make
    <2> QED
      BY <2>1, <2>3, <2>4, RunsAside
  <1>4. CASE MakeFails(o)
    BY <1>4, AsideAt, RunsAside DEF MakeFails, GoOn
  <1>5. CASE Plan(o)
    <2>1. op[o].at = "make" /\ DOMAIN op[o] = Fields
      BY <1>5, AsideAt DEF Plan
    <2>2. CASE Pending = {}
      BY <1>5, <2>1, <2>2, OverAside DEF Plan
    <2>3. CASE Pending # {}
      BY <1>5, <2>1, <2>3, RunsAside DEF Plan
    <2> QED
      BY <2>2, <2>3
  <1>6. CASE NextInit(o)
    <2>1. op[o].at = "nextInit" /\ DOMAIN op[o] = Fields
      BY <1>6, AsideAt DEF NextInit
    <2>2. CASE op[o].pos > Len(op[o].plan)
      BY <1>6, <2>1, <2>2, RunsAside DEF NextInit
    <2>3. CASE ~(op[o].pos > Len(op[o].plan))
      BY <1>6, <2>1, <2>3, AwaitsAside DEF NextInit
    <2> QED
      BY <2>2, <2>3
  <1>7. CASE InitEnds(o)
    <2>1. op[o].at = "init" /\ DOMAIN op[o] = Fields
      BY <1>7, AsideAt DEF InitEnds
    <2>2. CASE op[o].status = "ok"
      BY <1>7, <2>1, <2>2, RunsAside DEF InitEnds
    <2>3. CASE op[o].status # "ok"
      BY <1>7, <2>1, <2>3, RunsAside DEF InitEnds
    <2> QED
      BY <2>2, <2>3
  <1>8. CASE NextStart(o)
    <2>1. op[o].at = "nextStart" /\ DOMAIN op[o] = Fields
      BY <1>8, AsideAt DEF NextStart
    <2>2. CASE op[o].pos > Len(op[o].plan)
      BY <1>8, <2>1, <2>2, OverAside DEF NextStart
    <2>3. CASE ~(op[o].pos > Len(op[o].plan))
      BY <1>8, <2>1, <2>3, AwaitsAside DEF NextStart
    <2> QED
      BY <2>2, <2>3
  <1>9. CASE StartEnds(o)
    <2>1. op[o].at = "start" /\ DOMAIN op[o] = Fields
      BY <1>9, AsideAt DEF StartEnds
    <2>2. PICK x, r : x = [op[o] EXCEPT !.status = "failed"] /\ r = op[o].rec
      OBVIOUS
    <2>3. DOMAIN x = Fields /\ x.kind = op[o].kind
      BY <2>1, <2>2
    <2>4. CASE op[o].status = "ok"
      <3>1. \/ Awaits(o, op[o], "drain", r) \/ Awaits(o, op[o], "register", r)
            \/ Awaits(o, x, "register", r)
        BY <1>9, <2>2, <2>4 DEF StartEnds
      <3> QED
        BY <2>1, <2>3, <3>1, AwaitsAside
    <2>5. CASE op[o].status # "ok"
      BY <1>9, <2>1, <2>5, RunsAside DEF StartEnds
    <2> QED
      BY <2>4, <2>5
  <1>10. CASE RegisterEnds(o)
    <2>1. op[o].at = "register" /\ DOMAIN op[o] = Fields
      BY <1>10, AsideAt DEF RegisterEnds
    <2>2. CASE op[o].status = "ok"
      BY <1>10, <2>1, <2>2, AwaitsAside DEF RegisterEnds
    <2>3. CASE op[o].status # "ok"
      BY <1>10, <2>1, <2>3, RunsAside DEF RegisterEnds
    <2> QED
      BY <2>2, <2>3
  <1>11. CASE DrainEnds(o)
    <2>1. op[o].at = "drain" /\ DOMAIN op[o] = Fields
      BY <1>11, AsideAt DEF DrainEnds
    <2>2. PICK x : x = [op[o] EXCEPT !.at = "nextStart", !.pos = @ + 1]
      OBVIOUS
    <2>3. x.kind = op[o].kind /\ x.at \in {"make", "nextStart"}
      BY <2>1, <2>2
    <2>4. Runs(o, x)
      BY <1>11, <2>2 DEF DrainEnds
    <2> QED
      BY <2>1, <2>3, <2>4, RunsAside
  <1> QED
    BY <1>1, <1>2, <1>3, <1>4, <1>5, <1>6, <1>7, <1>8, <1>9, <1>10, <1>11 DEF Starting

\* A rollback, save for the steps that end in destroyRecord().
LEMMA RollingBackAside ==
    ASSUME Ops, NEW o \in Op, RollingBack(o), ~DestroyEnds(o)
    PROVE  Aside(op[o]) /\ StaysAside(o)
  <1> USE DEF Fields, Aside, Takes, Rounds
  <1>1. CASE UndoInit(o)
    <2>1. op[o].at = "undoInit" /\ DOMAIN op[o] = Fields
      BY <1>1, AsideAt DEF UndoInit
    <2>2. CASE op[o].pos = 0
      BY <1>1, <2>1, <2>2, RunsAside DEF UndoInit
    <2>3. CASE op[o].pos # 0
      BY <1>1, <2>1, <2>3, AwaitsAside DEF UndoInit
    <2> QED
      BY <2>2, <2>3
  <1>2. CASE DiscardRest(o)
    <2>1. op[o].at = "discardRest" /\ DOMAIN op[o] = Fields
      BY <1>2, AsideAt DEF DiscardRest
    <2>2. CASE op[o].pos > Len(op[o].plan)
      BY <1>2, <2>1, <2>2, OverAside DEF DiscardRest
    <2>3. CASE ~(op[o].pos > Len(op[o].plan)) /\ st[Planned(o)] = "created"
      BY <1>2, <2>1, <2>3, AwaitsAside DEF DiscardRest
    <2>4. CASE ~(op[o].pos > Len(op[o].plan)) /\ st[Planned(o)] # "created"
      BY <1>2, <2>1, <2>4, RunsAside DEF DiscardRest
    <2> QED
      BY <2>2, <2>3, <2>4
  <1>3. CASE UndoStart(o)
    <2>1. op[o].at = "undoStart" /\ DOMAIN op[o] = Fields
      BY <1>3, AsideAt DEF UndoStart
    <2>2. PICK x, r : x = [op[o] EXCEPT !.pos = @ - 1, !.back = "undoStart"] /\ r = Planned(o)
      OBVIOUS
    <2>3. /\ DOMAIN x = Fields /\ x.kind = op[o].kind
          /\ x.back = "undoStart" /\ x.at = "undoStart"
      BY <2>1, <2>2
    <2>4. Over(o) \/ Runs(o, x) \/ Awaits(o, x, "destroy", r) \/ Awaits(o, x, "rbwithdraw", r)
      BY <1>3, <2>2 DEF UndoStart
    <2> QED
      BY <2>1, <2>3, <2>4, OverAside, RunsAside, AwaitsAside
  <1>4. CASE RollbackWithdrawn(o)
    BY <1>4, AsideAt, AwaitsAside DEF RollbackWithdrawn
  <1>5. CASE RollbackStopped(o)
    <2>1. op[o].at = "rbstop" /\ DOMAIN op[o] = Fields
      BY <1>5, AsideAt DEF RollbackStopped
    <2>2. op[o].back \in Undoing
      BY <2>1 DEF Ops, Placed
    <2> QED
      BY <1>5, <2>1, <2>2, AwaitsAside DEF RollbackStopped, Undoing
  <1> QED
    BY <1>1, <1>2, <1>3, <1>4, <1>5 DEF RollingBack

LEMMA SteadySame ==
    ASSUME UNCHANGED <<plug, inst, st>>
    PROVE  Steady
  BY DEF Steady

LEMMA SteadyCreated ==
    ASSUME NEW p \in PlugId, NEW g, Typed, LifeInv, CanCreate, inst[p] = 0, Create(p, g)
    PROVE  Steady
  <1>1. PICK n : n = born + 1
    OBVIOUS
  <1>2. \A s \in 1 .. born : Keeps(s) /\ plug'[s] = plug[s] /\ st'[s] = st[s]
    BY <1>1, Created DEF Typed, LifeInv
  <1> QED
    BY <1>2 DEF Steady, Keeps

\* The state of record q becomes v, and it has not been quarantined.
LEMMA SteadySet ==
    ASSUME NEW q, NEW v, Ground, q \in 1 .. born, st[q] # "faulted", st' = [st EXCEPT ![q] = v],
           UNCHANGED <<plug, inst>>
    PROVE  Steady
  <1>1. \A r \in 1 .. born : r # q => st'[r] = st[r]
    BY RecordRange DEF Ground
  <1> QED
    BY <1>1 DEF Steady

LEMMA InitEndsSteady ==
    ASSUME Typed, LifeInv, NEW o \in Op, InitEnds(o)
    PROVE  Steady
  <1>0. PICK x : x = op[o]
    OBVIOUS
  <1>1. Standing(o, x, "init")
    BY <1>0, Stands DEF InitEnds, Planning
  <1>2. UNCHANGED <<plug, inst>>
    BY Zenon DEF InitEnds, hostVars
  <1>3. CASE st' = st
    BY <1>2, <1>3, SteadySame
  <1>4. CASE st' = [st EXCEPT ![x.rec] = "initialized"]
    <2>1. x.pos \in 1 .. Len(x.plan) /\ x.rec = x.plan[x.pos] /\ x.rec \in 1 .. born
      BY <1>1 DEF Standing, Placed
    <2>2. Has(x.rec, {"created"}, {<<"init">>})
      BY <1>1, <2>1 DEF Standing, Due
    <2> QED
      BY <1>2, <1>4, <2>1, <2>2, SteadySet DEF Has, Typed
  <1> QED
    BY <1>0, <1>3, <1>4 DEF InitEnds

LEMMA StartEndsSteady ==
    ASSUME Typed, LifeInv, NEW o \in Op, StartEnds(o)
    PROVE  Steady
  <1>0. PICK x : x = op[o]
    OBVIOUS
  <1>1. Standing(o, x, "start")
    BY <1>0, Stands DEF StartEnds, Planning
  <1>2. UNCHANGED <<plug, inst>>
    BY Zenon DEF StartEnds
  <1>3. CASE st' = st
    BY <1>2, <1>3, SteadySame
  <1>4. CASE st' = [st EXCEPT ![x.rec] = "active"]
    <2>1. x.pos \in 1 .. Len(x.plan) /\ x.rec = x.plan[x.pos] /\ x.rec \in 1 .. born
      BY <1>1 DEF Standing, Placed
    <2>2. Has(x.rec, {"initialized"}, {<<"init", "start">>})
      BY <1>1, <2>1 DEF Standing, Due
    <2> QED
      BY <1>2, <1>4, <2>1, <2>2, SteadySet DEF Has, Typed
  <1> QED
    BY <1>0, <1>3, <1>4 DEF StartEnds

LEMMA ImportingSteady ==
    ASSUME Typed, LifeInv, NEW o \in Op, Importing(o)
    PROVE  Steady
  <1>1. CASE ImportEnds(o)
    <2>1. PICK p, g : p = op[o].id /\ g = op[o].gen
      OBVIOUS
    <2>2. op[o].at = "import" /\ Placed(op[o])
      BY <1>1, Zenon DEF ImportEnds, Typed, Ops
    <2>3. p \in PlugId
      BY <2>1, <2>2 DEF Placed, WithId
    <2>4. UNCHANGED <<recVars, inst>> \/ (CanCreate /\ inst[p] = 0 /\ Create(p, g))
      BY <1>1, <2>1, Zenon DEF ImportEnds, Duplicate
    <2> QED
      BY <2>3, <2>4, SteadyCreated, SteadySame DEF recVars
  <1>2. CASE ~ImportEnds(o)
    <2>1. UNCHANGED <<plug, inst, st>>
      BY <1>2, Zenon DEF Importing, NextFile, Capture, ImportFails, Discard, recVars, hostVars
    <2> QED
      BY <2>1, SteadySame
  <1> QED
    BY <1>1, <1>2

LEMMA StartingSteady ==
    ASSUME Typed, LifeInv, NEW o \in Op, Starting(o)
    PROVE  Steady
  <1>1. CASE Make(o)
    <2>1. PICK p, g : p = Head(op[o].ids) /\ g = nextGen + 1
      OBVIOUS
    <2>2. op[o].ids # <<>> /\ CanCreate /\ inst[p] = 0 /\ Create(p, g)
      BY <1>1, <2>1, Zenon DEF Make, Duplicate
    <2>3. p \in PlugId
      BY <2>1, <2>2, TailIs DEF Typed, Ops, Sorted
    <2> QED
      BY <2>2, <2>3, SteadyCreated
  <1>2. CASE ~Make(o) /\ ~InitEnds(o) /\ ~StartEnds(o)
    <2>1. UNCHANGED <<plug, inst, st>>
      BY <1>2, Zenon DEF Starting, EnterRefused, Enter, MakeFails, Plan, NextInit, NextStart,
                RegisterEnds, DrainEnds, recVars, hostVars
    <2> QED
      BY <2>1, SteadySame
  <1> QED
    BY <1>1, <1>2, InitEndsSteady, StartEndsSteady

\* An operation that executes no unload loses none.
LEMMA AsideQueue ==
    ASSUME Typed, LifeInv, QueueInv, NEW o \in Op,
           Importing(o) \/ Starting(o) \/ (RollingBack(o) /\ ~DestroyEnds(o))
    PROVE  QueueInv'
  <1>1. Aside(op[o]) /\ StaysAside(o)
    BY ImportingAside, StartingAside, RollingBackAside DEF Typed
  <1>2. turn \in {o, NoOp}
    BY OthersWait
  <1>3. CASE Importing(o)
    <2>1. UNCHANGED <<closing, deferred, asked, call>>
      BY <1>3, Zenon DEF Importing, NextFile, Capture, ImportFails, ImportEnds, Discard, hostVars, callVars
    <2> QED
      BY <1>1, <1>2, <1>3, <2>1, ImportingSteady, AsideStep
  <1>4. CASE Starting(o)
    <2>1. UNCHANGED <<closing, deferred, asked, call>>
      BY <1>4, Zenon DEF Starting, EnterRefused, Enter, Make, MakeFails, Plan, NextInit, InitEnds,
                NextStart, StartEnds, RegisterEnds, DrainEnds, hostVars, callVars
    <2> QED
      BY <1>1, <1>2, <1>4, <2>1, StartingSteady, AsideStep
  <1>5. CASE RollingBack(o) /\ ~DestroyEnds(o)
    <2>1. UNCHANGED <<closing, deferred, asked, call, plug, inst, st>>
      BY <1>5, Zenon DEF RollingBack, UndoInit, DiscardRest, UndoStart, RollbackWithdrawn,
                RollbackStopped, hostVars, callVars
    <2> QED
      BY <1>1, <1>2, <2>1, SteadySame, AsideStep
  <1> QED
    BY <1>3, <1>4, <1>5

\* The operation that awaits a callback, whole.
LEMMA AwaitsWhole ==
    ASSUME Ops, NEW o \in Op, NEW x, DOMAIN x = Fields, NEW l, NEW r, Awaits(o, x, l, r)
    PROVE  \E y : /\ Becomes(o, y) /\ y.at = l /\ y.rec = r /\ y.kind = x.kind
                  /\ y.id = x.id /\ y.status = x.status /\ y.back = x.back
  <1> DEFINE y == [x EXCEPT !.at = l, !.inside = TRUE, !.rec = r]
  <1>1. /\ y.at = l /\ y.rec = r /\ y.kind = x.kind
        /\ y.id = x.id /\ y.status = x.status /\ y.back = x.back
    BY DEF Fields
  <1>2. op' = [op EXCEPT ![o] = y]
    BY DEF Awaits
  <1> HIDE DEF y
  <1>3. Becomes(o, y)
    BY <1>2 DEF Becomes, Ops
  <1> QED
    BY <1>1, <1>3

LEMMA QueuedHas ==
    ASSUME Ground, NEW p \in PlugId
    PROVE  Contains(Queued(p), p) /\ \A q : Contains(deferred, q) => Contains(Queued(p), q)
  <1>1. CASE Contains(deferred, p)
    BY <1>1 DEF Queued
  <1>2. CASE ~Contains(deferred, p)
    <2>1. PICK t : t = Append(deferred, p)
      OBVIOUS
    <2>2. deferred \in Seq(PlugId) /\ Queued(p) = t
      BY <1>2, <2>1 DEF Ground, Queued
    <2>3. /\ Len(deferred) \in Nat /\ Len(t) = Len(deferred) + 1 /\ t[Len(deferred) + 1] = p
          /\ \A i \in 1 .. Len(deferred) : t[i] = deferred[i]
      BY <2>1, <2>2
    <2>4. Contains(t, p) /\ \A q : Contains(deferred, q) => Contains(t, q)
      BY <2>3 DEF Contains
    <2> QED
      BY <2>2, <2>4
  <1> QED
    BY <1>1, <1>2

LEMMA DroppedHas ==
    ASSUME Ground, NEW p
    PROVE  \A q : Contains(deferred, q) /\ q # p => Contains(Dropped(p), q)
  <1>1. deferred \in Seq(PlugId) /\ \A i, j \in DOMAIN deferred : deferred[i] = deferred[j] => i = j
    BY DEF Ground
  <1> QED
    BY <1>1, RemoveFirstIs, Zenon DEF Dropped

\* A step that drops no request but that of the unload it goes on with.
LEMMA GoesOn ==
    ASSUME NEW o \in Op, NEW y, Typed, QueueInv, turn \in {o, NoOp}, Becomes(o, y), Steady,
           UNCHANGED <<closing, asked, call>>, Executing(o, y)',
           \A q : Contains(deferred, q) => Contains(deferred', q) \/ (Takes(y) /\ y.id = q),
           Takes(op[o]) => Takes(y) /\ y.id = op[o].id
    PROVE  QueueInv'
  <1>1. \A s \in 1 .. born : plug'[s] = plug[s]
    BY DEF Steady
  <1>2. op'[o] = y
    BY DEF Becomes
  <1>3. ASSUME NEW r \in asked, Takes(y), y.id = plug[r], plug'[r] = plug[r]
        PROVE  NotLost(r)'
    <2>1. Unloading(o)' /\ op'[o].id = plug'[r]
      BY <1>2, <1>3, UnloadingIs
    <2> QED
      BY <2>1 DEF NotLost
  <1>4. ASSUME NEW r \in asked
        PROVE  /\ Contains(deferred, plug[r]) => NotLost(r)'
               /\ inst[plug[r]] # r \/ st[r] = "faulted" => NotLost(r)'
               /\ Unloading(o) /\ op[o].id = plug[r] => NotLost(r)'
    <2>1. r \in 1 .. born /\ plug'[r] = plug[r]
      BY <1>1 DEF Typed, Ground
    <2>2. Contains(deferred, plug[r]) => NotLost(r)'
      BY <1>3, <2>1 DEF NotLost
    <2>3. inst[plug[r]] # r \/ st[r] = "faulted" => NotLost(r)'
      BY <2>1 DEF Steady, NotLost
    <2>4. Unloading(o) /\ op[o].id = plug[r] => NotLost(r)'
      BY <1>3, <2>1, UnloadingIs
    <2> QED
      BY <2>2, <2>3, <2>4
  <1> QED
    BY <1>1, <1>4, QueueStep

\* Where an operation of rounds or unloads is.
LEMMA ExecutingAt ==
    ASSUME Typed, QueueInv, NEW o \in Op, NEW l, At(o, l)
    PROVE  /\ op[o].at = l /\ turn \in {o, NoOp} /\ Executing(o, op[o])
           /\ DOMAIN op[o] = Fields /\ Sorted(op[o], born) /\ Placed(op[o])
  BY DEF Typed, Ops, Sorted, QueueInv, At

LEMMA PollDrainedQueue ==
    ASSUME Typed, QueueInv, NEW o \in Op, PollDrained(o)
    PROVE  QueueInv'
  <1>0. PICK y : y = [op[o] EXCEPT !.at = "next", !.ids = deferred]
    OBVIOUS
  <1>1. /\ op[o].at = "polldrain" /\ turn \in {o, NoOp} /\ Executing(o, op[o])
        /\ DOMAIN op[o] = Fields
    BY ExecutingAt DEF PollDrained
  <1>2. y.at = "next" /\ y.kind = op[o].kind
    BY <1>0, <1>1 DEF Fields
  <1>3. UNCHANGED <<plug, inst, st, closing, asked, call, deferred>>
    BY Zenon DEF PollDrained, recVars, hostVars, callVars
  <1>4. Becomes(o, y)
    BY <1>0, RunsTo DEF PollDrained, Typed
  <1>5. Executing(o, y)'
    BY <1>1, <1>2, <1>3 DEF Executing, Rounds, Taking
  <1>6. ~Takes(op[o])
    BY <1>1 DEF Takes
  <1> QED
    BY <1>1, <1>3, <1>4, <1>5, <1>6, SteadySame, GoesOn

LEMMA RoundOver ==
    ASSUME Typed, QueueInv, NEW o \in Op, op[o].at \in Rounds, turn \in {o, NoOp}, Over(o),
           UNCHANGED <<plug, inst, st, closing, asked, call, deferred>>
    PROVE  QueueInv'
  <1>1. Becomes(o, Resting)
    BY OverTo DEF Typed
  <1>2. Executing(o, Resting)'
    BY DEF Executing, Resting, Rounds, Taking
  <1>3. ~Takes(op[o])
    BY DEF Takes, Rounds
  <1> QED
    BY <1>1, <1>2, <1>3, SteadySame, GoesOn

LEMMA NoMoreUnloadsQueue ==
    ASSUME Typed, QueueInv, NEW o \in Op, NoMoreUnloads(o)
    PROVE  QueueInv'
  <1>1. /\ op[o].at = "next" /\ turn \in {o, NoOp} /\ Executing(o, op[o])
        /\ DOMAIN op[o] = Fields
    BY ExecutingAt DEF NoMoreUnloads
  <1>2. UNCHANGED <<plug, inst, st, closing, asked, call, deferred>>
    BY Zenon DEF NoMoreUnloads, recVars, callVars
  <1>3. CASE op[o].kind = "poll"
    <2>1. Awaits(o, op[o], "polldone", 0)
      BY <1>3 DEF NoMoreUnloads
    <2>2. PICK y : Becomes(o, y) /\ y.at = "polldone" /\ y.kind = op[o].kind
      BY <1>1, <2>1, AwaitsWhole DEF Typed
    <2>3. Executing(o, y)'
      BY <1>1, <1>2, <2>2 DEF Executing, Rounds, Taking
    <2>4. ~Takes(op[o])
      BY <1>1 DEF Takes
    <2> QED
      BY <1>1, <1>2, <2>2, <2>3, <2>4, SteadySame, GoesOn
  <1>4. CASE op[o].kind # "poll"
    BY <1>1, <1>2, <1>4, RoundOver DEF NoMoreUnloads, Rounds
  <1> QED
    BY <1>3, <1>4

LEMMA PollEndsQueue ==
    ASSUME Typed, QueueInv, NEW o \in Op, PollEnds(o)
    PROVE  QueueInv'
  <1>1. op[o].at = "polldone" /\ turn \in {o, NoOp}
    BY ExecutingAt DEF PollEnds
  <1>2. UNCHANGED <<plug, inst, st, closing, asked, call, deferred>>
    BY Zenon DEF PollEnds, recVars, hostVars, callVars
  <1> QED
    BY <1>1, <1>2, RoundOver DEF PollEnds, Rounds

LEMMA ReturnsQueue ==
    ASSUME Typed, QueueInv, NEW o \in Op, NEW ok \in BOOLEAN, CallbackReturns(o, ok)
    PROVE  QueueInv'
  <1>0. PICK x, s :
          /\ x = op[o]
          /\ s = IF x.at \in MayFail \ {"rbstop", "destroy"} THEN IF ok THEN "ok" ELSE "failed"
                 ELSE x.status
    OBVIOUS
  <1>1. PICK y : y = [x EXCEPT !.inside = FALSE, !.status = s]
    OBVIOUS
  <1>2. /\ turn = NoOp /\ x.inside
        /\ UNCHANGED <<plug, inst, st, closing, asked, call, deferred>>
    BY <1>0, Zenon DEF CallbackReturns, Settles, LoopFree, recVars, callVars
  <1>3. DOMAIN x = Fields /\ Executing(o, x) /\ x.at \in Callbacks
    BY <1>0, <1>2 DEF Typed, Ops, Sorted, QueueInv, BatchInv, DepthInv, Frames, Fits
  <1>4. /\ y.at = x.at /\ y.back = x.back /\ y.rec = x.rec /\ y.kind = x.kind /\ y.id = x.id
        /\ y.status = s
    BY <1>1, <1>3 DEF Fields
  <1>5. op' = [op EXCEPT ![o] = y]
    BY <1>0, <1>1 DEF CallbackReturns, Typed, Ops
  <1>6. Becomes(o, y)
    BY <1>5 DEF Becomes, Typed, Ops
  <1>7. x.at \notin {"unload", "unloaded"}
    BY <1>3 DEF Callbacks
  <1>8. x.at \in Taking => s # "busy"
    BY <1>0, <1>3 DEF Executing, MayFail
  <1>9. x.at = "destroy" => s = x.status
    BY <1>0
  <1>10. Executing(o, y)'
    BY <1>2, <1>3, <1>4, <1>7, <1>8, <1>9 DEF Executing
  <1>11. Takes(x) => Takes(y) /\ y.id = x.id
    BY <1>4 DEF Takes
  <1> QED
    BY <1>0, <1>2, <1>6, <1>10, <1>11, SteadySame, GoesOn

LEMMA NextUnloadQueue ==
    ASSUME Typed, QueueInv, NEW o \in Op, NextUnload(o)
    PROVE  QueueInv'
  <1>0. PICK p, x, y : /\ p = Head(op[o].ids) /\ x = [op[o] EXCEPT !.ids = Tail(op[o].ids)]
                       /\ y = [x EXCEPT !.at = "unload", !.id = p]
    OBVIOUS
  <1>1. /\ op[o].at = "next" /\ turn \in {o, NoOp} /\ Executing(o, op[o])
        /\ DOMAIN op[o] = Fields
    BY ExecutingAt DEF NextUnload
  <1>2. UNCHANGED <<plug, inst, st, closing, asked, call>>
    BY Zenon DEF NextUnload, recVars, callVars
  <1>3. /\ x.at = "next" /\ x.kind = op[o].kind
        /\ y.at = "unload" /\ y.kind = op[o].kind /\ y.id = p
    BY <1>0, <1>1 DEF Fields
  <1>4. op[o].kind \in Repeated
    BY <1>1 DEF Executing, Rounds
  <1>5. Executing(o, x)' /\ Executing(o, y)'
    BY <1>1, <1>2, <1>3, <1>4 DEF Executing, Rounds, Taking
  <1>6. ~Takes(op[o]) /\ Steady
    BY <1>1, <1>2, SteadySame DEF Takes
  <1>7. ASSUME Runs(o, x), deferred' = Dropped(p), ~Contains(deferred, p) \/ inst[p] = 0
        PROVE  QueueInv'
    <2>1. Becomes(o, x) /\ ~Unloading(o)
      BY <1>6, <1>7, RunsTo, UnloadingIs DEF Typed
    <2>2. ASSUME NEW r \in asked
          PROVE  /\ Contains(deferred, plug[r]) => NotLost(r)'
                 /\ inst[plug[r]] # r \/ st[r] = "faulted" => NotLost(r)'
      <3>1. r \in 1 .. born /\ r # 0
        BY DEF Typed, Ground
      <3>2. ASSUME Contains(deferred, plug[r]), plug[r] # p
            PROVE  Contains(deferred', plug'[r])
        BY <1>2, <1>7, <3>2, DroppedHas DEF Typed
      <3>3. CASE plug[r] = p /\ inst[p] = 0
        BY <1>2, <3>1, <3>3 DEF NotLost
      <3> QED
        BY <1>2, <1>7, <3>2, <3>3 DEF NotLost
    <2> QED
      BY <1>1, <1>2, <1>5, <2>1, <2>2, QueueStep
  <1>8. ASSUME Runs(o, y), deferred' = deferred
        PROVE  QueueInv'
    <2>1. Becomes(o, y)
      BY <1>8, RunsTo DEF Typed
    <2> QED
      BY <1>1, <1>2, <1>5, <1>6, <1>8, <2>1, GoesOn
  <1>9. \/ Runs(o, x) /\ deferred' = Dropped(p) /\ (~Contains(deferred, p) \/ inst[p] = 0)
        \/ Runs(o, y) /\ deferred' = deferred
    BY <1>0 DEF NextUnload, Copied
  <1> QED
    BY <1>7, <1>8, <1>9

LEMMA DestroyEndsQueue ==
    ASSUME Typed, LifeInv, QueueInv, NEW o \in Op, DestroyEnds(o)
    PROVE  QueueInv'
  <1>0. PICK x, q, y : /\ x = op[o] /\ q = x.rec
                       /\ y = [op[o] EXCEPT !.at = op[o].back, !.back = "rest", !.rec = 0]
    OBVIOUS
  <1>1. /\ x.at = "destroy" /\ turn \in {o, NoOp} /\ Executing(o, x)
        /\ DOMAIN x = Fields /\ x.back \in Backs
    BY <1>0, ExecutingAt DEF DestroyEnds, Sorted
  <1>2. /\ st' = [st EXCEPT ![q] = "destroyed"] /\ inst' = [inst EXCEPT ![plug[q]] = 0]
        /\ deferred' = Dropped(plug[q]) /\ Runs(o, y)
        /\ UNCHANGED <<plug, closing, asked, call>>
    BY <1>0, Zenon DEF DestroyEnds, callVars
  <1>3. Becomes(o, y) /\ turn' = o
    BY <1>2, RunsTo DEF Typed
  <1>4. y.at = x.back /\ y.kind = x.kind /\ y.id = x.id /\ y.status = x.status
    BY <1>0, <1>1 DEF Fields
  <1>5. q \in 1 .. born /\ plug[q] \in PlugId
    BY <1>0, <1>1, RecIs DEF WithRec, Callbacks, Typed, Ground
  <1>6. /\ inst'[plug[q]] = 0 /\ \A p \in PlugId : p # plug[q] => inst'[p] = inst[p]
        /\ \A r : r # q => st'[r] = st[r]
    BY <1>2, <1>5 DEF Typed, Ground
  <1>7. Executing(o, y)'
    <2>1. x.back = "unloaded" => plug[q] = x.id /\ x.status = "ok"
      BY <1>0, <1>1 DEF Executing
    <2>2. y.at \in Backs
      BY <1>1, <1>4
    <2> QED
      BY <1>1, <1>2, <1>3, <1>4, <1>6, <2>1, <2>2 DEF Executing, Backs, Rounds, Taking
  <1>8. ASSUME NEW r \in asked
        PROVE  /\ Contains(deferred, plug[r]) => NotLost(r)'
               /\ inst[plug[r]] # r \/ st[r] = "faulted" => NotLost(r)'
               /\ Unloading(o) /\ op[o].id = plug[r] => NotLost(r)'
    <2>1. r \in 1 .. born /\ r # 0 /\ plug[r] \in PlugId
      BY DEF Typed, Ground
    <2>2. CASE plug[r] = plug[q]
      BY <1>2, <1>6, <2>1, <2>2 DEF NotLost
    <2>3. CASE plug[r] # plug[q]
      <3>1. Contains(deferred, plug[r]) => Contains(deferred', plug'[r])
        BY <1>2, <2>3, DroppedHas DEF Typed
      <3>2. inst'[plug'[r]] = inst[plug[r]] /\ st'[r] = st[r]
        BY <1>2, <1>6, <2>1, <2>3
      <3>3. ~(Unloading(o) /\ op[o].id = plug[r])
        BY <1>0, <1>1, <2>3, UnloadingIs DEF Takes, Executing
      <3> QED
        BY <3>1, <3>2, <3>3 DEF NotLost
    <2> QED
      BY <2>2, <2>3
  <1> QED
    BY <1>0, <1>1, <1>2, <1>3, <1>7, <1>8, QueueStep

LEMMA UnloadEntryQueue ==
    ASSUME Typed, LifeInv, QueueInv, NEW o \in Op, UnloadEntry(o)
    PROVE  QueueInv'
  <1>0. PICK p, r, x, y : /\ p = op[o].id /\ r = inst[p]
                          /\ x = [op[o] EXCEPT !.status = "ok", !.back = "unloaded"]
                          /\ y = [op[o] EXCEPT !.at = "unloaded", !.status = "failed"]
    OBVIOUS
  <1>1. /\ op[o].at = "unload" /\ turn \in {o, NoOp} /\ Executing(o, op[o])
        /\ DOMAIN op[o] = Fields /\ p \in PlugId
    BY <1>0, ExecutingAt DEF UnloadEntry, Placed, WithId
  <1>2. UNCHANGED <<plug, inst, closing, asked, call>> /\ deferred' = Dropped(p)
    BY <1>0, Zenon DEF UnloadEntry, callVars
  <1>3. \A q : Contains(deferred, q) => Contains(deferred', q) \/ q = p
    BY <1>2, DroppedHas DEF Typed
  <1>4. /\ y.at = "unloaded" /\ y.kind = op[o].kind /\ y.id = p /\ y.status = "failed"
        /\ DOMAIN x = Fields /\ x.kind = op[o].kind /\ x.id = p /\ x.status = "ok" /\ x.back = "unloaded"
    BY <1>0, <1>1 DEF Fields
  <1>5. ASSUME Runs(o, y), r = 0 \/ st[r] = "faulted", st' = st
        PROVE  QueueInv'
    <2>1. Becomes(o, y) /\ turn' = o
      BY <1>5, RunsTo DEF Typed
    <2>2. Executing(o, y)'
      BY <1>0, <1>1, <1>2, <1>4, <1>5, <2>1 DEF Executing, Rounds, Taking
    <2>3. Takes(y) /\ y.id = op[o].id
      BY <1>0, <1>4 DEF Takes
    <2> QED
      BY <1>0, <1>1, <1>2, <1>3, <1>5, <2>1, <2>2, <2>3, SteadySame, GoesOn
  <1>6. ASSUME r # 0, NEW l \in {"destroy", "withdraw"}, Awaits(o, x, l, r), Steady
        PROVE  QueueInv'
    <2>1. PICK z : /\ Becomes(o, z) /\ z.at = l /\ z.rec = r /\ z.kind = x.kind
                   /\ z.id = x.id /\ z.status = x.status /\ z.back = x.back
      BY <1>4, <1>6, AwaitsWhole DEF Typed
    <2>2. plug[r] = p
      BY <1>0, <1>1, <1>6 DEF Typed, Ground
    <2>3. Executing(o, z)'
      BY <1>1, <1>2, <1>4, <1>6, <2>1, <2>2 DEF Executing, Rounds, Taking
    <2>4. Takes(z) /\ z.id = op[o].id
      BY <1>0, <1>4, <2>1 DEF Takes
    <2> QED
      BY <1>0, <1>1, <1>2, <1>3, <1>6, <2>1, <2>3, <2>4, GoesOn
  <1>7. CASE r # 0 /\ Awaits(o, x, "destroy", r) /\ st' = st
    BY <1>2, <1>6, <1>7, SteadySame
  <1>8. CASE r # 0 /\ Awaits(o, x, "withdraw", r) /\ st[r] # "faulted" /\ st' = [st EXCEPT ![r] = "revoking"]
    <2>1. r \in 1 .. born
      BY <1>0, <1>1, <1>8 DEF Typed, Ground
    <2>2. Steady
      BY <1>2, <1>8, <2>1, SteadySet DEF Typed
    <2> QED
      BY <1>6, <1>8, <2>2
  <1>9. \/ Runs(o, y) /\ (r = 0 \/ st[r] = "faulted") /\ st' = st
        \/ r # 0 /\ Awaits(o, x, "destroy", r) /\ st' = st
        \/ r # 0 /\ Awaits(o, x, "withdraw", r) /\ st[r] # "faulted" /\ st' = [st EXCEPT ![r] = "revoking"]
    BY <1>0 DEF UnloadEntry
  <1> QED
    BY <1>5, <1>7, <1>8, <1>9

\* An unload that goes on, having isolated its record.
LEMMA TakenIs ==
    ASSUME Typed, LifeInv, QueueInv, NEW o \in Op, NEW l \in Taking, At(o, l)
    PROVE  /\ op[o].at = l /\ turn \in {o, NoOp} /\ Executing(o, op[o])
           /\ DOMAIN op[o] = Fields /\ op[o].back = "unloaded" /\ op[o].status \in {"ok", "failed"}
           /\ op[o].rec \in 1 .. born /\ plug[op[o].rec] = op[o].id
           /\ st[op[o].rec] = "revoking" /\ inst[op[o].id] = op[o].rec /\ Takes(op[o])
  <1>1. /\ op[o].at = l /\ turn \in {o, NoOp} /\ Executing(o, op[o])
        /\ DOMAIN op[o] = Fields /\ Sorted(op[o], born) /\ Placed(op[o])
    BY ExecutingAt
  <1>2. op[o].back = "unloaded" /\ op[o].status \in {"ok", "failed"} /\ plug[op[o].rec] = op[o].id
    BY <1>1 DEF Placed, Taking, Sorted, Executing
  <1>3. op[o].rec \in 1 .. born
    BY <1>1, RecIs DEF WithRec, Callbacks, Taking
  <1>4. st[op[o].rec] = "revoking" /\ inst[plug[op[o].rec]] = op[o].rec
    BY <1>1 DEF LifeInv, Pool, RecOK, Has, Taking
  <1> QED
    BY <1>1, <1>2, <1>3, <1>4 DEF Takes, Taking

\* It goes on to another callback,
LEMMA TakenOn ==
    ASSUME Typed, LifeInv, QueueInv, NEW o \in Op, NEW l \in Taking, At(o, l),
           NEW m \in {"revoke", "stop", "destroy"}, Awaits(o, op[o], m, op[o].rec),
           m \in {"revoke"} => l = "withdraw", m \in {"destroy"} => op[o].status = "ok",
           UNCHANGED <<plug, inst, st, closing, asked, call, deferred>>
    PROVE  QueueInv'
  <1>0. PICK x : x = op[o]
    OBVIOUS
  <1>1. /\ x.at = l /\ turn \in {o, NoOp} /\ Executing(o, x) /\ DOMAIN x = Fields
        /\ x.back = "unloaded" /\ x.status \in {"ok", "failed"} /\ plug[x.rec] = x.id
    BY <1>0, TakenIs
  <1>2. PICK z : /\ Becomes(o, z) /\ z.at = m /\ z.rec = x.rec /\ z.kind = x.kind
                 /\ z.id = x.id /\ z.status = x.status /\ z.back = x.back
    BY <1>0, <1>1, AwaitsWhole DEF Typed
  <1>3. Executing(o, z)'
    BY <1>0, <1>1, <1>2 DEF Executing, Rounds, Taking
  <1>4. Takes(z) /\ z.id = op[o].id
    BY <1>0, <1>1, <1>2 DEF Takes
  <1> QED
    BY <1>1, <1>2, <1>3, <1>4, SteadySame, GoesOn

\* or it ends, and the record is quarantined or has a call in flight.
LEMMA TakenOff ==
    ASSUME Typed, LifeInv, QueueInv, NEW o \in Op, NEW l \in Taking, At(o, l),
           NEW y, Runs(o, y), y.at = "unloaded", y.id = op[o].id, y.kind = op[o].kind,
           \/ y.status = "failed" /\ st' = [st EXCEPT ![op[o].rec] = "faulted"]
           \/ y.status = "busy" /\ y.kind \in Repeated /\ st' = st,
           UNCHANGED <<plug, inst, closing, asked, call, deferred>>
    PROVE  QueueInv'
  <1>0. PICK x, q : x = op[o] /\ q = x.rec
    OBVIOUS
  <1>1. /\ x.at = l /\ turn \in {o, NoOp} /\ Executing(o, x) /\ q \in 1 .. born
        /\ st[q] = "revoking" /\ inst[x.id] = q
    BY <1>0, TakenIs
  <1>2. Becomes(o, y) /\ turn' = o
    BY RunsTo DEF Typed
  <1>3. Steady /\ (y.status = "failed" => st'[q] = "faulted")
    <2>1. q \in Rec
      BY <1>1, RecordRange DEF Typed
    <2>2. CASE st' = [st EXCEPT ![q] = "faulted"]
      <3>1. Steady
        BY <1>1, <2>2, SteadySet DEF Typed
      <3>2. st'[q] = "faulted"
        BY <2>1, <2>2 DEF Typed, Ground
      <3> QED
        BY <3>1, <3>2
    <2>3. CASE y.status = "busy" /\ st' = st
      BY <2>3, SteadySame
    <2> QED
      BY <1>0, <2>2, <2>3
  <1>4. Executing(o, y)'
    BY <1>0, <1>1, <1>2, <1>3 DEF Executing, Rounds, Taking
  <1>5. Takes(y) /\ y.id = op[o].id
    BY DEF Takes
  <1> QED
    BY <1>1, <1>2, <1>3, <1>4, <1>5, GoesOn

LEMMA TakingQueue ==
    ASSUME Typed, LifeInv, QueueInv, NEW o \in Op, WithdrawEnds(o) \/ RevokeEnds(o) \/ StopEnds(o)
    PROVE  QueueInv'
  <1>1. UNCHANGED <<plug, inst, closing, asked, call, deferred>>
    BY Zenon DEF WithdrawEnds, RevokeEnds, StopEnds, recVars, callVars
  <1>2. CASE WithdrawEnds(o)
    <2>1. At(o, "withdraw") /\ Awaits(o, op[o], "revoke", op[o].rec) /\ st' = st
      BY <1>2, Zenon DEF WithdrawEnds, recVars
    <2>2. "withdraw" \in Taking
      BY DEF Taking
    <2> QED
      BY <1>1, <2>1, <2>2, TakenOn
  <1>3. CASE RevokeEnds(o)
    <2>0. PICK y, z : /\ y = [op[o] EXCEPT !.at = "unloaded"]
                      /\ z = [op[o] EXCEPT !.at = "unloaded", !.status = "busy"]
      OBVIOUS
    <2>1. /\ At(o, "revoke") /\ "revoke" \in Taking /\ op[o].at = "revoke" /\ DOMAIN op[o] = Fields
          /\ Executing(o, op[o]) /\ op[o].rec \in 1 .. born
      BY <1>3, TakenIs DEF RevokeEnds, Taking
    <2>2. /\ y.at = "unloaded" /\ y.id = op[o].id /\ y.kind = op[o].kind /\ y.status = op[o].status
          /\ z.at = "unloaded" /\ z.id = op[o].id /\ z.kind = op[o].kind /\ z.status = "busy"
      BY <2>0, <2>1 DEF Fields
    <2>3. CASE Runs(o, y) /\ op[o].status = "failed" /\ st' = [st EXCEPT ![op[o].rec] = "faulted"]
      BY <1>1, <2>1, <2>2, <2>3, TakenOff
    <2>4. CASE Runs(o, z) /\ inFlight[op[o].rec] > 0 /\ st' = st
      <3>1. \E k \in Call : call[k] = op[o].rec
        <4>1. op[o].rec \in Rec
          BY <2>1, RecordRange DEF Typed
        <4> QED
          BY <2>4, <4>1 DEF Typed, Calls
      <3>2. op[o].kind \in Repeated
        BY <2>1, <3>1 DEF Executing
      <3> QED
        BY <1>1, <2>1, <2>2, <2>4, <3>2, TakenOff
    <2>5. CASE Awaits(o, op[o], "stop", op[o].rec) /\ st' = st
      BY <1>1, <2>1, <2>5, TakenOn
    <2>6. \/ Runs(o, y) /\ op[o].status = "failed" /\ st' = [st EXCEPT ![op[o].rec] = "faulted"]
          \/ Runs(o, z) /\ inFlight[op[o].rec] > 0 /\ st' = st
          \/ Awaits(o, op[o], "stop", op[o].rec) /\ st' = st
      BY <1>3, <2>0, Zenon DEF RevokeEnds, GoOn
    <2> QED
      BY <2>3, <2>4, <2>5, <2>6
  <1>4. CASE StopEnds(o)
    <2>0. PICK y : y = [op[o] EXCEPT !.at = "unloaded"]
      OBVIOUS
    <2>1. /\ At(o, "stop") /\ "stop" \in Taking /\ op[o].at = "stop" /\ DOMAIN op[o] = Fields
          /\ op[o].status \in {"ok", "failed"}
      BY <1>4, TakenIs DEF StopEnds, Taking
    <2>2. /\ y.at = "unloaded" /\ y.id = op[o].id /\ y.kind = op[o].kind /\ y.status = op[o].status
      BY <2>0, <2>1 DEF Fields
    <2>3. CASE op[o].status = "ok"
      <3>1. Awaits(o, op[o], "destroy", op[o].rec) /\ st' = st
        BY <1>4, <2>3 DEF StopEnds
      <3> QED
        BY <1>1, <2>1, <2>3, <3>1, TakenOn
    <2>4. CASE op[o].status # "ok"
      <3>1. Runs(o, y) /\ st' = [st EXCEPT ![op[o].rec] = "faulted"]
        BY <1>4, <2>0, <2>4 DEF StopEnds, GoOn
      <3> QED
        BY <1>1, <2>1, <2>2, <2>4, <3>1, TakenOff
    <2> QED
      BY <2>3, <2>4
  <1> QED
    BY <1>2, <1>3, <1>4

LEMMA UnloadedQueue ==
    ASSUME Typed, QueueInv, NEW o \in Op, Unloaded(o)
    PROVE  QueueInv'
  <1>0. PICK x, p : x = op[o] /\ p = x.id
    OBVIOUS
  <1>1. /\ x.at = "unloaded" /\ turn \in {o, NoOp} /\ Executing(o, x)
        /\ DOMAIN x = Fields /\ Sorted(x, born) /\ p \in PlugId
    BY <1>0, ExecutingAt DEF Unloaded, Placed, WithId
  <1>2. UNCHANGED <<plug, inst, st, closing, asked, call>>
    BY Zenon DEF Unloaded, recVars, callVars
  <1>3. x.status = "busy" \/ inst[p] = 0 \/ st[inst[p]] = "faulted"
    BY <1>0, <1>1 DEF Sorted, Executing
  <1>4. x.status = "busy" => x.kind \in Repeated
    BY <1>1 DEF Executing
  <1>5. ASSUME NEW y, Becomes(o, y), Executing(o, y)',
               \A q : Contains(deferred, q) => Contains(deferred', q) \/ (q = p /\ x.status # "busy"),
               closing \/ x.status # "busy" \/ Contains(deferred', p)
        PROVE  QueueInv'
    <2>1. ASSUME NEW r \in asked
          PROVE  /\ Contains(deferred, plug[r]) => NotLost(r)'
                 /\ inst[plug[r]] # r \/ st[r] = "faulted" => NotLost(r)'
                 /\ Unloading(o) /\ op[o].id = plug[r] => NotLost(r)'
      <3>1. r \in 1 .. born /\ r # 0
        BY DEF Typed, Ground
      <3>2. inst[plug[r]] # r \/ st[r] = "faulted" => NotLost(r)'
        BY <1>2 DEF NotLost
      <3>3. CASE plug[r] = p /\ x.status # "busy"
        BY <1>3, <3>1, <3>2, <3>3
      <3>4. CASE plug[r] = p /\ x.status = "busy"
        BY <1>2, <1>5, <3>4 DEF NotLost
      <3>5. CASE plug[r] # p
        BY <1>0, <1>2, <1>5, <3>2, <3>5 DEF NotLost
      <3> QED
        BY <3>3, <3>4, <3>5
    <2> QED
      BY <1>1, <1>2, <1>5, <2>1, QueueStep
  <1>6. CASE Over(o) /\ deferred' = deferred /\ x.kind \in {"unload", "reload"}
    <2>1. Becomes(o, Resting)
      BY <1>6, OverTo DEF Typed
    <2>2. Executing(o, Resting)'
      BY DEF Executing, Resting, Rounds, Taking
    <2>3. x.status # "busy"
      BY <1>4, <1>6 DEF Repeated
    <2> QED
      BY <1>5, <1>6, <2>1, <2>2, <2>3
  <1>7. CASE GoOn(o, "capture") /\ deferred' = deferred /\ x.kind = "reload"
    <2>1. PICK y : y = [op[o] EXCEPT !.at = "capture"]
      OBVIOUS
    <2>2. Becomes(o, y) /\ y.at = "capture" /\ y.kind = x.kind
      BY <1>0, <1>1, <1>7, <2>1, RunsTo DEF GoOn, Fields, Typed
    <2>3. Executing(o, y)'
      BY <1>7, <2>2 DEF Executing, Rounds, Taking
    <2>4. x.status # "busy"
      BY <1>4, <1>7 DEF Repeated
    <2> QED
      BY <1>5, <1>7, <2>2, <2>3, <2>4
  <1>8. ASSUME GoOn(o, "next"), x.kind \in Repeated,
               \/ x.kind = "shutdown" /\ deferred' = deferred
               \/ x.kind = "poll" /\ deferred' = IF x.status = "ok" THEN deferred ELSE Kept(p, x.status)
        PROVE  QueueInv'
    <2>1. PICK y : y = [op[o] EXCEPT !.at = "next"]
      OBVIOUS
    <2>2. Becomes(o, y) /\ y.at = "next" /\ y.kind = x.kind
      BY <1>0, <1>1, <1>8, <2>1, RunsTo DEF GoOn, Fields, Typed
    <2>3. Executing(o, y)'
      BY <1>1, <1>2, <1>8, <2>2 DEF Executing, Rounds, Taking
    <2>4. CASE deferred' = deferred /\ (x.kind = "shutdown" \/ x.status = "ok")
      <3>1. closing \/ x.status # "busy"
        BY <1>1, <2>4 DEF Executing
      <3> QED
        BY <1>5, <2>2, <2>3, <2>4, <3>1
    <2>5. CASE x.status = "busy" /\ deferred' = Queued(p)
      <3>1. Contains(deferred', p) /\ \A q : Contains(deferred, q) => Contains(deferred', q)
        BY <1>1, <2>5, QueuedHas DEF Typed
      <3> QED
        BY <1>5, <2>2, <2>3, <3>1
    <2>6. CASE x.status = "failed" /\ deferred' = Dropped(p)
      <3>1. \A q : Contains(deferred, q) => Contains(deferred', q) \/ q = p
        BY <2>6, DroppedHas DEF Typed
      <3> QED
        BY <1>5, <2>2, <2>3, <2>6, <3>1
    <2> QED
      BY <1>1, <1>8, <2>4, <2>5, <2>6 DEF Kept, Sorted
  <1>9. \/ Over(o) /\ deferred' = deferred /\ x.kind \in {"unload", "reload"}
        \/ GoOn(o, "capture") /\ deferred' = deferred /\ x.kind = "reload"
        \/ /\ GoOn(o, "next") /\ x.kind \in Repeated
           /\ \/ x.kind = "shutdown" /\ deferred' = deferred
              \/ x.kind = "poll" /\ deferred' = IF x.status = "ok" THEN deferred ELSE Kept(p, x.status)
    BY <1>0 DEF Unloaded, NoFailure, Repeated
  <1> QED
    BY <1>6, <1>7, <1>8, <1>9

LEMMA StepQueue ==
    ASSUME Typed, LifeInv, QueueInv, NEW o \in Op, Step(o)
    PROVE  QueueInv'
  <1>1. CASE Importing(o) \/ Starting(o) \/ (RollingBack(o) /\ ~DestroyEnds(o))
    BY <1>1, AsideQueue
  <1>2. CASE DestroyEnds(o)
    BY <1>2, DestroyEndsQueue
  <1>3. CASE TakingDown(o)
    BY <1>3, UnloadEntryQueue, TakingQueue, UnloadedQueue, PollDrainedQueue, NextUnloadQueue,
       NoMoreUnloadsQueue, PollEndsQueue DEF TakingDown
  <1>4. ASSUME NEW ok \in BOOLEAN, CallbackReturns(o, ok)
        PROVE  QueueInv'
    BY <1>4, ReturnsQueue
  <1> QED
    BY <1>1, <1>2, <1>3, <1>4, Zenon DEF Step, Importing, Starting, RollingBack, TakingDown

\* At depth zero no call is on the stack.
LEMMA NoCalls ==
    ASSUME Typed, depth = 0
    PROVE  \A k \in Call : call[k] = 0
  <1>1. Cardinality(Calling) = 0
    BY Counted DEF Typed, BatchInv, DepthInv, DepthBalanced, Inside, Calling
  <1>2. Calling = {}
    BY <1>1, Counted, FS_EmptySet
  <1> QED
    BY <1>2 DEF Calling

LEMMA BeginsQueue ==
    ASSUME NEW o \in Op, NEW kind, NEW at, NEW id, NEW ids,
           Typed, QueueInv, Begins(o, kind, at, id, ids),
           at \in {"files", "enter", "capture", "unload"}, kind # "shutdown",
           at = "unload" => depth = 0,
           UNCHANGED <<plug, inst, st, closing, asked, call, deferred>>
    PROVE  QueueInv'
  <1>1. PICK y : y = [Resting EXCEPT !.kind = kind, !.at = at, !.id = id, !.ids = ids]
    OBVIOUS
  <1>2. op[o] = Resting /\ turn = NoOp /\ Runs(o, y)
    BY <1>1 DEF Begins, LoopFree
  <1>3. y.at = at /\ y.kind = kind
    BY <1>1 DEF Resting
  <1>4. Becomes(o, y) /\ turn' = o
    BY <1>2, RunsTo DEF Typed
  <1>5. Executing(o, y)'
    BY <1>3, <1>4, NoCalls DEF Executing, Rounds, Taking
  <1>6. ~Takes(op[o])
    BY <1>2 DEF Takes, Resting
  <1> QED
    BY <1>2, <1>4, <1>5, <1>6, SteadySame, GoesOn

LEMMA PollQueue ==
    ASSUME Typed, QueueInv, NEW o \in Op, Poll(o)
    PROVE  QueueInv'
  <1>1. /\ op[o] = Resting /\ turn = NoOp
        /\ UNCHANGED <<plug, inst, st, closing, asked, call, deferred>>
    BY Zenon DEF Poll, LoopFree, recVars, callVars
  <1>2. PICK x : x = [Resting EXCEPT !.kind = "poll"]
    OBVIOUS
  <1>3. DOMAIN x = Fields /\ x.kind = "poll"
    BY <1>2 DEF Resting, Fields
  <1>4. Awaits(o, x, "polldrain", 0)
    BY <1>2 DEF Poll
  <1>5. PICK y : Becomes(o, y) /\ y.at = "polldrain" /\ y.kind = "poll"
    BY <1>3, <1>4, AwaitsWhole DEF Typed
  <1>6. Executing(o, y)'
    BY <1>5 DEF Executing, Rounds, Taking, Repeated
  <1>7. ~Takes(op[o])
    BY <1>1 DEF Takes, Resting
  <1> QED
    BY <1>1, <1>5, <1>6, <1>7, SteadySame, GoesOn

\* shutdown() gives up the requests that wait.
LEMMA ShutdownQueue ==
    ASSUME Typed, QueueInv, NEW o \in Op, Shutdown(o)
    PROVE  QueueInv'
  <1>1. closing' = TRUE /\ UNCHANGED <<plug, asked, call>>
    BY Zenon DEF Shutdown, recVars, callVars
  <1>2. PICK ids : Begins(o, "shutdown", "next", NoPlug, ids)
    BY Zenon DEF Shutdown
  <1>3. PICK y : y = [Resting EXCEPT !.kind = "shutdown", !.at = "next", !.id = NoPlug, !.ids = ids]
    OBVIOUS
  <1>4. op[o] = Resting /\ turn = NoOp /\ Runs(o, y)
    BY <1>2, <1>3 DEF Begins, LoopFree
  <1>5. y.at = "next" /\ y.kind = "shutdown"
    BY <1>3 DEF Resting
  <1>6. Becomes(o, y)
    BY <1>4, RunsTo DEF Typed
  <1>7. Executing(o, y)'
    BY <1>1, <1>5 DEF Executing, Rounds, Taking, Repeated
  <1>8. \A r \in asked : NotLost(r)'
    BY <1>1 DEF NotLost
  <1> QED
    BY <1>1, <1>4, <1>6, <1>7, <1>8, QueueStep

LEMMA AsksQueue ==
    ASSUME Typed, QueueInv, NEW o \in Op, Asks(o)
    PROVE  QueueInv'
  <1>1. CASE Boot(o) \/ Start(o) \/ \E p \in PlugId : Load(o, p) \/ Unload(o, p) \/ Reload(o, p)
    <2>1. UNCHANGED <<plug, inst, st, closing, asked, call, deferred>>
      BY <1>1, Zenon DEF Boot, Start, Load, Unload, Reload, recVars, hostVars, callVars
    <2>2. \E kind, at, id, ids :
             /\ Begins(o, kind, at, id, ids) /\ at \in {"files", "enter", "capture", "unload"}
             /\ kind # "shutdown" /\ (at = "unload" => depth = 0)
      BY <1>1 DEF Boot, Start, Load, Unload, Reload, EntryOpen
    <2> QED
      BY <2>1, <2>2, BeginsQueue
  <1>2. CASE Poll(o)
    BY <1>2, PollQueue
  <1>3. CASE Shutdown(o)
    BY <1>3, ShutdownQueue
  <1> QED
    BY <1>1, <1>2, <1>3 DEF Asks

\* What no operation has a part in.
LEMMA ElsewhereQueue ==
    ASSUME Typed, LifeInv, QueueInv, UNCHANGED <<op, turn, plug, inst, st, closing>>,
           \A q : Contains(deferred, q) => Contains(deferred', q),
           \A r \in asked' : r \in asked \/ Contains(deferred', plug[r]),
           turn = NoOp \/ call' = call,
           \A k \in Call : call'[k] \in {call[k], 0} \/ st[call'[k]] = "active"
    PROVE  QueueInv'
  <1>1. ASSUME NEW r \in asked'
        PROVE  NotLost(r)'
    <2>1. CASE Contains(deferred', plug[r])
      BY <2>1 DEF NotLost
    <2>2. CASE r \in asked
      BY <2>2 DEF QueueInv, NotLost, Unloading
    <2> QED
      BY <2>1, <2>2
  <1>2. ASSUME NEW o \in Op
        PROVE  Executing(o, op[o])'
    <2>1. PICK x : x = op[o]
      OBVIOUS
    <2>2. Executing(o, x) /\ turn = o => turn # NoOp
      BY <2>1, RackHostAssumption DEF QueueInv
    <2>3. x.at \in {"withdraw", "revoke"} => x.rec # 0 /\ st[x.rec] = "revoking"
      <3>1. x.at \in {"withdraw", "revoke"} => x.rec \in 1 .. born
        BY <2>1, RecIs DEF WithRec, Callbacks
      <3>2. x.at \in {"withdraw", "revoke"} => st[x.rec] = "revoking"
        BY <2>1 DEF LifeInv, Pool, RecOK, Has
      <3> QED
        BY <3>1, <3>2
    <2>4. x.at \in {"withdraw", "revoke"} /\ x.kind \notin Repeated => \A k \in Call : call'[k] # x.rec
      BY <2>1, <2>3 DEF QueueInv, Executing
    <2>5. x.at = "unload" /\ x.kind \notin Repeated => turn = o /\ \A k \in Call : call'[k] = 0
      BY <2>1, <2>2 DEF QueueInv, Executing
    <2>6. Executing(o, x)
      BY <2>1 DEF QueueInv
    <2>7. Executing(o, x)'
      BY <2>4, <2>5, <2>6 DEF Executing
    <2> QED
      BY <2>1, <2>7
  <1> QED
    BY <1>1, <1>2 DEF QueueInv

LEMMA OthersQueue ==
    ASSUME Typed, LifeInv, QueueInv,
           \/ \E p \in PlugId : Add(p) \/ DeferUnload(p)
           \/ \E k \in Call : CallEnds(k) \/ \E c \in 1 .. born, p \in PlugId : CallBegins(k, c, p)
           \/ UNCHANGED vars
    PROVE  QueueInv'
  <1>1. ASSUME NEW p \in PlugId, Add(p)
        PROVE  QueueInv'
    <2>1. UNCHANGED <<op, turn, plug, inst, st, closing, deferred, asked, call>>
      BY <1>1, Zenon DEF Add, recVars, callVars
    <2> QED
      BY <2>1, ElsewhereQueue
  <1>2. ASSUME NEW p \in PlugId, DeferUnload(p)
        PROVE  QueueInv'
    <2>1. PICK r : r = inst[p]
      OBVIOUS
    <2>2. /\ UNCHANGED <<op, turn, plug, inst, st, closing, call>>
          /\ deferred' = Queued(p) /\ asked' = asked \cup {r} /\ r # 0
      BY <1>2, <2>1, Zenon DEF DeferUnload, recVars, callVars
    <2>3. plug[r] = p
      BY <2>1, <2>2 DEF Typed, Ground
    <2>4. Contains(deferred', plug[r]) /\ \A q : Contains(deferred, q) => Contains(deferred', q)
      BY <2>2, <2>3, QueuedHas DEF Typed
    <2> QED
      BY <2>2, <2>4, ElsewhereQueue
  <1>3. ASSUME NEW k \in Call, CallEnds(k)
        PROVE  QueueInv'
    <2>1. /\ UNCHANGED <<op, turn, plug, inst, st, closing, deferred, asked>> /\ turn = NoOp
          /\ call' = [call EXCEPT ![k] = 0]
      BY <1>3, Zenon DEF CallEnds, LoopFree
    <2>2. \A l \in Call : call'[l] \in {call[l], 0}
      BY <2>1 DEF Typed, Calls
    <2> QED
      BY <2>1, <2>2, ElsewhereQueue
  <1>4. ASSUME NEW k \in Call, NEW c \in 1 .. born, NEW p \in PlugId, CallBegins(k, c, p)
        PROVE  QueueInv'
    <2>1. PICK r : r = inst[p]
      OBVIOUS
    <2>2. /\ UNCHANGED <<op, turn, plug, inst, st, closing, deferred, asked>> /\ turn = NoOp
          /\ call' = [call EXCEPT ![k] = r] /\ st[r] = "active"
      BY <1>4, <2>1, Zenon DEF CallBegins, LoopFree
    <2>3. \A l \in Call : call'[l] = call[l] \/ st[call'[l]] = "active"
      BY <2>2 DEF Typed, Calls
    <2> QED
      BY <2>2, <2>3, ElsewhereQueue
  <1>5. CASE UNCHANGED vars
    <2>1. UNCHANGED <<op, turn, plug, inst, st, closing, deferred, asked, call>>
      BY <1>5, Zenon DEF vars, recVars, hostVars, callVars
    <2> QED
      BY <2>1, ElsewhereQueue
  <1> QED
    BY <1>1, <1>2, <1>3, <1>4, <1>5

LEMMA InitQueue == Init => QueueInv
  <1> SUFFICES ASSUME Init
               PROVE  QueueInv
    OBVIOUS
  <1>1. asked = {} /\ \A o \in Op : op[o] = Resting
    BY DEF Init
  <1>2. \A o \in Op : Executing(o, Resting)
    BY DEF Executing, Resting, Rounds, Taking
  <1> QED
    BY <1>1, <1>2 DEF QueueInv

LEMMA NextQueue ==
    ASSUME Typed, LifeInv, QueueInv, [Next]_vars
    PROVE  QueueInv'
  <1>1. ASSUME NEW o \in Op, Asks(o) \/ Step(o)
        PROVE  QueueInv'
    BY <1>1, AsksQueue, StepQueue
  <1> QED
    BY <1>1, OthersQueue, Zenon DEF Next

\* unload(): "the request is queued ... poll() executes the queued requests".  An
\* accepted unload waits in deferredUnloads, or is being executed, until its record has
\* left the rack or is quarantined: no poll() that overlaps others, no callback that
\* throws and no lease that stays busy makes the host forget it.
THEOREM AcceptedUnloadsStay ==
    ASSUME Sheltered
    PROVE  Spec => []DeferredNotLost
  <1>1. Typed /\ LifeInv /\ QueueInv /\ [Next]_vars => QueueInv'
    BY NextQueue
  <1>2. QueueInv => DeferredNotLost
    BY DEF QueueInv, NotLost, DeferredNotLost
  <1>3. Spec => []LifeInv
    BY LifeHolds
  <1> QED
    BY <1>1, <1>2, <1>3, InitQueue, TypedHolds, PTL DEF Spec

-----------------------------------------------------------------------------
(* Shutdown                                                                *)

\* No two operations overlap.
Serial == \A o, b \in Op : o = b

Stuck(p) == inst[p] # 0 => st[inst[p]] \in {"faulted", "revoking"}

\* shutdown() has p before it, or is at an unload of p that has not isolated it.
ToGo(x, p) ==
    /\ x.kind = "shutdown"
    /\ \/ \E i \in 1 .. Len(x.ids) : x.ids[i] = p
       \/ x.id = p /\ x.at \in {"unload", "destroy"}

\* The operations there may be once shutdown() has begun: it, and polls of nothing.
ShutOp(x) ==
    \/ x.kind = "none" /\ x.at = "rest"
    \/ x.kind = "poll" /\ x.at \in Rounds /\ x.ids = <<>>
    \/ /\ x.kind = "shutdown" /\ x.at \in {"next", "unload", "destroy", "unloaded"} \cup Taking
       /\ x.at = "destroy" => x.back = "unloaded"
       /\ x.at \in Taking \cup {"destroy"} => plug[x.rec] = x.id

ShutInv ==
    closing =>
        /\ deferred = <<>>
        /\ \A o \in Op : ShutOp(op[o])
        /\ \A p \in PlugId : Stuck(p) \/ \E o \in Op : ToGo(op[o], p)

LEMMA ShutAt ==
    ASSUME Typed, ShutInv, closing, NEW o \in Op, NEW l, At(o, l)
    PROVE  /\ op[o].at = l /\ ShutOp(op[o]) /\ deferred = <<>>
           /\ DOMAIN op[o] = Fields /\ Sorted(op[o], born) /\ Placed(op[o])
  BY DEF Typed, Ops, Sorted, ShutInv, At

\* The only operation makes a step.
LEMMA ShutStep ==
    ASSUME Serial, ShutInv, closing, NEW o \in Op, NEW y, Becomes(o, y), deferred' = <<>>, ShutOp(y)',
           \A p \in PlugId : Stuck(p) \/ ToGo(op[o], p) => Stuck(p)' \/ ToGo(y, p)
    PROVE  ShutInv'
  <1>1. \A b \in Op : b = o /\ op'[b] = y
    BY DEF Serial, Becomes
  <1>2. \A b \in Op : ShutOp(op[b])'
    <2>1. op'[o] = y
      BY <1>1
    <2> QED
      BY <1>1, <2>1 DEF ShutOp
  <1>3. ASSUME NEW p \in PlugId
        PROVE  Stuck(p)' \/ \E b \in Op : ToGo(op'[b], p)
    BY <1>1 DEF ShutInv
  <1>4. \A p \in PlugId : Stuck(p)' \/ \E b \in Op : ToGo(op[b], p)'
    BY <1>3 DEF ToGo
  <1> QED
    BY <1>2, <1>4 DEF ShutInv

\* A step that changes no record.
LEMMA ShutSame ==
    ASSUME UNCHANGED <<inst, st>>
    PROVE  \A p : Stuck(p) <=> Stuck(p)'
  BY DEF Stuck

LEMMA DroppedNone ==
    ASSUME NEW p, deferred = <<>>
    PROVE  Dropped(p) = <<>>
  BY DEF Dropped, RemoveFirst

LEMMA PollShuts ==
    ASSUME Serial, Typed, ShutInv, closing, NEW o \in Op, Poll(o) \/ PollDrained(o) \/ PollEnds(o)
    PROVE  ShutInv'
  <1>1. UNCHANGED <<inst, st, deferred>> /\ deferred = <<>>
    BY Zenon DEF Poll, PollDrained, PollEnds, recVars, hostVars, ShutInv
  <1>2. ASSUME NEW y, Becomes(o, y), ShutOp(y)', op[o].kind # "shutdown"
        PROVE  ShutInv'
    BY <1>1, <1>2, ShutSame, ShutStep DEF ToGo
  <1>3. CASE Poll(o)
    <2>1. PICK x : x = [Resting EXCEPT !.kind = "poll"]
      OBVIOUS
    <2>2. DOMAIN x = Fields /\ x.kind = "poll" /\ x.ids = <<>> /\ Resting.kind # "shutdown"
      BY <2>1 DEF Resting, Fields
    <2>3. op[o] = Resting /\ Awaits(o, x, "polldrain", 0)
      BY <1>3, <2>1 DEF Poll
    <2>4. PICK y : y = [x EXCEPT !.at = "polldrain", !.inside = TRUE, !.rec = 0]
      OBVIOUS
    <2>5. y.at = "polldrain" /\ y.kind = "poll" /\ y.ids = <<>>
      BY <2>2, <2>4 DEF Fields
    <2>6. Becomes(o, y)
      BY <2>3, <2>4 DEF Awaits, Becomes, Typed, Ops
    <2>7. ShutOp(y)'
      BY <2>5 DEF ShutOp, Rounds
    <2> QED
      BY <1>2, <2>2, <2>3, <2>6, <2>7
  <1>4. CASE PollDrained(o)
    <2>1. PICK y : y = [op[o] EXCEPT !.at = "next", !.ids = deferred]
      OBVIOUS
    <2>2. op[o].at = "polldrain" /\ DOMAIN op[o] = Fields /\ ShutOp(op[o])
      BY <1>4, ShutAt DEF PollDrained
    <2>3. op[o].kind = "poll"
      BY <2>2 DEF ShutOp, Taking
    <2>4. y.at = "next" /\ y.kind = "poll" /\ y.ids = <<>>
      BY <1>1, <2>1, <2>2, <2>3 DEF Fields
    <2>5. Becomes(o, y)
      BY <1>4, <2>1, RunsTo DEF PollDrained, Typed
    <2>6. ShutOp(y)'
      BY <2>4 DEF ShutOp, Rounds
    <2> QED
      BY <1>2, <2>3, <2>5, <2>6
  <1>5. CASE PollEnds(o)
    <2>1. op[o].at = "polldone" /\ ShutOp(op[o])
      BY <1>5, ShutAt DEF PollEnds
    <2>2. op[o].kind # "shutdown"
      BY <2>1 DEF ShutOp, Taking
    <2>3. Becomes(o, Resting)
      BY <1>5, OverTo DEF PollEnds, Typed
    <2>4. ShutOp(Resting)'
      BY DEF ShutOp, Resting
    <2> QED
      BY <1>2, <2>2, <2>3, <2>4
  <1> QED
    BY <1>3, <1>4, <1>5

LEMMA ReturnsShuts ==
    ASSUME Serial, Typed, ShutInv, closing, NEW o \in Op, NEW ok \in BOOLEAN, CallbackReturns(o, ok)
    PROVE  ShutInv'
  <1>0. PICK x : x = op[o]
    OBVIOUS
  <1>1. UNCHANGED <<inst, st, plug, deferred>> /\ deferred = <<>>
    BY Zenon DEF CallbackReturns, recVars, ShutInv
  <1>2. DOMAIN x = Fields /\ ShutOp(x)
    BY <1>0 DEF Typed, Ops, Sorted, ShutInv
  <1>3. \E s : op' = [op EXCEPT ![o] = [x EXCEPT !.inside = FALSE, !.status = s]]
    BY <1>0 DEF CallbackReturns, Typed, Ops
  <1>4. PICK y, s : y = [x EXCEPT !.inside = FALSE, !.status = s] /\ op' = [op EXCEPT ![o] = y]
    BY <1>3
  <1>5. /\ y.at = x.at /\ y.back = x.back /\ y.rec = x.rec /\ y.kind = x.kind /\ y.id = x.id
        /\ y.ids = x.ids
    BY <1>2, <1>4 DEF Fields
  <1>6. Becomes(o, y)
    BY <1>4 DEF Becomes, Typed, Ops
  <1>7. ShutOp(y)'
    BY <1>1, <1>2, <1>5 DEF ShutOp
  <1>8. \A p : ToGo(x, p) => ToGo(y, p)
    BY <1>5 DEF ToGo
  <1> QED
    BY <1>0, <1>1, <1>6, <1>7, <1>8, ShutSame, ShutStep

LEMMA NextShuts ==
    ASSUME Serial, Typed, ShutInv, closing, NEW o \in Op, NextUnload(o) \/ NoMoreUnloads(o)
    PROVE  ShutInv'
  <1>0. PICK x : x = op[o]
    OBVIOUS
  <1>1. x.at = "next" /\ DOMAIN x = Fields /\ ShutOp(x) /\ Sorted(x, born)
    BY <1>0, ShutAt DEF NextUnload, NoMoreUnloads
  <1>2. UNCHANGED <<inst, st>> /\ deferred = <<>>
    BY Zenon DEF NextUnload, NoMoreUnloads, recVars, ShutInv
  <1>3. x.ids # <<>> => x.kind = "shutdown"
    BY <1>1 DEF ShutOp
  <1>4. CASE NextUnload(o)
    <2>1. PICK y : y = [x EXCEPT !.ids = Tail(x.ids), !.at = "unload", !.id = Head(x.ids)]
      OBVIOUS
    <2>2. x.ids # <<>> /\ x.kind = "shutdown" /\ deferred' = deferred
      BY <1>0, <1>3, <1>4 DEF NextUnload, Copied
    <2>3. op' = [op EXCEPT ![o] = [[op[o] EXCEPT !.ids = Tail(op[o].ids)] EXCEPT !.at = "unload", !.id = Head(op[o].ids)]]
      BY <1>0, <1>4, <2>2 DEF NextUnload, Copied, Runs
    <2>4. op' = [op EXCEPT ![o] = y]
      BY <1>0, <1>1, <2>1, <2>3
    <2>5. Becomes(o, y)
      BY <2>4 DEF Becomes, Typed, Ops
    <2>6. y.at = "unload" /\ y.id = Head(x.ids) /\ y.kind = "shutdown" /\ y.ids = Tail(x.ids)
      BY <1>1, <2>1, <2>2 DEF Fields
    <2>7. ShutOp(y)'
      BY <2>6 DEF ShutOp, Taking
    <2>8. ASSUME NEW p, ToGo(x, p)
          PROVE  ToGo(y, p)
      <3>1. PICK i \in 1 .. Len(x.ids) : x.ids[i] = p
        BY <1>1, <2>8 DEF ToGo
      <3>2. x.ids \in Seq(PlugId)
        BY <1>1 DEF Sorted
      <3>3. i = 1 \/ (i - 1 \in 1 .. Len(Tail(x.ids)) /\ Tail(x.ids)[i - 1] = p)
        BY <2>2, <3>1, <3>2
      <3>4. Head(x.ids) = x.ids[1]
        BY <2>2, <3>2
      <3> QED
        BY <2>6, <3>1, <3>3, <3>4 DEF ToGo
    <2> QED
      BY <1>0, <1>2, <2>2, <2>5, <2>7, <2>8, ShutSame, ShutStep
  <1>5. CASE NoMoreUnloads(o)
    <2>1. x.ids = <<>> /\ deferred' = deferred
      BY <1>0, <1>5, Zenon DEF NoMoreUnloads
    <2>2. \A p : ~ToGo(x, p)
      BY <1>1, <2>1 DEF ToGo
    <2>3. CASE Awaits(o, x, "polldone", 0) /\ x.kind = "poll"
      <3>1. PICK y : y = [x EXCEPT !.at = "polldone", !.inside = TRUE, !.rec = 0]
        OBVIOUS
      <3>2. y.at = "polldone" /\ y.kind = "poll" /\ y.ids = <<>>
        BY <1>1, <2>1, <2>3, <3>1 DEF Fields
      <3>3. Becomes(o, y)
        BY <2>3, <3>1 DEF Awaits, Becomes, Typed, Ops
      <3>4. ShutOp(y)'
        BY <3>2 DEF ShutOp, Rounds
      <3> QED
        BY <1>0, <1>2, <2>1, <2>2, <3>3, <3>4, ShutSame, ShutStep
    <2>4. CASE Over(o)
      <3>1. Becomes(o, Resting)
        BY <2>4, OverTo DEF Typed
      <3>2. ShutOp(Resting)'
        BY DEF ShutOp, Resting
      <3> QED
        BY <1>0, <1>2, <2>1, <2>2, <3>1, <3>2, ShutSame, ShutStep
    <2> QED
      BY <1>0, <1>5, <2>3, <2>4 DEF NoMoreUnloads
  <1> QED
    BY <1>4, <1>5

\* The unload that shutdown() is at goes on: its record's state is set, if at all,
\* to one of isolation.
LEMMA UnloadShuts ==
    ASSUME Serial, Typed, ShutInv, closing, NEW o \in Op, NEW x, NEW y, x = op[o], ShutOp(x),
           x.at \in {"unload"} \cup Taking, Becomes(o, y), deferred' = <<>>, plug' = plug, inst' = inst,
           y.kind = x.kind, y.id = x.id, y.ids = x.ids,
           y.at \in {"unloaded", "destroy"} \cup Taking,
           y.at = "destroy" => y.back = "unloaded",
           y.at \in Taking \cup {"destroy"} => plug[y.rec] = y.id,
           NEW q, st' = st \/ \E v \in {"faulted", "revoking"} : st' = [st EXCEPT ![q] = v],
           x.at = "unload" => y.at = "destroy" \/ Stuck(x.id)'
    PROVE  ShutInv'
  <1>1. x.kind = "shutdown"
    BY DEF ShutOp, Rounds, Taking
  <1>2. ShutOp(y)'
    BY <1>1 DEF ShutOp
  <1>3. ASSUME NEW p \in PlugId, Stuck(p)
        PROVE  Stuck(p)'
    <2>1. inst[p] # 0 => inst[p] \in Rec
      BY RecordRange DEF Typed, Ground
    <2> QED
      BY <1>3, <2>1 DEF Stuck, Typed, Ground
  <1>4. ASSUME NEW p \in PlugId, ToGo(x, p)
        PROVE  Stuck(p)' \/ ToGo(y, p)
    BY <1>1, <1>4 DEF ToGo, Taking
  <1> QED
    BY <1>2, <1>3, <1>4, ShutStep

LEMMA UnloadEntryShuts ==
    ASSUME Serial, Typed, ShutInv, closing, NEW o \in Op, UnloadEntry(o)
    PROVE  ShutInv'
  <1>0. PICK t, p, r, x, y : /\ t = op[o] /\ p = op[o].id /\ r = inst[p]
                             /\ x = [op[o] EXCEPT !.status = "ok", !.back = "unloaded"]
                             /\ y = [op[o] EXCEPT !.at = "unloaded", !.status = "failed"]
    OBVIOUS
  <1>1. /\ t.at = "unload" /\ ShutOp(t) /\ deferred = <<>> /\ DOMAIN t = Fields /\ p \in PlugId
    BY <1>0, ShutAt DEF UnloadEntry, Placed, WithId
  <1>2. UNCHANGED <<plug, inst>> /\ deferred' = Dropped(p)
    BY <1>0, Zenon DEF UnloadEntry
  <1>3. deferred' = <<>>
    BY <1>1, <1>2, DroppedNone
  <1>4. /\ y.at = "unloaded" /\ y.kind = t.kind /\ y.id = t.id /\ y.ids = t.ids
        /\ DOMAIN x = Fields /\ x.kind = t.kind /\ x.id = t.id /\ x.back = "unloaded" /\ x.ids = t.ids
    BY <1>0, <1>1 DEF Fields
  <1>5. r # 0 => r \in Rec /\ plug[r] = p
    BY <1>0, <1>1, RecordRange DEF Typed, Ground
  <1>6. CASE Runs(o, y) /\ (r = 0 \/ st[r] = "faulted") /\ st' = st
    <2>1. Becomes(o, y)
      BY <1>6, RunsTo DEF Typed
    <2>2. Stuck(t.id)'
      BY <1>0, <1>2, <1>6 DEF Stuck
    <2> QED
      BY <1>0, <1>1, <1>2, <1>3, <1>4, <1>6, <2>1, <2>2, UnloadShuts DEF Taking
  <1>7. ASSUME r # 0, NEW l \in {"destroy", "withdraw"}, Awaits(o, x, l, r),
               \/ l = "destroy" /\ st' = st
               \/ l = "withdraw" /\ st' = [st EXCEPT ![r] = "revoking"]
        PROVE  ShutInv'
    <2>1. PICK z : z = [x EXCEPT !.at = l, !.inside = TRUE, !.rec = r]
      OBVIOUS
    <2>2. /\ z.at = l /\ z.rec = r /\ z.kind = t.kind /\ z.id = t.id /\ z.ids = t.ids
          /\ z.back = "unloaded"
      BY <1>4, <2>1 DEF Fields
    <2>3. Becomes(o, z)
      BY <1>7, <2>1 DEF Awaits, Becomes, Typed, Ops
    <2>4. plug[z.rec] = z.id
      BY <1>0, <1>5, <1>7, <2>2
    <2>5. l = "withdraw" => Stuck(t.id)'
      <3>1. r \in Rec
        BY <1>5, <1>7
      <3> QED
        BY <1>0, <1>2, <1>7, <3>1 DEF Stuck, Typed, Ground
    <2>6. st' = st \/ \E v \in {"faulted", "revoking"} : st' = [st EXCEPT ![r] = v]
      BY <1>7
    <2>7. z.at \in {"unloaded", "destroy"} \cup Taking /\ t.at \in {"unload"} \cup Taking
      BY <1>1, <2>2 DEF Taking
    <2> QED
      BY <1>0, <1>1, <1>2, <1>3, <1>7, <2>2, <2>3, <2>4, <2>5, <2>6, <2>7, UnloadShuts
  <1>8. \/ Runs(o, y) /\ (r = 0 \/ st[r] = "faulted") /\ st' = st
        \/ r # 0 /\ Awaits(o, x, "destroy", r) /\ st' = st
        \/ r # 0 /\ Awaits(o, x, "withdraw", r) /\ st' = [st EXCEPT ![r] = "revoking"]
    BY <1>0 DEF UnloadEntry
  <1> QED
    BY <1>6, <1>7, <1>8

LEMMA TakingShuts ==
    ASSUME Serial, Typed, ShutInv, closing, NEW o \in Op, WithdrawEnds(o) \/ RevokeEnds(o) \/ StopEnds(o)
    PROVE  ShutInv'
  <1>0. PICK x, q, y, z : /\ x = op[o] /\ q = op[o].rec
                          /\ y = [op[o] EXCEPT !.at = "unloaded"]
                          /\ z = [op[o] EXCEPT !.at = "unloaded", !.status = "busy"]
    OBVIOUS
  <1>1. UNCHANGED <<plug, inst, deferred>>
    BY Zenon DEF WithdrawEnds, RevokeEnds, StopEnds, recVars
  <1>2. /\ x.at \in Taking /\ ShutOp(x) /\ DOMAIN x = Fields /\ Placed(x) /\ deferred = <<>>
    BY <1>0, ShutAt DEF WithdrawEnds, RevokeEnds, StopEnds, Taking
  <1>3. x.back = "unloaded" /\ plug[q] = x.id /\ x.at # "unload"
    BY <1>0, <1>2 DEF Placed, Taking, ShutOp, Rounds
  <1>4. /\ y.at = "unloaded" /\ y.kind = x.kind /\ y.id = x.id /\ y.ids = x.ids
        /\ z.at = "unloaded" /\ z.kind = x.kind /\ z.id = x.id /\ z.ids = x.ids
    BY <1>0, <1>2 DEF Fields
  <1>5. ASSUME NEW w \in {y, z}, Runs(o, w), st' = st \/ st' = [st EXCEPT ![q] = "faulted"]
        PROVE  ShutInv'
    <2>1. Becomes(o, w)
      BY <1>5, RunsTo DEF Typed
    <2>2. w.at = "unloaded" /\ w.kind = x.kind /\ w.id = x.id /\ w.ids = x.ids
      BY <1>4
    <2>3. /\ st' = st \/ \E v \in {"faulted", "revoking"} : st' = [st EXCEPT ![q] = v]
          /\ w.at \in {"unloaded", "destroy"} \cup Taking /\ x.at \in {"unload"} \cup Taking
          /\ w.at # "destroy" /\ w.at \notin Taking
      BY <1>2, <1>5, <2>2 DEF Taking
    <2> QED
      BY <1>0, <1>1, <1>2, <1>3, <2>1, <2>2, <2>3, UnloadShuts
  <1>6. ASSUME NEW m \in {"revoke", "stop", "destroy"}, Awaits(o, x, m, q), st' = st
        PROVE  ShutInv'
    <2>1. PICK w : w = [x EXCEPT !.at = m, !.inside = TRUE, !.rec = q]
      OBVIOUS
    <2>2. /\ w.at = m /\ w.rec = q /\ w.kind = x.kind /\ w.id = x.id /\ w.ids = x.ids
          /\ w.back = "unloaded"
      BY <1>2, <1>3, <2>1 DEF Fields
    <2>3. Becomes(o, w)
      BY <1>6, <2>1 DEF Awaits, Becomes, Typed, Ops
    <2>4. w.at \in {"unloaded", "destroy"} \cup Taking
      BY <2>2 DEF Taking
    <2> QED
      BY <1>0, <1>1, <1>2, <1>3, <1>6, <2>2, <2>3, <2>4, UnloadShuts
  <1>7. \/ (Runs(o, y) \/ Runs(o, z)) /\ (st' = st \/ st' = [st EXCEPT ![q] = "faulted"])
        \/ (Awaits(o, x, "revoke", q) \/ Awaits(o, x, "stop", q) \/ Awaits(o, x, "destroy", q)) /\ st' = st
    BY <1>0, Zenon DEF WithdrawEnds, RevokeEnds, StopEnds, GoOn, recVars
  <1> QED
    BY <1>5, <1>6, <1>7

LEMMA DestroyShuts ==
    ASSUME Serial, Typed, ShutInv, closing, NEW o \in Op, DestroyEnds(o)
    PROVE  ShutInv'
  <1>0. PICK x, q, y : /\ x = op[o] /\ q = x.rec
                       /\ y = [op[o] EXCEPT !.at = op[o].back, !.back = "rest", !.rec = 0]
    OBVIOUS
  <1>1. x.at = "destroy" /\ ShutOp(x) /\ DOMAIN x = Fields /\ deferred = <<>>
    BY <1>0, ShutAt DEF DestroyEnds
  <1>2. /\ st' = [st EXCEPT ![q] = "destroyed"] /\ inst' = [inst EXCEPT ![plug[q]] = 0]
        /\ deferred' = Dropped(plug[q]) /\ Runs(o, y)
    BY <1>0, Zenon DEF DestroyEnds
  <1>3. x.kind = "shutdown" /\ x.back = "unloaded" /\ plug[q] = x.id
    BY <1>0, <1>1 DEF ShutOp, Rounds
  <1>4. y.at = "unloaded" /\ y.kind = "shutdown" /\ y.ids = x.ids
    BY <1>0, <1>1, <1>3 DEF Fields
  <1>5. Becomes(o, y) /\ deferred' = <<>> /\ ShutOp(y)'
    BY <1>1, <1>2, <1>4, RunsTo, DroppedNone DEF Typed, ShutOp, Taking
  <1>6. ASSUME NEW p \in PlugId
        PROVE  /\ p = x.id => Stuck(p)'
               /\ Stuck(p) => Stuck(p)'
    <2>1. inst'[p] = IF p = plug[q] THEN 0 ELSE inst[p]
      BY <1>2 DEF Typed, Ground
    <2>2. inst[p] # 0 /\ p # plug[q] => inst[p] # q
      BY DEF Typed, Ground
    <2>3. \A s : s # q => st'[s] = st[s]
      BY <1>2 DEF Typed, Ground
    <2> QED
      BY <1>3, <2>1, <2>2, <2>3 DEF Stuck
  <1>7. \A p : ToGo(x, p) => p = x.id \/ ToGo(y, p)
    BY <1>3, <1>4 DEF ToGo
  <1> QED
    BY <1>0, <1>5, <1>6, <1>7, ShutStep

LEMMA UnloadedShuts ==
    ASSUME Serial, Typed, ShutInv, closing, NEW o \in Op, Unloaded(o)
    PROVE  ShutInv'
  <1>0. PICK x, y : x = op[o] /\ y = [op[o] EXCEPT !.at = "next"]
    OBVIOUS
  <1>1. x.at = "unloaded" /\ ShutOp(x) /\ DOMAIN x = Fields /\ deferred = <<>>
    BY <1>0, ShutAt DEF Unloaded
  <1>2. x.kind = "shutdown"
    BY <1>1 DEF ShutOp, Rounds
  <1>3. Runs(o, y) /\ deferred' = <<>> /\ UNCHANGED <<inst, st>>
    BY <1>0, <1>1, <1>2 DEF Unloaded, NoFailure, GoOn, recVars
  <1>4. y.at = "next" /\ y.kind = "shutdown" /\ y.ids = x.ids
    BY <1>0, <1>1, <1>2 DEF Fields
  <1>5. Becomes(o, y) /\ ShutOp(y)'
    BY <1>3, <1>4, RunsTo DEF Typed, ShutOp, Taking
  <1>6. \A p : ToGo(x, p) => ToGo(y, p)
    BY <1>1, <1>4 DEF ToGo
  <1> QED
    BY <1>0, <1>3, <1>5, <1>6, ShutSame, ShutStep

\* shutdown() has everyone before it who is in the rack.
LEMMA ShutdownShuts ==
    ASSUME Serial, Typed, NEW o \in Op, Shutdown(o)
    PROVE  ShutInv'
  <1>1. deferred' = <<>> /\ UNCHANGED <<inst, st>>
    BY Zenon DEF Shutdown, recVars
  <1>2. PICK ids \in SetToSeqs({p \in PlugId : inst[p] # 0}) : Begins(o, "shutdown", "next", NoPlug, ids)
    BY Zenon DEF Shutdown
  <1>3. PICK y : y = [Resting EXCEPT !.kind = "shutdown", !.at = "next", !.id = NoPlug, !.ids = ids]
    OBVIOUS
  <1>4. y.at = "next" /\ y.kind = "shutdown" /\ y.ids = ids
    BY <1>3 DEF Resting
  <1>5. Becomes(o, y)
    BY <1>2, <1>3, RunsTo DEF Begins, Typed
  <1>6. \A b \in Op : b = o /\ op'[b] = y
    BY <1>5 DEF Serial, Becomes
  <1>7. ShutOp(y)'
    BY <1>4 DEF ShutOp, Taking
  <1>8. ASSUME NEW p \in PlugId
        PROVE  Stuck(p)' \/ ToGo(y, p)
    <2>1. CASE inst[p] = 0
      BY <1>1, <2>1 DEF Stuck
    <2>2. CASE inst[p] # 0
      <3>1. IsFiniteSet({e \in PlugId : inst[e] # 0})
        BY RackHostAssumption, FS_Subset
      <3>2. \E i \in DOMAIN ids : ids[i] = p
        BY <2>2, <3>1, EnumerationTyped
      <3>3. DOMAIN ids = 1 .. Len(ids)
        BY <3>1, EnumerationTyped
      <3> QED
        BY <1>4, <3>2, <3>3 DEF ToGo
    <2> QED
      BY <2>1, <2>2
  <1>9. \A b \in Op : ShutOp(op[b])'
    <2>1. op'[o] = y
      BY <1>6
    <2> QED
      BY <1>6, <1>7, <2>1 DEF ShutOp
  <1>10. \A p \in PlugId : Stuck(p)' \/ \E b \in Op : ToGo(op[b], p)'
    BY <1>6, <1>8 DEF ToGo
  <1> QED
    BY <1>1, <1>9, <1>10 DEF ShutInv

\* Nothing but shutdown() closes the rack.
LEMMA StaysOpen ==
    ASSUME [Next]_vars, ~ \E o \in Op : Shutdown(o)
    PROVE  closing' = closing
  <1> USE DEF hostVars, callVars
  <1>1. ASSUME NEW o \in Op, Importing(o) \/ Starting(o)
        PROVE  closing' = closing
    BY <1>1, Zenon DEF Importing, NextFile, Capture, ImportFails, ImportEnds, Discard,
       Starting, EnterRefused, Enter, Make, MakeFails, Plan, NextInit, InitEnds,
       NextStart, StartEnds, RegisterEnds, DrainEnds
  <1>2. ASSUME NEW o \in Op, RollingBack(o) \/ TakingDown(o)
        PROVE  closing' = closing
    BY <1>2, Zenon DEF RollingBack, UndoInit, DiscardRest, UndoStart, RollbackWithdrawn,
       RollbackStopped, DestroyEnds, TakingDown, UnloadEntry, WithdrawEnds, RevokeEnds, StopEnds,
       Unloaded, PollDrained, NextUnload, NoMoreUnloads, PollEnds
  <1>3. ASSUME NEW o \in Op, Asks(o) \/ \E ok \in BOOLEAN : CallbackReturns(o, ok)
        PROVE  closing' = closing
    BY <1>3, Zenon DEF Asks, Boot, Start, Poll, Load, Unload, Reload, CallbackReturns
  <1>4. CASE \/ \E p \in PlugId : Add(p) \/ DeferUnload(p)
             \/ \E k \in Call : CallEnds(k) \/ \E c \in 1 .. born, p \in PlugId : CallBegins(k, c, p)
             \/ UNCHANGED vars
    BY <1>4, Zenon DEF Add, DeferUnload, CallEnds, CallBegins, vars
  <1> QED
    BY <1>1, <1>2, <1>3, <1>4, Zenon DEF Next, Step, Importing, Starting, RollingBack, TakingDown

\* Once it is closed, only polls, the unloads of shutdown() and the callbacks it awaits
\* go on.
LEMMA StepShuts ==
    ASSUME Serial, Typed, ShutInv, closing, NEW o \in Op, Step(o) \/ Asks(o)
    PROVE  ShutInv'
  <1>1. op[o].at \notin
          {"files", "capture", "import", "discard", "enter", "make", "nextInit", "init", "undoInit",
           "discardRest", "nextStart", "start", "register", "drain", "undoStart", "rbwithdraw", "rbstop"}
    <2>1. ShutOp(op[o])
      BY DEF ShutInv
    <2> QED
      BY <2>1 DEF ShutOp, Rounds, Taking
  <1>2. ~Importing(o) /\ ~Starting(o)
    BY <1>1 DEF At, Importing, NextFile, Capture, ImportFails, ImportEnds, Discard,
       Starting, EnterRefused, Enter, Make, MakeFails, Plan, NextInit, InitEnds,
       NextStart, StartEnds, RegisterEnds, DrainEnds
  <1>3. RollingBack(o) => DestroyEnds(o)
    BY <1>1 DEF At, RollingBack, UndoInit, DiscardRest, UndoStart, RollbackWithdrawn,
       RollbackStopped
  <1>4. Asks(o) => Poll(o)
    BY DEF Asks, Boot, Start, Load, Unload, Reload, Shutdown, EntryOpen
  <1>5. \/ Poll(o) \/ DestroyEnds(o) \/ TakingDown(o)
        \/ \E ok \in BOOLEAN : CallbackReturns(o, ok)
    BY <1>2, <1>3, <1>4, Zenon DEF Step, Importing, Starting, RollingBack, TakingDown
  <1> QED
    BY <1>5, PollShuts, ReturnsShuts, NextShuts, DestroyShuts, UnloadEntryShuts, TakingShuts,
       UnloadedShuts DEF TakingDown

LEMMA NextShut ==
    ASSUME Serial, Typed, ShutInv, [Next]_vars
    PROVE  ShutInv'
  <1>1. CASE ~closing
    BY <1>1, StaysOpen, ShutdownShuts DEF ShutInv
  <1>2. CASE closing
    <2>1. ASSUME UNCHANGED <<op, plug, inst, st, deferred>>
          PROVE  ShutInv'
      BY <1>2, <2>1 DEF ShutInv, ShutOp, Stuck, ToGo
    <2>2. CASE \/ \E p \in PlugId : Add(p) \/ DeferUnload(p)
               \/ \E k \in Call : CallEnds(k) \/ \E c \in 1 .. born, p \in PlugId : CallBegins(k, c, p)
               \/ UNCHANGED vars
      <3>1. UNCHANGED <<op, plug, inst, st, deferred>>
        BY <1>2, <2>2, Zenon DEF Add, DeferUnload, CallEnds, CallBegins, EntryOpen, vars, recVars, hostVars
      <3> QED
        BY <2>1, <3>1
    <2> QED
      BY <1>2, <2>2, StepShuts, Zenon DEF Next
  <1> QED
    BY <1>1, <1>2

\* shutdown(): "instances that cannot prove quiescence stay isolated".  When it is over
\* and operations have not overlapped, nothing is left in the rack but what an unload
\* isolated: of every other instance, whatever threw on the way, no record remains.
THEOREM ShutdownTakesAll ==
    ASSUME Serial
    PROVE  Spec => []ShutdownLeavesStuck
  <1>1. Init => ShutInv
    BY DEF Init, ShutInv
  <1>2. Typed /\ ShutInv /\ [Next]_vars => ShutInv'
    BY NextShut
  <1>3. ShutInv => ShutdownLeavesStuck
    <2> SUFFICES ASSUME ShutInv, closing, \A o \in Op : op[o] = Resting, NEW p \in PlugId
                 PROVE  inst[p] # 0 => st[inst[p]] \in {"faulted", "revoking"}
      BY DEF ShutdownLeavesStuck
    <2>1. \A o \in Op : ~ToGo(op[o], p)
      BY DEF ToGo, Resting
    <2> QED
      BY <2>1 DEF ShutInv, Stuck
  <1> QED
    BY <1>1, <1>2, <1>3, TypedHolds, PTL DEF Spec
=============================================================================
