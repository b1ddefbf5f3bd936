------------------------------ MODULE RackCli ------------------------------
(***************************************************************************)
(* rack-cli, ts/apps/cli/commands.ts and rack-access.ts: one invocation,   *)
(* from its arguments to its exit code, over a rack that it boots, uses    *)
(* once and shuts down.  The rack is RackHost cut down to what the facade  *)
(* answers: an operation is refused as 'busy' while a plugin is executing  *)
(* something of its own, and fails or not otherwise.                       *)
(***************************************************************************)
EXTENDS Integers

VARIABLES
    cli,        \* [pc, command, ok, code]: where it is, what it executes, whether
                \* nothing was thrown so far, the exit code
    rack,       \* [state, ready, busy]: the rack; whether the staged caller has its
                \* services; whether a plugin's own call is running
    leased,     \* the caller holds its lease
    shutdowns,  \* calls of shutdown()
    warned      \* a failed shutdown was told

cliVars == <<cli, rack, leased, shutdowns, warned>>

\* help is as version.  A word that is no command is a usage error, like arguments
\* that are too many, too few, unknown or no JSON.
Command == {"version", "list", "describe", "call", "unload", "reload", "poll", "serve"}
NoCode == 9

InitCli ==
    /\ cli = [pc |-> "parse", command |-> "none", ok |-> TRUE, code |-> NoCode]
    /\ rack = [state |-> "none", ready |-> FALSE, busy |-> FALSE]
    /\ leased = FALSE /\ shutdowns = 0 /\ warned = FALSE

At(pc) == cli.pc = pc
Goes(pc) == cli' = [cli EXCEPT !.pc = pc]
Fails(pc) == cli' = [cli EXCEPT !.pc = pc, !.ok = FALSE]

\* runCli(): the code, 1 after reportError().
Exits(code) == cli' = [cli EXCEPT !.pc = "over", !.code = code]

-----------------------------------------------------------------------------
(* Arguments and rack                                                      *)

\* parseInvocation(), expectPositionalCount() and JSON.parse(), before there is a rack.
Parses ==
    /\ At("parse")
    /\ \/ Exits(2)
       \/ \E c \in Command : cli' = [cli EXCEPT !.pc = IF c = "version" THEN "end" ELSE "make", !.command = c]
    /\ UNCHANGED <<rack, leased, shutdowns, warned>>

\* The factory: import, createRack(), add() of the std devices, of the caller for
\* a call; any of it may throw.
Makes ==
    /\ At("make")
    /\ \/ Goes("boot") /\ rack' = [rack EXCEPT !.state = "new"]
       \/ Fails("end") /\ UNCHANGED rack
    /\ UNCHANGED <<leased, shutdowns, warned>>

\* boot() ends; what was staged may be left to start().
Boots ==
    /\ At("boot")
    /\ \/ /\ Goes(IF cli.command = "serve" THEN "serving" ELSE "op")
          /\ \E ready \in BOOLEAN : rack' = [rack EXCEPT !.state = "up", !.ready = ready]
       \/ Fails("undo") /\ rack' = [rack EXCEPT !.state = "half"]
    /\ UNCHANGED <<leased, shutdowns, warned>>

\* Plugins that were started do things of their own, on timers and for clients.
PluginActs ==
    /\ rack.state \in {"up", "half"}
    /\ rack' = [rack EXCEPT !.busy = ~@]
    /\ UNCHANGED <<cli, leased, shutdowns, warned>>

-----------------------------------------------------------------------------
(* The operation                                                           *)

\* finally: whatever the operation did, the rack is shut down next.  (mutant: only
\* after one that went well)
OnlyIfFine(ok) == IF ok THEN "down" ELSE "end"
Finally(ok) == "down"

\* list and describe read; describe throws for a plugin that is not there.
Reads ==
    /\ At("op") /\ cli.command \in {"list", "describe"}
    /\ \/ Goes(Finally(TRUE))
       \/ cli.command = "describe" /\ Fails(Finally(FALSE))
    /\ UNCHANGED <<rack, leased, shutdowns, warned>>

\* unload, reload and poll await the rack.
Operates ==
    /\ At("op") /\ cli.command \in {"unload", "reload", "poll"}
    /\ \/ ~rack.busy /\ Goes(Finally(TRUE))
       \/ Fails(Finally(FALSE))
    /\ UNCHANGED <<rack, leased, shutdowns, warned>>

\* startedCallerServices(): start(), if boot() has not called init() of the caller.
StartsCaller ==
    /\ At("op") /\ cli.command = "call" /\ ~rack.ready
    /\ \/ ~rack.busy /\ rack' = [rack EXCEPT !.ready = TRUE] /\ UNCHANGED cli
       \/ Fails(Finally(FALSE)) /\ UNCHANGED rack
    /\ UNCHANGED <<leased, shutdowns, warned>>

\* oneShotCall(): a provider that is not there is the end of it, a call that was
\* begun ends in any way, and the lease is returned.
Borrows ==
    /\ At("op") /\ cli.command = "call" /\ rack.ready
    /\ \/ Goes("call") /\ leased' = TRUE
       \/ Fails(Finally(FALSE)) /\ UNCHANGED leased
    /\ UNCHANGED <<rack, shutdowns, warned>>

CallEnds ==
    /\ At("call") /\ (Goes("return") \/ Fails("return"))
    /\ UNCHANGED <<rack, leased, shutdowns, warned>>

Returns ==
    /\ At("return") /\ Goes(Finally(cli.ok)) /\ leased' = FALSE
    /\ UNCHANGED <<rack, shutdowns, warned>>

\* serve goes on until the first signal.
Signalled ==
    /\ At("serving") /\ Goes("down")
    /\ UNCHANGED <<rack, leased, shutdowns, warned>>

\* The handlers are off then: a second signal ends the process.
Killed ==
    /\ At("down") /\ cli.command = "serve" /\ Goes("killed")
    /\ UNCHANGED <<rack, leased, shutdowns, warned>>

-----------------------------------------------------------------------------
\* shutdownBestEffort(): a rack that is busy refuses and stays as it is; it is told
\* unless boot() had failed.
ShutsDown ==
    /\ At("down") \/ At("undo")
    /\ Goes("end") /\ shutdowns' = shutdowns + 1
    /\ rack' = IF rack.busy THEN rack ELSE [rack EXCEPT !.state = "down"]
    /\ warned' = (rack.busy /\ At("down"))
    /\ UNCHANGED leased

Ends ==
    /\ At("end") /\ Exits(IF cli.ok THEN 0 ELSE 1)
    /\ UNCHANGED <<rack, leased, shutdowns, warned>>

CliNext ==
    \/ Parses \/ Makes \/ Boots \/ PluginActs \/ Reads \/ Operates \/ StartsCaller
    \/ Borrows \/ CallEnds \/ Returns \/ Signalled \/ Killed \/ ShutsDown \/ Ends
=============================================================================
