----------------------------- MODULE LogDevice -----------------------------
(***************************************************************************)
(* std.log, ts/src/plugins/logging/index.ts: the ring, the file sink with  *)
(* its chain of appends, and stop(), which waits for the chain.            *)
(***************************************************************************)
EXTENDS OneCall, LogRing

VARIABLES
    accepted,   \* how many log calls were accepted; entries are numbered
    chain,      \* fileChain: the lines whose append is still to come, in order
    file,       \* the lines in the file
    enabled,    \* fileEnabled
    failed      \* no file is written, from the start or since an append failed

fileVars == <<accepted, chain, file, enabled, failed>>
logVars == <<ringVars, fileVars>>

\* withFile: U42_LOG_FILE names one.
InitLog(withFile) ==
    RingInit /\ accepted = 0 /\ chain = <<>> /\ file = <<>> /\ enabled = withFile /\ failed = ~withFile

\* handleLog() and dispatchSinks(); arguments that are refused change nothing.
Logs ==
    /\ Invoked("log")
    /\ accepted' = accepted + 1
    /\ Push(accepted + 1)
    /\ chain' = IF enabled THEN Append(chain, accepted + 1) ELSE chain
    /\ UNCHANGED <<file, enabled, failed, life>>

\* (mutant: a failure does not disable the file)
StaysEnabled == enabled
Disabled == FALSE

\* The next link of the chain: skipped once an append failed.
Appends ==
    /\ chain # <<>>
    /\ chain' = Tail(chain)
    /\ \/ enabled /\ file' = Append(file, Head(chain)) /\ UNCHANGED <<enabled, failed>>
       \/ enabled /\ enabled' = Disabled /\ failed' = TRUE /\ UNCHANGED file
       \/ ~enabled /\ UNCHANGED <<file, enabled, failed>>
    /\ UNCHANGED <<ringVars, accepted, life, calls>>

LogStops == Stopping("log") /\ UNCHANGED logVars

LogStopEnds ==
    /\ chain = <<>> /\ Stopped("log")
    /\ enabled' = FALSE /\ Clear
    /\ UNCHANGED <<accepted, chain, file, failed>>

LogNext == Logs \/ Appends \/ LogStops \/ LogStopEnds
=============================================================================
