-------------------------------- MODULE Rack --------------------------------
(***************************************************************************)
(* What the rack promises of borrowing and calling (ts/docs/design.md,     *)
(* ideas 2, 3, 7, 8), without the tables, counters and protocols that keep *)
(* it: an instance serves once; it is borrowed, and called through a lease *)
(* of its own, while it serves, by one call at a time; only who borrowed   *)
(* gives back; and an unload calls its stop() when nobody holds a lease on *)
(* it and nothing runs in it.                                              *)
(***************************************************************************)
EXTENDS Integers

CONSTANTS PlugId, Handle, Call, MaxGen, NoPlug, NoHandle

VARIABLES
    phase,      \* of an instance: "new", "serving", "closed", or "stopping"
    lease,      \* of a credential: "free", "out" or "gone"
    owner,      \* who borrowed with it
    target,     \* the instance it is for
    giver,      \* who gave it back
    running     \* of a call: the credential it came with while it is in a provider

borrowed == <<lease, owner, target, giver>>
vars == <<phase, borrowed, running>>

Instance == PlugId \X (1 .. MaxGen)

Held(i) == \E h \in Handle : lease[h] = "out" /\ target[h] = i
Runs(i) == \E k \in Call : running[k] # NoHandle /\ target[running[k]] = i

Init ==
    /\ phase = [i \in Instance |-> "new"]
    /\ lease = [h \in Handle |-> "free"]
    /\ owner = [h \in Handle |-> NoPlug] /\ target = [h \in Handle |-> <<NoPlug, 0>>]
    /\ giver = [h \in Handle |-> NoPlug]
    /\ running = [k \in Call |-> NoHandle]

-----------------------------------------------------------------------------
(* The life of an instance                                                 *)

Becomes(i, from, to) ==
    /\ UNCHANGED <<borrowed, running>>
    /\ phase[i] = from /\ phase'[i] = to
    /\ \A j \in Instance : j # i => phase'[j] = phase[j]

\* The older ones of the plugin have served.
Opens(i) ==
    /\ Becomes(i, "new", "serving")
    /\ \A j \in Instance : j[1] = i[1] /\ j[2] # i[2] => phase[j] = IF j[2] < i[2] THEN "closed" ELSE "new"

Closes(i) == Becomes(i, "serving", "closed")

\* What was not given out up to the generation n never will be.
Passes(p, n) ==
    /\ UNCHANGED <<borrowed, running>>
    /\ \A i \in Instance : i[1] = p => phase[i] \in {"new", "closed"}
    /\ \A i \in Instance : phase'[i] = IF i[1] = p /\ i[2] <= n THEN "closed" ELSE phase[i]

\* An unload has come to stop(), and is over.
StopBegins(i) == Becomes(i, "closed", "stopping") /\ ~Held(i) /\ ~Runs(i)
StopIsOver(i) == Becomes(i, "stopping", "closed")

-----------------------------------------------------------------------------
(* Leases and calls                                                        *)

Borrows(c, i, h) ==
    /\ phase[i] = "serving" /\ lease[h] = "free"
    /\ lease' = [lease EXCEPT ![h] = "out"]
    /\ owner' = [owner EXCEPT ![h] = c] /\ target' = [target EXCEPT ![h] = i]
    /\ UNCHANGED <<phase, giver, running>>

GivesBack(c, h) ==
    /\ lease[h] = "out" /\ owner[h] = c
    /\ \A k \in Call : running[k] # h
    /\ lease' = [lease EXCEPT ![h] = "gone"]
    /\ giver' = [giver EXCEPT ![h] = c]
    /\ UNCHANGED <<phase, owner, target, running>>

\* A consumer that is taken down, and serves nobody any more, leaves its leases.
Leaves(c) ==
    /\ \A i \in Instance : i[1] = c => phase[i] # "serving"
    /\ lease' = [h \in Handle |-> IF lease[h] = "out" /\ owner[h] = c THEN "gone" ELSE lease[h]]
    /\ giver' = [h \in Handle |-> IF lease[h] = "out" /\ owner[h] = c THEN c ELSE giver[h]]
    /\ UNCHANGED <<phase, owner, target, running>>

Enters(k, h) ==
    /\ running[k] = NoHandle /\ lease[h] = "out"
    /\ phase[target[h]] = "serving" /\ ~Runs(target[h])
    /\ running' = [running EXCEPT ![k] = h]
    /\ UNCHANGED <<phase, borrowed>>

Ends(k) ==
    /\ running[k] # NoHandle
    /\ running' = [running EXCEPT ![k] = NoHandle]
    /\ UNCHANGED <<phase, borrowed>>

-----------------------------------------------------------------------------
Next ==
    \/ \E i \in Instance : Opens(i) \/ Closes(i) \/ StopBegins(i) \/ StopIsOver(i)
    \/ \E p \in PlugId, n \in 0 .. MaxGen : Passes(p, n)
    \/ \E c \in PlugId, i \in Instance, h \in Handle : Borrows(c, i, h)
    \/ \E c \in PlugId, h \in Handle : GivesBack(c, h)
    \/ \E c \in PlugId : Leaves(c)
    \/ \E k \in Call, h \in Handle : Enters(k, h)
    \/ \E k \in Call : Ends(k)

Spec == Init /\ [][Next]_vars
=============================================================================
