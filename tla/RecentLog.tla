----------------------------- MODULE RecentLog -----------------------------
(***************************************************************************)
(* What std.log promises of its buffer: the newest entries, oldest first,  *)
(* and at most Capacity of them.                                           *)
(***************************************************************************)
EXTENDS Integers, Sequences

CONSTANTS Capacity, Entry

VARIABLE recent

Init == recent = <<>>

Accepts(entry) ==
    recent' = IF Len(recent) < Capacity THEN Append(recent, entry) ELSE Append(Tail(recent), entry)

Next == (\E entry \in Entry : Accepts(entry)) \/ recent' = <<>>

Spec == Init /\ [][Next]_recent
=============================================================================
