------------------------------ MODULE LogRing ------------------------------
(***************************************************************************)
(* LogRing of ts/src/plugins/logging/index.ts: a ring of slots, the index  *)
(* of the oldest entry and the number of entries.                          *)
(***************************************************************************)
EXTENDS Integers, Sequences

CONSTANTS
    Capacity,   \* of the ring; resolveCapacity() lets no other number through
    Entry,      \* the log entries
    Empty       \* what a slot without one holds

ASSUME RingAssumption == Capacity \in Nat \ {0} /\ Empty \notin Entry

VARIABLES slots, head, count

ringVars == <<slots, head, count>>

Slot == 0 .. Capacity - 1

RingInit == slots = [i \in Slot |-> Empty] /\ head = 0 /\ count = 0

\* push().  (mutant: the oldest entry stays the oldest)
HeadStays == head
HeadMoves == (head + 1) % Capacity

Push(entry) ==
    /\ slots' = [slots EXCEPT ![(head + count) % Capacity] = entry]
    /\ IF count = Capacity THEN head' = HeadMoves /\ count' = count
       ELSE head' = head /\ count' = count + 1

\* clear()
Clear == slots' = [i \in Slot |-> Empty] /\ head' = 0 /\ count' = 0

\* entries()
Entries == [i \in 1 .. count |-> slots[(head + i - 1) % Capacity]]

RingNext == (\E entry \in Entry : Push(entry)) \/ Clear

RingSpec == RingInit /\ [][RingNext]_ringVars

-----------------------------------------------------------------------------
\* The ring holds entries where it says it does.
RingInv ==
    /\ slots \in [Slot -> Entry \cup {Empty}]
    /\ head \in Slot /\ count \in 0 .. Capacity
    /\ \A i \in 1 .. count : Entries[i] \in Entry

\* entries() is the buffer std.log promises, push() and clear() are its steps.
Recent == INSTANCE RecentLog WITH recent <- Entries

\* The ring of std.log is the buffer of recent entries it promises: whatever the head
\* has wrapped over, entries() is the newest accepted ones, oldest first.
RingIsRecentLog == Recent!Spec
=============================================================================
