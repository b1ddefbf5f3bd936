---------------------------- MODULE MCStdDevices ----------------------------
(* A small instance of StdDevices for TLC; the bounds are in StdDevices.cfg. *)
EXTENDS StdDevices

OneKey == {"key"}
SomeLives == {0, 2, 4}
SomeCalls == [d \in Device |-> CASE d = "http" -> 2 [] d = "log" -> 4 [] OTHER -> 3]
Numbered == 1 .. 4
V(major, minor) == [major |-> major, minor |-> minor, patch |-> 0]
\* In range and too new; 9 stands for the largest safe integer.
SomeVersions == {V(1, 2), V(2, 0)}
Range1 == [minimum |-> V(1, 0), maximum |-> [major |-> 1, minor |-> 9, patch |-> 9]]
SomeIds == {"a/b", ".."}
=============================================================================
