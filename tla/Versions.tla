------------------------------ MODULE Versions ------------------------------
(***************************************************************************)
(* Version triples and the closed ranges borrowers state, of               *)
(* ts/src/core/version.ts.                                                 *)
(***************************************************************************)
EXTENDS Integers

\* What isPluginVersion() lets through, beyond the largest safe integer.
Version == [major : Nat, minor : Nat, patch : Nat]
VersionRange == [minimum : Version, maximum : Version]

VersionLess(left, right) ==
    \/ left.major < right.major
    \/ left.major = right.major /\ left.minor < right.minor
    \/ left.major = right.major /\ left.minor = right.minor /\ left.patch < right.patch

ValidVersionRange(range) == ~VersionLess(range.maximum, range.minimum)

AcceptsVersion(allowed, actual) ==
    /\ ValidVersionRange(allowed)
    /\ ~VersionLess(actual, allowed.minimum)
    /\ ~VersionLess(allowed.maximum, actual)

ExactVersion(value) == [minimum |-> value, maximum |-> value]
=============================================================================
