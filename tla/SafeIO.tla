------------------------------- MODULE SafeIO -------------------------------
(***************************************************************************)
(* What the code uses of the safeio library: the bounds check every parser *)
(* makes before it takes a slice, and the loop guard.                      *)
(***************************************************************************)
EXTENDS Integers

\* safeio.CheckBounds: the size bytes from off lie inside total bytes.
CheckBounds(off, size, total) ==
    /\ off >= 0 /\ size >= 0
    /\ off <= total
    /\ size <= total - off

\* safeio.NewLoopGuard(limit): Next fails once it was called limit times.
GuardTrips(calls, limit) == calls >= limit
=============================================================================
