----------------------------- MODULE MCWatchdog -----------------------------
(* Small instances of Watchdog.tla for TLC: one unit is 30 seconds.        *)
EXTENDS Watchdog, TLC

CONSTANTS i1, i2

Symmetric == Permutations({i1, i2})

=============================================================================
