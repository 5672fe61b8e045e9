-------------------------------- MODULE MCLockout ------------------------------
(* Small instances of Lockout.  Locks double and are capped, as in the code. *)
EXTENDS Lockout, TLC

CONSTANTS LockSeconds, MaxLockSeconds, BaseDelay, MaxDelay

Smaller(a, b) == IF a <= b THEN a ELSE b
Locks == [n \in 1..3 |-> Smaller(LockSeconds * 2 ^ (n - 1), MaxLockSeconds)]
Delays == [n \in 1..3 |-> Smaller(BaseDelay * 2 ^ (n - 1), MaxDelay)]
\* A bound: of a failure, unlock() and the end of the windows, two in one behaviour.
TwoAtMost == errors + unlocks + tick <= 2
Symmetry == Permutations(Logins) \cup Permutations(Ips)
================================================================================
