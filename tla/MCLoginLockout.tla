---------------------------- MODULE MCLoginLockout ----------------------------
(* LoginLockout on small instances; the requests are interchangeable. *)
EXTENDS LoginLockout, TLC

CONSTANTS r1, r2, r3

Symmetry == Permutations(Requests)
=============================================================================
