------------------------------- MODULE MCLockout -------------------------------
(* Instances of Lockout for TLC. *)
EXTENDS Lockout, TLC

AttemptSymmetry == Permutations(Attempt)
================================================================================
