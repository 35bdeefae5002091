---------------------------- MODULE MCExecSessions ----------------------------
(* Instances of ExecSessions for TLC. *)
EXTENDS ExecSessions, TLC

SessionSymmetry ==
  Permutations(Ws) \union Permutations(Ip) \union Permutations(Admin)
================================================================================
