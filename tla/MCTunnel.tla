-------------------------------- MODULE MCTunnel --------------------------------
(* Instances of Tunnel for TLC. *)
EXTENDS Tunnel, TLC

TunnelSymmetry == Permutations(Req) \union Permutations(Ssh) \union Permutations(Target)
================================================================================
