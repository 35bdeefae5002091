---------------------------- MODULE MCDockerClient ----------------------------
(* Instances of DockerClient for TLC. *)
EXTENDS DockerClient, TLC

ObjectSymmetry ==
  Permutations(Thread) \union Permutations(Client) \union Permutations(Host)
================================================================================
