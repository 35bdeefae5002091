------------------------------- MODULE MCCompose -------------------------------
(* Instances of Compose for TLC. *)
EXTENDS Compose, TLC

ComposeSymmetry == Permutations(Req) \union Permutations(Yaml)
================================================================================
