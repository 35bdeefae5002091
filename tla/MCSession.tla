------------------------------- MODULE MCSession -------------------------------
(* Instances of Session for TLC. *)
EXTENDS Session, TLC

SessionSymmetry == Permutations(Req) \union Permutations(Token) \union Permutations(Host)
================================================================================
