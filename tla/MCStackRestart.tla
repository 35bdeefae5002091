----------------------------- MODULE MCStackRestart ----------------------------
(* Instance of StackRestart for TLC. *)
EXTENDS StackRestart
================================================================================
