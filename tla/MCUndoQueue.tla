------------------------------ MODULE MCUndoQueue ------------------------------
(* Instances of UndoQueue for TLC. *)
EXTENDS UndoQueue, TLC

================================================================================
