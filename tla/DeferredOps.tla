------------------------------ MODULE DeferredOps ------------------------------
(***************************************************************************)
(* What the undo queue promises about one destructive operation, with no   *)
(* locks, timers or threads: the operation is either run at once, or held  *)
(* back and then cancelled, executed, dropped because the instance became  *)
(* read-only, or lost with the process.  Nothing ever leaves one of the    *)
(* final states, so it never runs twice and never after it was cancelled.  *)
(* UndoQueue implements this module.                                       *)
(***************************************************************************)
CONSTANT Token          \* the operations, named by their undo tokens

VARIABLES status,       \* status[t]: where operation t stands
          alive         \* the process that holds the operations exists

vars == <<status, alive>>

Status == {"idle", "held", "executed", "cancelled", "dropped", "lost"}

TypeOK ==
  /\ status \in [Token -> Status]
  /\ alive \in BOOLEAN

Init ==
  /\ status = [t \in Token |-> "idle"]
  /\ alive = TRUE

\* The destroy was requested with undo and is held for the undo window.
Hold(t) ==
  /\ alive
  /\ status[t] = "idle"
  /\ status' = [status EXCEPT ![t] = "held"]
  /\ UNCHANGED alive

\* Undo disabled, or no room to hold it: executed inside its own request.
ExecuteNow(t) ==
  /\ alive
  /\ status[t] = "idle"
  /\ status' = [status EXCEPT ![t] = "executed"]
  /\ UNCHANGED alive

\* A held operation is settled once, in one of three ways.
Settle(t, how) ==
  /\ alive
  /\ status[t] = "held"
  /\ how \in {"executed", "cancelled", "dropped"}
  /\ status' = [status EXCEPT ![t] = how]
  /\ UNCHANGED alive

\* The process ends: what it still holds is gone with it.
Stop ==
  /\ alive
  /\ alive' = FALSE
  /\ status' = [t \in Token |-> IF status[t] = "held" THEN "lost" ELSE status[t]]

Next ==
  \/ \E t \in Token : Hold(t) \/ ExecuteNow(t)
  \/ \E t \in Token, how \in Status : Settle(t, how)
  \/ Stop

Spec == Init /\ [][Next]_vars

\* What an operation has come to is final.
Final == {"executed", "cancelled", "dropped", "lost"}
FinalStays == [][\A t \in Token : status[t] \in Final => status'[t] = status[t]]_vars

\* No operation is held for ever (refined under the fairness of the threads
\* that hold it).
Settled == \A t \in Token : (status[t] = "held") ~> (status[t] # "held")
================================================================================
