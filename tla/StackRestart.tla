----------------------------- MODULE StackRestart ------------------------------
(***************************************************************************)
(* The button "Restart all" of a stack (static/pages/compose.js) over the  *)
(* compose router: the browser takes the stack down at once, without the   *)
(* undo window, and when that has succeeded deploys the project again with *)
(* a form that holds no file.                                              *)
(***************************************************************************)
EXTENDS Compose

VARIABLES
  phase,   \* where the restart stands
  by,      \* the request it waits for
  had,     \* the project's file when the button was pressed
  left     \* its file when the restart was over
restartVars == <<phase, by, had, left>>

Phases == {"none", "down", "torn", "up", "over"}
RestartTypeOK ==
  /\ TypeOK
  /\ phase \in Phases /\ by \in Req \union {NoReq} /\ had \in File /\ left \in File

RestartInit == Init /\ phase = "none" /\ by = NoReq /\ had = NoYaml /\ left = NoYaml

Waiting == phase \in {"down", "torn", "up"}

\* The card of a stack with its file; the teardown is not held.
Press(r) ==
  /\ phase \in {"none", "over"} /\ stack # NoYaml /\ yaml # NoYaml
  /\ Ask(r, "down") /\ pc'[r] = "looking"
  /\ phase' = "down" /\ by' = r /\ had' = yaml
  /\ UNCHANGED left

\* The second request of the chain: compose/up without a file.
Torn ==
  /\ phase = "torn" /\ pc[by] = "idle"
  /\ AskUp(by, NoYaml)
  /\ phase' = "up" /\ UNCHANGED <<by, had, left>>

\* An answer that ends the chain: the teardown failed, or the deployment is over.
Over ==
  /\ phase \in {"down", "up"} /\ pc[by] = "idle"
  /\ phase' = "over" /\ left' = yaml
  /\ UNCHANGED <<by, had, vars>>

\* The server, and the requests of others; the browser waits for its own.
Serve ==
  /\ Next
  /\ Waiting /\ pc[by] = "idle" => pc'[by] = "idle"
  /\ phase' = IF phase = "down" /\ pc'[by] = "removing" THEN "torn" ELSE phase
  /\ UNCHANGED <<by, had, left>>

RestartNext == (\E r \in Req : Press(r)) \/ Torn \/ Over \/ Serve

RestartSpec == RestartInit /\ [][RestartNext]_<<vars, restartVars>>
--------------------------------------------------------------------------------
(* compose.js: "since they asked for a restart, not a teardown".  With nobody else *)
(* at work on the project, a restart that is over, however its commands went, has  *)
(* left the project the file it had, so that the stack can be started again.       *)
RestartIsNoTeardown == phase = "over" => left = had
================================================================================
