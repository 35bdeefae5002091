----------------------------- MODULE WizardPromises -----------------------------
(***************************************************************************)
(* What the first-run wizard promises about the token it configures the   *)
(* server with, over the four places a token is in: taken by the operator, *)
(* in the session storage of the tab, on the server, and in the server's  *)
(* past.  Wizard is the mechanism.                                        *)
(***************************************************************************)
CONSTANTS
  Token,
  NoToken

VARIABLES
  taken,   \* the tokens the operator clicked Copy for, or downloaded
  stored,  \* api_token in the session storage
  server,  \* the server's token
  given    \* the tokens of this wizard it was ever configured with

\* The server never runs with a token of this wizard that the operator has neither
\* acknowledged with a click on Copy nor downloaded, however generating, copying,
\* polling, submitting and losing answers interleave ("user must acknowledge (Copy or
\* Save .env)"); a Copy counts whether or not the clipboard takes the token.
TokenIsTaken == server \in Token => server \in taken

\* The tab signs in with a token the server was given, never with one that was
\* generated or submitted since and refused.
StoredWasGiven == stored # NoToken => stored \in given
--------------------------------------------------------------------------------
(* The hand-over of a token, with no fields, buttons or requests. *)

promised == <<taken, stored, server, given>>

HandoverInit == taken = {} /\ stored = NoToken /\ given = {} /\ server = NoToken

\* The operator acknowledges a token.
Take(t) == taken' = taken \union {t} /\ UNCHANGED <<stored, server, given>>

\* The server is configured with a token that was taken before, over whatever it had.
Configure(t) ==
  /\ t \in taken
  /\ server' = t /\ given' = given \union {t}
  /\ UNCHANGED <<taken, stored>>

\* The tab signs in with a token the server was given before.
SignIn(t) ==
  /\ t \in given
  /\ stored' = t
  /\ UNCHANGED <<taken, server, given>>

\* The server is configured from elsewhere, and may lose a token of this wizard.
ConfigureElsewhere ==
  /\ server' \notin Token \union {NoToken}
  /\ UNCHANGED <<taken, stored, given>>

Handover ==
  /\ HandoverInit
  /\ [][ (\E t \in Token : Take(t) \/ Configure(t) \/ SignIn(t)) \/ ConfigureElsewhere ]_promised
================================================================================
