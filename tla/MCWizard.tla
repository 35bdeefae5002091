------------------------------- MODULE MCWizard -------------------------------
(* Instances of Wizard for TLC. *)
EXTENDS Wizard

\* Besides, the poll timer fires and each poll is answered or given up.
PolledSpec ==
  /\ FairSpec /\ WF_vars(Poll)
  /\ \A a \in Answer : WF_vars(PollAnswered(a) \/ PollLost(a))

(***************************************************************************)
(* What the wizard tells and does not keep; each is violated under        *)
(* WizardDisagreements.                                                    *)
(***************************************************************************)

\* "default to SSH Tunnel tab with the live socket as the host": a setup submitted
\* from the tunnel tab is for the remote engine.  The answer of the probe, or a look
\* at the other tab, has put the local one into #sw-host.
WizardTunnelHost ==
  [][Submit /\ mode = "tunnel" => HostSent = "remote"]_vars

\* "already configured": a second setup is refused, so the tab that stores the token
\* of the first can sign in.  Two requests pass the preconditions together.
WizardStoredIsServers == stored # NoToken => stored = server

\* "Wizard completed - stop polling and let app.js re-render": it does not.
WizardReRenders == server = Theirs /\ visible ~> ~InWizard \/ ~visible

\* An expired wizard has both its buttons locked.  Copy unlocks one of them.
WizardExpiredLocks == <>[](window # "open") => <>[](InWizard => ~sessionOn)
=============================================================================
