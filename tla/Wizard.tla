-------------------------------- MODULE Wizard --------------------------------
(***************************************************************************)
(* The first-run wizard (static/pages/wizard.js) against the requests of   *)
(* routers/setup.py it sends: the token that is generated, copied and      *)
(* submitted, the tunnel, and the window that closes while the wizard is   *)
(* open.                                                                   *)
(*                                                                         *)
(* A step is a click, a timer, an answer, or the server handling a         *)
(* request; answers are lost, and the operator may reload the tab or       *)
(* hide it.  One life of the server, which does not reopen its window.     *)
(* Bounds: Token is the set of tokens that are ever generated, MaxInFlight *)
(* the submissions in flight, where two that are alike count once.         *)
(***************************************************************************)
EXTENDS WizardPromises, FiniteSets, Naturals

CONSTANTS
  Theirs,     \* the token of an operator at another wizard
  Clipboard,  \* whether a write to the clipboard may succeed, and may fail
  MaxInFlight

ASSUME SentinelAssumption == NoToken \notin Token \union {Theirs} /\ Theirs \notin Token

ASSUME BoundAssumption == MaxInFlight \in Nat

ASSUME ClipboardAssumption == Clipboard \subseteq BOOLEAN

VARIABLES
  page,       \* "wizard", or "app" once the tab was loaded with a configured server
  field,      \* #sw-token
  made,       \* the tokens that were generated
  captured,   \* history: the tokens that reached the clipboard or a download
  acked,      \* dataset.tokenAck of the In-memory button
  saveOn,     \* the Save button is enabled
  sessionOn,  \* the In-memory button is enabled
  mode,       \* the tab of the wizard that is open
  host,       \* #sw-host
  tunnel,     \* what #sw-tunnel-status tells
  probing,    \* the probe for a local engine is in flight
  polling,    \* _wizardPollTimer
  ticking,    \* _wizardLocalTick
  polls,      \* the answers about the setup state that are on their way
  visible,    \* document.visibilityState
  submits,    \* submissions in flight
  window,     \* the server's setup window; the last second of it is shown as closed
  rival       \* the setup of another operator has passed its preconditions

tokenVars == <<field, made, taken, captured, acked>>
hostVars == <<mode, host, tunnel, probing>>
clockVars == <<polling, ticking, polls>>
serverVars == <<server, given, window, rival>>
vars == <<page, tokenVars, saveOn, sessionOn, hostVars, clockVars, visible,
          submits, stored, serverVars>>

Place == {"local", "remote"}
Answer == {"open", "closed", "configured"}
Submission == [token : Token, at : {"sent", "ready", "accepted"}, mine : BOOLEAN]

TypeOK ==
  /\ page \in {"wizard", "app"}
  /\ field \in Token \union {NoToken}
  /\ made \subseteq Token /\ taken \subseteq Token /\ captured \subseteq Token
  /\ acked \in BOOLEAN /\ saveOn \in BOOLEAN /\ sessionOn \in BOOLEAN
  /\ mode \in {"local", "tunnel"}
  /\ host \in Place
  /\ tunnel \in {"down", "busy", "opening", "up"}
  /\ probing \in BOOLEAN /\ polling \in BOOLEAN /\ ticking \in BOOLEAN
  /\ polls \subseteq Answer
  /\ visible \in BOOLEAN
  /\ submits \subseteq Submission
  /\ stored \in Token \union {NoToken}
  /\ server \in Token \union {Theirs, NoToken}
  /\ given \subseteq Token
  /\ window \in {"open", "last", "closed"}
  /\ rival \in BOOLEAN

Configured == server # NoToken
InWizard == page = "wizard"

-----------------------------------------------------------------------------
(* The token *)

\* Random, so which one comes next does not matter.
FreshToken == CHOOSE t \in Token : t \notin made

\* Mutant: a new token keeps the acknowledgement of the old one.
GenerateKeepsAck ==
  /\ InWizard
  /\ made # Token
  /\ field' = FreshToken /\ made' = made \union {FreshToken}
  /\ sessionOn' = FALSE
  /\ UNCHANGED <<page, taken, captured, acked, saveOn, hostVars, clockVars, visible, submits,
                 stored, serverVars>>

Generate ==
  /\ InWizard
  /\ made # Token
  /\ field' = FreshToken /\ made' = made \union {FreshToken}
  /\ acked' = FALSE
  /\ sessionOn' = FALSE
  /\ UNCHANGED <<page, taken, captured, saveOn, hostVars, clockVars, visible, submits, stored,
                 serverVars>>

\* The click counts, not the write it starts: the In-memory button unlocks, expired
\* or not, and a write that fails is told on the button's label.
Copy ==
  /\ InWizard
  /\ field # NoToken
  /\ taken' = taken \union {field}
  /\ \E ok \in Clipboard : captured' = IF ok THEN captured \union {field} ELSE captured
  /\ acked' = TRUE
  /\ sessionOn' = TRUE
  /\ UNCHANGED <<page, field, made, saveOn, hostVars, clockVars, visible, submits, stored,
                 serverVars>>

-----------------------------------------------------------------------------
(* The engine *)

\* The local tab puts its own value into #sw-host; the tunnel tab leaves it there.
SetMode(m) ==
  /\ InWizard
  /\ mode' = m
  /\ host' = IF m = "local" THEN "local" ELSE host
  /\ UNCHANGED <<page, tokenVars, saveOn, sessionOn, tunnel, probing, clockVars, visible,
                 submits, stored, serverVars>>

ConnectTunnel ==
  /\ InWizard
  /\ mode = "tunnel"
  /\ tunnel \notin {"busy", "opening"}
  /\ tunnel' = "busy"
  /\ UNCHANGED <<page, tokenVars, saveOn, sessionOn, mode, host, probing, clockVars, visible,
                 submits, stored, serverVars>>

\* start_tunnel: the server is not configured yet, and the pipeline runs.
TunnelAdmitted ==
  /\ tunnel = "busy"
  /\ ~Configured
  /\ tunnel' = "opening"
  /\ UNCHANGED <<page, tokenVars, saveOn, sessionOn, mode, host, probing, clockVars, visible,
                 submits, stored, serverVars>>

\* Refused, failed or lost; or open, whoever has configured the server since.
TunnelAnswered ==
  /\ \/ tunnel = "opening" /\ tunnel' = "up" /\ host' = "remote"
     \/ tunnel \in {"busy", "opening"} /\ tunnel' = "down" /\ UNCHANGED host
  /\ UNCHANGED <<page, tokenVars, saveOn, sessionOn, mode, probing, clockVars, visible,
                 submits, stored, serverVars>>

\* An engine that was found becomes the value of #sw-host, on either tab.
ProbeAnswered ==
  /\ probing
  /\ probing' = FALSE
  /\ \/ host' = "local"
     \/ UNCHANGED host
  /\ UNCHANGED <<page, tokenVars, saveOn, sessionOn, mode, tunnel, clockVars, visible,
                 submits, stored, serverVars>>

-----------------------------------------------------------------------------
(* The window *)

\* Mutant: the local ticker is started with the wizard only.
OpenedNoTicker ==
  /\ saveOn' = TRUE
  /\ sessionOn' = (sessionOn \/ acked)
  /\ UNCHANGED <<ticking, polling>>

\* _applyWizardState: the window is open, and the ticker runs towards its end.
Opened ==
  /\ saveOn' = TRUE
  /\ sessionOn' = (sessionOn \/ acked)
  /\ ticking' = TRUE
  /\ UNCHANGED polling

\* _applyWizardState: the window has closed, and both timers stop.
Closed ==
  /\ saveOn' = FALSE
  /\ sessionOn' = FALSE
  /\ ticking' = FALSE
  /\ polling' = FALSE

\* setup_state, which counts whole seconds that remain.
Answered ==
  IF Configured THEN "configured" ELSE IF window = "open" THEN "open" ELSE "closed"

Ask == polls' = polls \union {Answered}

Poll ==
  /\ InWizard
  /\ polling
  /\ visible
  /\ Ask
  /\ UNCHANGED <<page, tokenVars, saveOn, sessionOn, hostVars, polling, ticking, visible,
                 submits, stored, serverVars>>

PollAnswered(a) ==
  /\ a \in polls
  /\ polls' = polls \ {a}
  /\ \/ a = "open" /\ Opened
     \/ a = "closed" /\ Closed
     \/ /\ a = "configured"
        /\ polling' = FALSE
        /\ UNCHANGED <<ticking, saveOn, sessionOn>>
  /\ UNCHANGED <<page, tokenVars, hostVars, visible, submits, stored, serverVars>>

PollLost(a) ==
  /\ a \in polls
  /\ polls' = polls \ {a}
  /\ UNCHANGED <<page, tokenVars, saveOn, sessionOn, hostVars, polling, ticking, visible,
                 submits, stored, serverVars>>

\* The ticker's deadline was the server's, in whole seconds, when the answer was
\* written, and is later by the time the answer took.
LocalExpiry ==
  /\ ticking
  /\ window # "open"
  /\ Closed
  /\ UNCHANGED <<page, tokenVars, hostVars, polls, visible, submits, stored, serverVars>>

-----------------------------------------------------------------------------
(* Submission *)

\* The engine that is submitted with the token, which no property of this module
\* follows further (see DockerClient and Tunnel).
HostSent == IF mode = "tunnel" THEN host ELSE "local"

\* In tunnel mode only the status line is looked at; nothing keeps a second click
\* from sending again.
Submit ==
  /\ InWizard
  /\ field # NoToken
  /\ mode = "tunnel" => tunnel = "up"
  /\ \/ saveOn /\ taken' = taken \union {field} /\ captured' = captured \union {field}
     \/ sessionOn /\ UNCHANGED <<taken, captured>>
  /\ submits' = submits \union {[token |-> field, at |-> "sent", mine |-> TRUE]}
  /\ Cardinality(submits') <= MaxInFlight
  /\ UNCHANGED <<page, field, made, acked, saveOn, sessionOn, hostVars, clockVars, visible,
                 stored, serverVars>>

At(place) == {s \in submits : s.at = place}

Move(s, place) == submits' = (submits \ {s}) \union {[s EXCEPT !.at = place]}

Forget(s) == submits' = submits \ {s}

\* do_setup, its preconditions: the window is open and nothing is configured yet.
\* Another request may be between the two steps at the same time.
Admit(s) ==
  /\ s \in At("sent")
  /\ window # "closed"
  /\ ~Configured
  /\ Move(s, "ready")
  /\ UNCHANGED <<page, tokenVars, saveOn, sessionOn, hostVars, clockVars, visible, stored,
                 serverVars>>

\* _apply_setup; a document that is gone hears no answer.
Apply(s) ==
  /\ s \in At("ready")
  /\ server' = s.token
  /\ given' = given \union {s.token}
  /\ IF s.mine THEN Move(s, "accepted") ELSE Forget(s)
  /\ UNCHANGED <<page, tokenVars, saveOn, sessionOn, hostVars, clockVars, visible, stored,
                 window, rival>>

\* The document is left: its timers and its callbacks go, the requests that are
\* under way may still be served.
Leave ==
  /\ polls' = {}
  /\ submits' = {[s EXCEPT !.mine = FALSE] : s \in submits \ At("accepted")}

Gone ==
  /\ page' = "app"
  /\ Leave
  /\ saveOn' = FALSE /\ sessionOn' = FALSE
  /\ polling' = FALSE /\ ticking' = FALSE
  /\ tunnel' = "down" /\ probing' = FALSE
  /\ field' = NoToken /\ acked' = FALSE
  /\ mode' = "local" /\ host' = "local"
  /\ UNCHANGED <<made, taken, captured>>

\* Mutant: the token is read from its field after the await.
AcceptedField(s) ==
  /\ s \in At("accepted")
  /\ stored' = field
  /\ Gone
  /\ UNCHANGED <<visible, serverVars>>

\* The token that was sent is stored, and the tab reloads.
Accepted(s) ==
  /\ s \in At("accepted")
  /\ stored' = s.token
  /\ Gone
  /\ UNCHANGED <<visible, serverVars>>

\* Refused, by do_setup or for too many attempts, or lost on the way there or back.
Dropped(s) ==
  /\ s \in submits
  /\ Forget(s)
  /\ UNCHANGED <<page, tokenVars, saveOn, sessionOn, hostVars, clockVars, visible, stored,
                 serverVars>>

-----------------------------------------------------------------------------
(* The tab, the clock and the other operators *)

\* showSetupWizard with the state the server answers: a tunnel that is up opens its
\* tab; the poll timer is armed even if the window has closed.
Fresh(up) ==
  /\ field' = NoToken
  /\ acked' = FALSE
  /\ mode' = (IF up THEN "tunnel" ELSE "local")
  /\ host' = (IF up THEN "remote" ELSE "local")
  /\ tunnel' = (IF up THEN "up" ELSE "down")
  /\ probing' = TRUE
  /\ saveOn' = (window = "open") /\ ticking' = (window = "open")
  /\ sessionOn' = FALSE
  /\ polling' = TRUE
  /\ UNCHANGED <<page, made, taken, captured>>

Reload ==
  /\ InWizard
  /\ IF Configured
       THEN Gone
       ELSE Leave /\ \E up \in BOOLEAN : Fresh(up)
  /\ UNCHANGED <<visible, stored, serverVars>>

HideTab ==
  /\ visible
  /\ visible' = FALSE
  /\ UNCHANGED <<page, tokenVars, saveOn, sessionOn, hostVars, clockVars, submits, stored,
                 serverVars>>

\* The tab that is shown again asks at once, whatever its timers.
ShowTab ==
  /\ ~visible
  /\ visible' = TRUE
  /\ IF InWizard THEN Ask ELSE UNCHANGED polls
  /\ UNCHANGED <<page, tokenVars, saveOn, sessionOn, hostVars, polling, ticking,
                 submits, stored, serverVars>>

WindowCloses ==
  /\ \/ window = "open" /\ window' = "last"
     \/ window = "last" /\ window' = "closed"
  /\ UNCHANGED <<page, tokenVars, saveOn, sessionOn, hostVars, clockVars, visible,
                 submits, stored, server, given, rival>>

\* do_setup at another wizard, in the same two steps: what it found not configured
\* may be configured by the time it writes.
OtherAdmitted ==
  /\ window # "closed"
  /\ ~Configured
  /\ ~rival
  /\ rival' = TRUE
  /\ UNCHANGED <<page, tokenVars, saveOn, sessionOn, hostVars, clockVars, visible,
                 submits, stored, server, given, window>>

OtherConfigures ==
  /\ rival
  /\ rival' = FALSE
  /\ server' = Theirs
  /\ UNCHANGED <<page, tokenVars, saveOn, sessionOn, hostVars, clockVars, visible,
                 submits, stored, given, window>>

-----------------------------------------------------------------------------

\* The wizard was opened in time, with a tunnel from an earlier visit or without.
Init ==
  /\ page = "wizard"
  /\ field = NoToken /\ made = {} /\ taken = {} /\ captured = {}
  /\ acked = FALSE
  /\ saveOn = TRUE /\ sessionOn = FALSE
  /\ \/ mode = "local" /\ host = "local" /\ tunnel = "down"
     \/ mode = "tunnel" /\ host = "remote" /\ tunnel = "up"
  /\ probing = TRUE
  /\ polling = TRUE /\ ticking = TRUE /\ polls = {}
  /\ visible = TRUE
  /\ submits = {}
  /\ stored = NoToken
  /\ server = NoToken /\ given = {}
  /\ window = "open" /\ rival = FALSE

Next ==
  \/ Generate \/ Copy \/ ConnectTunnel \/ TunnelAdmitted \/ TunnelAnswered
  \/ ProbeAnswered
  \/ \E m \in {"local", "tunnel"} : SetMode(m)
  \/ Poll \/ LocalExpiry
  \/ \E a \in Answer : PollAnswered(a) \/ PollLost(a)
  \/ Submit
  \/ \E s \in submits : Admit(s) \/ Apply(s) \/ Accepted(s) \/ Dropped(s)
  \/ Reload \/ HideTab \/ ShowTab \/ WindowCloses \/ OtherAdmitted \/ OtherConfigures

Spec == Init /\ [][Next]_vars

\* The local ticker fires, in a hidden tab too.  Nothing is assumed of answers.
FairSpec == Spec /\ WF_vars(LocalExpiry)

-----------------------------------------------------------------------------
(* Properties, besides those of WizardPromises *)

\* "This prevents the footgun where a generated token is saved server-side but the
\* user closes the tab without capturing it": it does where writes to the clipboard
\* succeed.  Where one may fail, its Copy has unlocked In-memory all the same.
TokenIsCaptured == server \in Token => server \in captured

\* A wizard whose window has closed comes to show it, and for good: an answer from
\* before the end does not leave Save unlocked.
ExpiryIsShown == <>[](window # "open") => <>[](InWizard => ~saveOn)
=============================================================================
