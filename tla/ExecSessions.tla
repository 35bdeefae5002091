------------------------------ MODULE ExecSessions ------------------------------
(***************************************************************************)
(* skiff/routers/containers_ws.py: the handlers of /ws/exec and /ws/logs,  *)
(* with what runs against them: the switch to the reviewer profile and its *)
(* sweep of exec sessions, the keepalive that revalidates the token bound  *)
(* at the handshake, token rotation, reset-config, the wizard and the      *)
(* editable per-IP limit.  A handler runs on the event loop; reset-config  *)
(* and the knob editor run on threads of the pool, so every section under  *)
(* _ws_lock is a step of its own.                                          *)
(***************************************************************************)
EXTENDS Integers, FiniteSets

CONSTANTS
  Ws,             \* WebSocket connections
  Ip,             \* client addresses
  Admin,          \* concurrent POST /api/profile/enter-reviewer requests
  Token,          \* values of api_token
  Limits,         \* values WS_MAX_PER_IP may be edited to
  BootReviewer,   \* config._BOOT_PROFILE = "reviewer"
  NoToken         \* the empty token

ASSUME WsAssumption == IsFiniteSet(Ws)
ASSUME TokenAssumption == NoToken \notin Token
ASSUME LimitAssumption == Limits # {} /\ Limits \subseteq Nat
ASSUME ProfileAssumption == BootReviewer \in BOOLEAN

VARIABLES
  pc,         \* pc[w]: where the handler of w stands
  sock,       \* sock[w]: the WebSocket as the server sees it
  kind,       \* kind[w]: "exec" or "logs"
  ip,         \* ip[w]: websocket.client.host
  bound,      \* bound[w]: websocket.state.auth_token
  inflight,   \* exec sockets with a message read and not yet sent to the shell
  slots,      \* _ws_connections
  active,     \* _active_exec_ws
  limit,      \* config.WS_MAX_PER_IP
  reviewer,   \* config.PROFILE = "reviewer"
  token,      \* config._cfg.api_token
  switch,     \* switch[a]: where enter_reviewer_mode stands
  sweep,      \* sweep[a]: sessions its gather has still to close
  resetting   \* reset_config is between clearing the token and the profile

handlerVars == <<pc, kind, ip, bound, inflight>>
sharedVars  == <<slots, active>>
switchVars  == <<switch, sweep>>
configVars  == <<limit, reviewer, token, resetting>>
vars == <<handlerVars, sock, sharedVars, switchVars, configVars>>

Phases == {"new", "accepted", "authed", "checked", "acquired", "refused",
           "opening", "live", "ending", "releasing", "closed"}
HoldsSlot == {"acquired", "refused", "opening", "live", "ending", "releasing"}

TypeOK ==
  /\ pc \in [Ws -> Phases]
  /\ sock \in [Ws -> {"open", "closed"}]
  /\ kind \in [Ws -> {"exec", "logs"}]
  /\ ip \in [Ws -> Ip]
  /\ bound \in [Ws -> Token \union {NoToken}]
  /\ inflight \subseteq Ws
  /\ slots \in [Ip -> Nat]
  /\ active \subseteq Ws
  /\ limit \in Limits
  /\ reviewer \in BOOLEAN
  /\ token \in Token \union {NoToken}
  /\ switch \in [Admin -> {"idle", "flipped", "closing"}]
  /\ sweep \in [Admin -> SUBSET Ws]
  /\ resetting \in BOOLEAN

Init ==
  /\ pc = [w \in Ws |-> "new"]
  /\ sock = [w \in Ws |-> "closed"]
  /\ kind \in [Ws -> {"exec", "logs"}]
  /\ ip \in [Ws -> Ip]
  /\ bound = [w \in Ws |-> NoToken]
  /\ inflight = {}
  /\ slots = [i \in Ip |-> 0]
  /\ active = {}
  /\ limit \in Limits
  /\ reviewer = BootReviewer
  /\ token \in Token \union {NoToken}
  /\ switch = [a \in Admin |-> "idle"]
  /\ sweep = [a \in Admin |-> {}]
  /\ resetting = FALSE

ReadOnly == reviewer /\ token # NoToken
Step(w, from, to) == pc[w] = from /\ pc' = [pc EXCEPT ![w] = to]
Close(w) == sock' = [sock EXCEPT ![w] = "closed"]
--------------------------------------------------------------------------------
(* The handshake. *)

\* The query, the origin and the container id are accepted, and so is the
\* upgrade; without a server token there is nothing to authenticate.  The object
\* of an earlier connection is not in use any more.
Connect(w) ==
  /\ pc[w] \in {"new", "closed"} /\ w \notin inflight
  /\ \A a \in Admin : w \notin sweep[a]
  /\ pc' = [pc EXCEPT ![w] = IF token = NoToken THEN "authed" ELSE "accepted"]
  /\ sock' = [sock EXCEPT ![w] = "open"]
  /\ bound' = [bound EXCEPT ![w] = NoToken]
  /\ UNCHANGED <<kind, ip, inflight, sharedVars, switchVars, configVars>>

\* The AUTH message carries the server's token, as it is by then.
AuthSucceeds(w) ==
  /\ Step(w, "accepted", "authed")
  /\ token # NoToken
  /\ bound' = [bound EXCEPT ![w] = token]
  /\ UNCHANGED <<sock, kind, ip, inflight, sharedVars, switchVars, configVars>>

\* A lockout, no AUTH message in time, a wrong token, an expired session.
AuthFails(w) ==
  /\ Step(w, "accepted", "closed")
  /\ Close(w)
  /\ UNCHANGED <<kind, ip, bound, inflight, sharedVars, switchVars, configVars>>

\* exec_shell, phase 1: the profile is read without the lock.
Precheck(w) ==
  /\ IF kind[w] = "exec" /\ reviewer
       THEN Step(w, "authed", "closed") /\ Close(w)
       ELSE Step(w, "authed", "checked") /\ UNCHANGED sock
  /\ UNCHANGED <<kind, ip, bound, inflight, sharedVars, switchVars, configVars>>
--------------------------------------------------------------------------------
(* Slots and registration. *)

\* _ws_acquire
Acquire(w) ==
  /\ IF slots[ip[w]] >= limit
       THEN Step(w, "checked", "closed") /\ Close(w) /\ UNCHANGED slots
       ELSE /\ Step(w, "checked", "acquired")
            /\ slots' = [slots EXCEPT ![ip[w]] = @ + 1]
            /\ UNCHANGED sock
  /\ UNCHANGED <<kind, ip, bound, inflight, active, switchVars, configVars>>

\* mutants: the profile is not read again; the registry is not written; the
\* refusal forgets the slot.
RegisterUnchecked(w) ==
  /\ Step(w, "acquired", "opening")
  /\ active' = IF kind[w] = "exec" THEN active \union {w} ELSE active
  /\ UNCHANGED <<sock, kind, ip, bound, inflight, slots, switchVars, configVars>>
RegisterOmits(w) ==
  /\ Step(w, "acquired", IF kind[w] = "exec" /\ reviewer THEN "refused" ELSE "opening")
  /\ UNCHANGED <<sock, kind, ip, bound, inflight, slots, active, switchVars, configVars>>
RegisterForgetsSlot(w) ==
  /\ IF kind[w] = "exec" /\ reviewer
       THEN Step(w, "acquired", "closed") /\ UNCHANGED active
       ELSE /\ Step(w, "acquired", "opening")
            /\ active' = IF kind[w] = "exec" THEN active \union {w} ELSE active
  /\ UNCHANGED <<sock, kind, ip, bound, inflight, slots, switchVars, configVars>>

\* _try_register_exec_ws: re-check and insertion under one lock.
Register(w) ==
  /\ IF kind[w] = "exec" /\ reviewer
       THEN Step(w, "acquired", "refused") /\ UNCHANGED active
       ELSE /\ Step(w, "acquired", "opening")
            /\ active' = IF kind[w] = "exec" THEN active \union {w} ELSE active
  /\ UNCHANGED <<sock, kind, ip, bound, inflight, slots, switchVars, configVars>>

\* _ws_release, then the socket is closed.
Release(w) ==
  /\ Step(w, "refused", "closed") \/ Step(w, "releasing", "closed")
  /\ slots' = [slots EXCEPT ![ip[w]] = IF @ > 0 THEN @ - 1 ELSE 0]
  /\ Close(w)
  /\ UNCHANGED <<kind, ip, bound, inflight, active, switchVars, configVars>>
--------------------------------------------------------------------------------
(* The session. *)

\* get_client, the container, the shell: found or not.  Nothing looks at the
\* socket meanwhile.
SessionOpens(w) ==
  /\ Step(w, "opening", "live") \/ Step(w, "opening", "ending")
  /\ UNCHANGED <<sock, kind, ip, bound, inflight, sharedVars, switchVars, configVars>>

\* _exec_pump_input reads a message; receive_text raises on a closed socket.
Receive(w) ==
  /\ pc[w] = "live" /\ kind[w] = "exec" /\ sock[w] = "open" /\ w \notin inflight
  /\ inflight' = inflight \union {w}
  /\ UNCHANGED <<pc, kind, ip, bound, sock, sharedVars, switchVars, configVars>>

\* sendall on a thread of the executor, which a cancelled task leaves running.
Forward(w) ==
  /\ w \in inflight
  /\ inflight' = inflight \ {w}
  /\ UNCHANGED <<pc, kind, ip, bound, sock, sharedVars, switchVars, configVars>>

\* A pump ended: the peer left, the shell exited, idle timeout, oversized input.
\* The exec session closes the socket itself.
SessionEnds(w) ==
  /\ Step(w, "live", "ending")
  /\ IF kind[w] = "exec" THEN Close(w) ELSE sock[w] = "closed" /\ UNCHANGED sock
  /\ UNCHANGED <<kind, ip, bound, inflight, sharedVars, switchVars, configVars>>

\* mutant: set.remove instead of set.discard raises when the sweep was first.
UnregisterRemoves(w) ==
  /\ Step(w, "ending", "releasing")
  /\ kind[w] = "exec" => w \in active
  /\ active' = active \ {w}
  /\ UNCHANGED <<sock, kind, ip, bound, inflight, slots, switchVars, configVars>>

\* The finally: _unregister_exec_ws.
Unregister(w) ==
  /\ Step(w, "ending", "releasing")
  /\ active' = active \ {w}
  /\ UNCHANGED <<sock, kind, ip, bound, inflight, slots, switchVars, configVars>>

PeerLeaves(w) ==
  /\ sock[w] = "open"
  /\ Close(w)
  /\ UNCHANGED <<handlerVars, sharedVars, switchVars, configVars>>

\* mutant: the keepalive only looks at the session's age.
RevalidateAgeOnly(w) ==
  /\ pc[w] = "live" /\ sock[w] = "open"
  /\ bound[w] # NoToken /\ token = NoToken
  /\ Close(w)
  /\ UNCHANGED <<handlerVars, sharedVars, switchVars, configVars>>

\* ws_keepalive, _ws_revalidate: closes with 4003 if both tokens are there and
\* differ; otherwise nothing happens.
Revalidate(w) ==
  /\ pc[w] = "live" /\ sock[w] = "open"
  /\ bound[w] # NoToken /\ token # NoToken /\ bound[w] # token
  /\ Close(w)
  /\ UNCHANGED <<handlerVars, sharedVars, switchVars, configVars>>

\* _check_session_age of the same revalidation.
SessionExpires(w) ==
  /\ pc[w] = "live" /\ sock[w] = "open"
  /\ Close(w)
  /\ UNCHANGED <<handlerVars, sharedVars, switchVars, configVars>>
--------------------------------------------------------------------------------
(* POST /api/profile/enter-reviewer. *)

EnterFlip(a) ==
  /\ switch[a] = "idle" /\ ~ReadOnly
  /\ reviewer' = TRUE
  /\ switch' = [switch EXCEPT ![a] = "flipped"]
  /\ UNCHANGED <<handlerVars, sock, sharedVars, sweep, limit, token, resetting>>

\* close_active_exec_sessions: listed and cleared under the lock ...
EnterSnapshot(a) ==
  /\ switch[a] = "flipped"
  /\ sweep' = [sweep EXCEPT ![a] = active]
  /\ active' = {}
  /\ switch' = [switch EXCEPT ![a] = "closing"]
  /\ UNCHANGED <<handlerVars, sock, slots, configVars>>

\* ... and closed in any order.
EnterClose(a, w) ==
  /\ switch[a] = "closing" /\ w \in sweep[a]
  /\ Close(w)
  /\ sweep' = [sweep EXCEPT ![a] = @ \ {w}]
  /\ UNCHANGED <<handlerVars, sharedVars, switch, configVars>>

EnterAnswers(a) ==
  /\ switch[a] = "closing" /\ sweep[a] = {}
  /\ switch' = [switch EXCEPT ![a] = "idle"]
  /\ UNCHANGED <<handlerVars, sock, sharedVars, sweep, configVars>>
--------------------------------------------------------------------------------
(* The configuration. *)

\* reset-config clears the token, stops the tunnel (seconds), then restores the
\* boot profile.
ResetToken ==
  /\ token # NoToken /\ ~resetting
  /\ token' = NoToken /\ resetting' = TRUE
  /\ UNCHANGED <<handlerVars, sock, sharedVars, switchVars, limit, reviewer>>

ResetProfile ==
  /\ resetting
  /\ reviewer' = BootReviewer /\ resetting' = FALSE
  /\ UNCHANGED <<handlerVars, sock, sharedVars, switchVars, limit, token>>

\* The wizard sets a token; rotate-token replaces it.
SetToken ==
  /\ ~ReadOnly
  /\ token' \in Token \ {token}
  /\ UNCHANGED <<handlerVars, sock, sharedVars, switchVars, limit, reviewer, resetting>>

EditLimit ==
  /\ ~ReadOnly
  /\ limit' \in Limits
  /\ UNCHANGED <<handlerVars, sock, sharedVars, switchVars, reviewer, token, resetting>>
--------------------------------------------------------------------------------
Handler(w) ==
  \/ AuthSucceeds(w) \/ AuthFails(w) \/ Precheck(w)
  \/ Acquire(w) \/ Register(w) \/ Release(w)
  \/ SessionOpens(w) \/ Unregister(w)
Pumps(w) == Receive(w) \/ Forward(w) \/ SessionEnds(w)
Cuts(w) == PeerLeaves(w) \/ Revalidate(w) \/ SessionExpires(w)
Enter(a) == EnterFlip(a) \/ EnterSnapshot(a) \/ EnterAnswers(a) \/ \E w \in Ws : EnterClose(a, w)
Config == ResetToken \/ ResetProfile \/ SetToken \/ EditLimit

Next ==
  \/ \E w \in Ws : Connect(w) \/ Handler(w) \/ Pumps(w) \/ Cuts(w)
  \/ \E a \in Admin : Enter(a)
  \/ Config

Spec == Init /\ [][Next]_vars

\* The event loop runs every task that is ready: a handler between two awaits, a
\* pump whose socket is gone, the keepalive, whose interval always elapses, the
\* sweep of a switch.
\* Nothing obliges a peer, an administrator or a shell to act.
FairSpec ==
  /\ Spec
  /\ \A w \in Ws : /\ WF_vars(Handler(w))
                   /\ WF_vars(SessionEnds(w) /\ sock[w] = "closed")
                   /\ WF_vars(Revalidate(w))
  /\ \A a \in Admin : WF_vars(EnterSnapshot(a) \/ \E w \in Ws : EnterClose(a, w))
--------------------------------------------------------------------------------
(* Properties *)

\* The per-IP counter is the number of handlers that hold a slot, in every
\* interleaving of acquires, refusals and finally blocks
\* (tests/test_state_transitions.py, WsCounterFSM: "unmatched acquires").
SlotsMatch ==
  \A i \in Ip : slots[i] = Cardinality({w \in Ws : ip[w] = i /\ pc[w] \in HoldsSlot})

\* Once the instance is in the reviewer profile and every switch has been
\* answered, no exec session has an open socket: neither one the sweep missed
\* nor one that was between its first check and its registration.
Switching == \E a \in Admin : switch[a] # "idle"
ShellReachable(w) == kind[w] = "exec" /\ pc[w] \in {"opening", "live"} /\ sock[w] = "open"
ReviewerHasNoShell == reviewer /\ ~Switching => \A w \in Ws : ~ShellReachable(w)

\* While a switch is under way only sessions it is about to close are reachable.
SweepCovers ==
  \A w \in Ws : ShellReachable(w) => w \in active \/ \E a \in Admin : w \in sweep[a]

\* A handler whose socket is gone gives its slot back: an exec session closed by
\* the sweep or by the keepalive does not keep counting against its address.
SlotReturned == \A w \in Ws : sock[w] = "closed" /\ pc[w] \in HoldsSlot ~> pc[w] = "closed"

\* A session whose token was replaced by another is closed, unless the token
\* comes back or is cleared meanwhile.
RotationCloses ==
  \A w \in Ws :
    pc[w] = "live" /\ bound[w] # NoToken /\ token # NoToken /\ token # bound[w]
      ~> sock[w] = "closed" \/ token \in {NoToken, bound[w]}

\* auth.py, ws_keepalive: revalidation checks "that the token presented at
\* handshake still equals the current server token - a rotation (setup endpoint)
\* mismatches, so every live WS closes with 4003".
SetupClosesAll ==
  \A w \in Ws :
    pc[w] = "live" /\ token # NoToken /\ token # bound[w]
      ~> sock[w] = "closed" \/ token \in {NoToken, bound[w]}
================================================================================
