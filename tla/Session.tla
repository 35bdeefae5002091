-------------------------------- MODULE Session --------------------------------
(***************************************************************************)
(* The life of the shared bearer token: skiff/auth.py (verify_auth, the    *)
(* session ages, the revalidation of a WebSocket) with the requests of     *)
(* skiff/routers/setup.py that set, rotate and clear it.  A request is     *)
(* verified on one thread of the pool and handled on another, so others    *)
(* run between the two.  The configuration is the in-memory one: with      *)
(* from_env the three requests that change it are refused.  Ages are       *)
(* counted in ticks, up to the first value past every timeout.             *)
(***************************************************************************)
EXTENDS Integers

CONSTANTS
  Req,          \* requests and sockets being served
  Token, Host,  \* values of api_token and docker_host
  NoToken, NoHost,
  AbsTimeout,   \* SESSION_ABS_TIMEOUT
  IdleSecs,     \* SESSION_IDLE_SECS
  WindowSecs    \* SETUP_WINDOW_SECS

ASSUME SentinelAssumption == NoToken \notin Token /\ NoHost \notin Host
ASSUME TimeAssumption ==
  AbsTimeout \in Nat \ {0} /\ IdleSecs \in 1..AbsTimeout /\ WindowSecs \in Nat

VARIABLES
  token,     \* config._cfg.api_token
  host,      \* config._cfg.docker_host
  seen,      \* the keys of _session_first_seen and _session_last_seen
  first,     \* first[t]: ticks since t was first seen, 0 for one that is not kept
  last,      \* last[t]: ticks since t was last verified, 0 for one that is not kept
  window,    \* ticks since APP_START_MONOTONIC
  pc,        \* pc[r]: where r stands
  what,      \* what[r]: "call", "rotate", "reset", "setup" or "socket"
  shown,     \* shown[r]: the token r presented, the one bound to a socket
  new,       \* new[r]: the token a rotation or a setup brings
  newHost,   \* newHost[r]: the host a setup brings
  held       \* ticks since the server's token was last changed

cacheVars   == <<seen, first, last>>
requestVars == <<pc, what, shown, new, newHost>>
vars == <<token, host, cacheVars, window, requestVars, held>>

Key == Token \union {NoToken}
Past == AbsTimeout + 1
Older(n, cap) == IF n < cap THEN n + 1 ELSE n

TypeOK ==
  /\ token \in Key /\ host \in Host \union {NoHost}
  /\ seen \subseteq Key
  /\ first \in [Key -> 0..Past] /\ last \in [Key -> 0..Past]
  /\ window \in 0..(WindowSecs + 1)
  /\ pc \in [Req -> {"idle", "compared", "admitted", "ready", "stored", "hosted", "wiped", "open"}]
  /\ what \in [Req -> {"call", "rotate", "reset", "setup", "socket"}]
  /\ shown \in [Req -> Key] /\ new \in [Req -> Key] /\ newHost \in [Req -> Host \union {NoHost}]
  /\ held \in 0..Past

Init ==
  /\ token = NoToken /\ host = NoHost
  /\ seen = {}
  /\ first = [t \in Key |-> 0] /\ last = [t \in Key |-> 0]
  /\ window = 0
  /\ pc = [r \in Req |-> "idle"]
  /\ what = [r \in Req |-> "call"]
  /\ shown = [r \in Req |-> NoToken]
  /\ new = [r \in Req |-> NoToken] /\ newHost = [r \in Req |-> NoHost]
  /\ held = 0

Goto(r, from, to) == pc[r] = from /\ pc' = [pc EXCEPT ![r] = to]
--------------------------------------------------------------------------------
(* Verification. *)

\* A request arrives with the server's token (any other is refused at once), or
\* with whatever there is while none is configured.
Present(r, purpose, t) ==
  /\ Goto(r, "idle", IF token = NoToken THEN "admitted" ELSE "compared")
  /\ what' = [what EXCEPT ![r] = purpose]
  /\ shown' = [shown EXCEPT ![r] = token]
  /\ new' = [new EXCEPT ![r] = t]
  /\ UNCHANGED <<token, host, cacheVars, window, newHost, held>>

Expired(t) == t \in seen /\ (first[t] > AbsTimeout \/ last[t] > IdleSecs)

\* _check_session_age, when the session is young enough.
Track(t) ==
  /\ ~Expired(t)
  /\ seen' = seen \union {t}
  /\ UNCHANGED first
  /\ last' = [last EXCEPT ![t] = 0]

CheckAge(r) ==
  /\ pc[r] = "compared"
  /\ \/ Track(shown[r]) /\ pc' = [pc EXCEPT ![r] = "admitted"]
     \/ Expired(shown[r]) /\ pc' = [pc EXCEPT ![r] = "idle"] /\ UNCHANGED cacheVars
  /\ UNCHANGED <<token, host, window, what, shown, new, newHost, held>>

\* Any other authenticated request; the opening of a socket.
Serve(r) ==
  /\ \/ what[r] = "call" /\ Goto(r, "admitted", "idle")
     \/ what[r] = "socket" /\ Goto(r, "admitted", "open")
  /\ UNCHANGED <<token, host, cacheVars, window, what, shown, new, newHost, held>>

\* _ws_revalidate: rotated away, too old, or used once more.  A socket without a
\* token is aged by the server's.
Aged(r) == IF shown[r] # NoToken THEN shown[r] ELSE token
Revalidate(r) ==
  /\ pc[r] = "open"
  /\ IF (token # NoToken /\ Aged(r) # token) \/ Expired(Aged(r))
       THEN Goto(r, "open", "idle") /\ UNCHANGED cacheVars
       ELSE Track(Aged(r)) /\ UNCHANGED pc
  /\ UNCHANGED <<token, host, window, what, shown, new, newHost, held>>

Leave(r) ==
  /\ Goto(r, "open", "idle")
  /\ UNCHANGED <<token, host, cacheVars, window, what, shown, new, newHost, held>>
--------------------------------------------------------------------------------
(* The token's changes.  _invalidate_session_cache is a step of its own. *)

StoreToken(t) == token' = t /\ held' = 0
Unaged == [t \in Key |-> 0]
Invalidated == seen' = {} /\ first' = Unaged /\ last' = Unaged

\* rotate_token
Rotate(r) ==
  /\ what[r] = "rotate"
  /\ \/ new[r] # token /\ Goto(r, "admitted", "stored") /\ StoreToken(new[r])
     \/ new[r] = token /\ Goto(r, "admitted", "idle") /\ UNCHANGED <<token, held>>
  /\ UNCHANGED <<host, cacheVars, window, what, shown, new, newHost>>

\* mutant: the ages survive the rotation.
RotateEndsKeepsAges(r) ==
  /\ what[r] = "rotate" /\ Goto(r, "stored", "idle")
  /\ UNCHANGED <<token, host, cacheVars, window, what, shown, new, newHost, held>>

RotateEnds(r) ==
  /\ what[r] = "rotate" /\ Goto(r, "stored", "idle")
  /\ Invalidated
  /\ UNCHANGED <<token, host, window, what, shown, new, newHost, held>>

\* reset_config
Reset(r) ==
  /\ what[r] = "reset" /\ Goto(r, "admitted", "stored")
  /\ StoreToken(NoToken) /\ host' = NoHost
  /\ UNCHANGED <<cacheVars, window, what, shown, new, newHost>>

ResetInvalidates(r) ==
  /\ what[r] = "reset" /\ Goto(r, "stored", "wiped")
  /\ Invalidated
  /\ UNCHANGED <<token, host, window, what, shown, new, newHost, held>>

\* The tunnel is stopped; then the window opens again.
ResetReopens(r) ==
  /\ Goto(r, "wiped", "idle")
  /\ window' = 0
  /\ UNCHANGED <<token, host, cacheVars, what, shown, new, newHost, held>>

\* do_setup: the preconditions, and inputs that pass.
SetupReady(r, t, h) ==
  /\ Goto(r, "idle", "ready")
  /\ window <= WindowSecs /\ token = NoToken
  /\ what' = [what EXCEPT ![r] = "setup"]
  /\ new' = [new EXCEPT ![r] = t] /\ newHost' = [newHost EXCEPT ![r] = h]
  /\ UNCHANGED <<token, host, cacheVars, window, shown, held>>

\* _apply_setup
SetupToken(r) ==
  /\ Goto(r, "ready", "stored")
  /\ StoreToken(new[r])
  /\ UNCHANGED <<host, cacheVars, window, what, shown, new, newHost>>

SetupHost(r) ==
  /\ what[r] = "setup" /\ Goto(r, "stored", "hosted")
  /\ host' = newHost[r]
  /\ UNCHANGED <<token, cacheVars, window, what, shown, new, newHost, held>>

SetupEnds(r) ==
  /\ Goto(r, "hosted", "idle")
  /\ Invalidated
  /\ UNCHANGED <<token, host, window, what, shown, new, newHost, held>>
--------------------------------------------------------------------------------
Tick ==
  /\ first' = [t \in Key |-> IF t \in seen THEN Older(first[t], Past) ELSE 0]
  /\ last' = [t \in Key |-> IF t \in seen THEN Older(last[t], Past) ELSE 0]
  /\ window' = Older(window, WindowSecs + 1)
  /\ held' = Older(held, Past)
  /\ UNCHANGED <<token, host, seen, requestVars>>

Arrive(r) ==
  \/ \E p \in {"call", "reset", "socket"} : Present(r, p, NoToken)
  \/ \E t \in Token : Present(r, "rotate", t)
  \/ \E t \in Token, h \in Host : SetupReady(r, t, h)
Handle(r) ==
  \/ CheckAge(r) \/ Serve(r)
  \/ Rotate(r) \/ RotateEnds(r)
  \/ Reset(r) \/ ResetInvalidates(r) \/ ResetReopens(r)
  \/ SetupToken(r) \/ SetupHost(r) \/ SetupEnds(r)

Next ==
  \/ \E r \in Req : Arrive(r) \/ Handle(r) \/ Revalidate(r) \/ Leave(r)
  \/ Tick

Spec == Init /\ [][Next]_vars

\* A request that was accepted is served, a socket is revalidated, and the
\* operator does not give up: each request of hers is followed by another.
FairSpec ==
  Spec /\ \A r \in Req : /\ WF_vars(Handle(r)) /\ WF_vars(Revalidate(r))
                         /\ WF_vars(Present(r, "call", NoToken))
--------------------------------------------------------------------------------
(* Properties *)

\* A token's session is never older than the token: when no change is under way,
\* the ages kept for the server's token began after it became the server's, so a
\* token that comes back does not inherit an old session and its expiry.
Changing == \E r \in Req : pc[r] \in {"stored", "hosted"}
SessionIsOwn == ~Changing /\ token \in seen => first[token] <= held

\* docs/troubleshooting.md: "Log out and log back in with your API_TOKEN. The
\* session timer resets on re-authentication."
SessionRecovers ==
  token # NoToken /\ Expired(token) ~> token = NoToken \/ ~Expired(token)

\* setup.py, do_setup: "preconditions - wizard window still open, not env-managed,
\* not already configured".
SetupOnce == [][\A r \in Req : SetupToken(r) => token = NoToken]_vars

\* setup.py, rotate_token: "Caller must already hold a valid token (AUTH dep)":
\* the request that replaces the token has shown the one it replaces.
RotateHoldsToken ==
  [][\A r \in Req : Rotate(r) /\ token' # token => shown[r] = token /\ token # NoToken]_vars
================================================================================
