------------------------------ MODULE DockerClient ------------------------------
(***************************************************************************)
(* skiff/docker_client.py: the module-level Docker client shared by every  *)
(* request thread.  get_client runs in three phases (snapshot under the    *)
(* lock, ping without it, build without it and publish under it) while     *)
(* other threads invalidate the client and the wizard changes the          *)
(* docker_host it must be built for.  A step is one section under          *)
(* _client_lock, or what a thread does between two of them.                *)
(***************************************************************************)
EXTENDS FiniteSets

CONSTANTS
  Thread,     \* threads of the request pool
  Client,     \* identities of DockerClient objects
  Host,       \* values of docker_host
  NoClient    \* None

ASSUME ClientAssumption == NoClient \notin Client
ASSUME HostAssumption == Host # {}

VARIABLES
  client,      \* _client
  fresh,       \* now - _client_last_ping < DOCKER_PING_TTL
  backoff,     \* now - _client_failed_at < DOCKER_BACKOFF
  open,        \* client objects on which close() was not called
  builtFor,    \* builtFor[c]: the docker_host c was created with
  dockerHost,  \* config._cfg.docker_host
  setup,       \* where the wizard stands in _apply_setup
  pc,          \* pc[th]: where th stands in get_client, or in its Docker call
  ref,         \* ref[th]: the client object th holds
  vouched,     \* ghost: the client whose ping set the current stamp
  dropped      \* ghost: clients unreferenced by the module and never closed

threadVars == <<pc, ref>>
cacheVars  == <<client, fresh, backoff>>
configVars == <<dockerHost, setup>>
ghostVars  == <<vouched, dropped>>
vars == <<cacheVars, open, builtFor, configVars, threadVars, ghostVars>>

Phases == {"idle", "snapshot", "ping", "discard", "build", "connect", "using", "refused"}
Setups == {"unset", "written", "applied"}

TypeOK ==
  /\ client \in Client \union {NoClient}
  /\ fresh \in BOOLEAN /\ backoff \in BOOLEAN
  /\ open \subseteq Client
  /\ builtFor \in [Client -> Host]
  /\ dockerHost \in Host /\ setup \in Setups
  /\ pc \in [Thread -> Phases]
  /\ ref \in [Thread -> Client \union {NoClient}]
  /\ vouched \in Client \union {NoClient}
  /\ dropped \subseteq Client

\* time.monotonic() counts from the boot of the machine and _client_failed_at
\* starts at 0: a process started early enough begins in backoff.
Init ==
  /\ client = NoClient /\ fresh = FALSE /\ backoff \in BOOLEAN
  /\ open = {}
  /\ dockerHost \in Host /\ setup \in {"unset", "applied"}
  /\ builtFor = [c \in Client |-> dockerHost]
  /\ pc = [th \in Thread |-> "idle"]
  /\ ref = [th \in Thread |-> NoClient]
  /\ vouched = NoClient /\ dropped = {}

Goto(th, phase, held) ==
  /\ pc' = [pc EXCEPT ![th] = phase]
  /\ ref' = [ref EXCEPT ![th] = held]

\* An object no variable refers to: what the next constructor may return.
Unused(c) == c # client /\ c \notin dropped /\ \A th \in Thread : ref[th] # c
--------------------------------------------------------------------------------
(* Phase 1: _cached_client_if_fresh. *)

PhaseOne(th) ==
  /\ pc[th] = "idle"
  /\ \/ client = NoClient /\ backoff /\ Goto(th, "refused", NoClient)
     \/ client # NoClient /\ fresh /\ Goto(th, "using", client)
     \/ (IF client = NoClient THEN ~backoff ELSE ~fresh) /\ Goto(th, "snapshot", NoClient)
  /\ UNCHANGED <<cacheVars, open, builtFor, configVars, ghostVars>>

\* get_client, a second section: candidate = _client.
Snapshot(th) ==
  /\ pc[th] = "snapshot"
  /\ Goto(th, IF client = NoClient THEN "build" ELSE "ping", client)
  /\ UNCHANGED <<cacheVars, open, builtFor, configVars, ghostVars>>
--------------------------------------------------------------------------------
(* Phase 2: _ping_or_discard, the ping itself outside the lock. *)

\* mutant: the stamp is renewed whichever client is current.
PingSucceedsUnchecked(th) ==
  /\ pc[th] = "ping"
  /\ fresh' = TRUE /\ vouched' = ref[th]
  /\ Goto(th, "using", ref[th])
  /\ UNCHANGED <<client, backoff, open, builtFor, configVars, dropped>>

PingSucceeds(th) ==
  /\ pc[th] = "ping"
  /\ IF client = ref[th] THEN fresh' = TRUE /\ vouched' = client
                         ELSE UNCHANGED <<fresh, vouched>>
  /\ Goto(th, "using", ref[th])
  /\ UNCHANGED <<client, backoff, open, builtFor, configVars, dropped>>

\* The ping raised: _discard_stale_client closes the candidate first ...
PingFails(th) ==
  /\ pc[th] = "ping"
  /\ open' = open \ {ref[th]}
  /\ Goto(th, "discard", ref[th])
  /\ UNCHANGED <<cacheVars, builtFor, configVars, ghostVars>>

\* ... and clears the global under the lock if it is still the candidate.
Discard(th) ==
  /\ pc[th] = "discard"
  /\ client' = IF client = ref[th] THEN NoClient ELSE client
  /\ Goto(th, "build", NoClient)
  /\ UNCHANGED <<fresh, backoff, open, builtFor, configVars, ghostVars>>
--------------------------------------------------------------------------------
(* Phase 3: _build_and_publish_client; connecting happens outside the lock. *)

BuildStarts(th) ==
  /\ pc[th] = "build"
  /\ \E c \in {d \in Client : Unused(d)} :
       /\ open' = open \union {c}
       /\ builtFor' = [builtFor EXCEPT ![c] = dockerHost]
       /\ Goto(th, "connect", c)
  /\ UNCHANGED <<cacheVars, configVars, ghostVars>>

\* The constructor or the first ping raised: the global is cleared, whatever it
\* holds by now, and the backoff starts; docker_client_dep answers 503.
BuildFails(th) ==
  /\ pc[th] = "connect"
  /\ client' = NoClient
  /\ backoff' = TRUE
  /\ dropped' = dropped \union ({ref[th], client} \intersect open)
  /\ Goto(th, "refused", NoClient)
  /\ UNCHANGED <<fresh, open, builtFor, configVars, vouched>>

\* mutant: the duplicate is not closed.
PublishForgetsDuplicate(th) ==
  /\ pc[th] = "connect"
  /\ IF client = NoClient
       THEN /\ client' = ref[th] /\ fresh' = TRUE /\ vouched' = ref[th]
            /\ Goto(th, "using", ref[th])
       ELSE /\ Goto(th, "using", client)
            /\ UNCHANGED <<client, fresh, vouched>>
  /\ UNCHANGED <<open, backoff, builtFor, configVars, dropped>>

\* Connected: installed if the slot is empty, otherwise the duplicate is closed
\* and the winner is returned.
Publish(th) ==
  /\ pc[th] = "connect"
  /\ IF client = NoClient
       THEN /\ client' = ref[th] /\ fresh' = TRUE /\ vouched' = ref[th]
            /\ Goto(th, "using", ref[th])
            /\ UNCHANGED open
       ELSE /\ open' = open \ {ref[th]}
            /\ Goto(th, "using", client)
            /\ UNCHANGED <<client, fresh, vouched>>
  /\ UNCHANGED <<backoff, builtFor, configVars, dropped>>
--------------------------------------------------------------------------------
(* The request is over, well or not. *)

\* mutant: invalidate_client closes the client and keeps the reference.
InvalidateKeepsRef ==
  /\ fresh' = FALSE
  /\ open' = open \ {client}
  /\ UNCHANGED client

\* invalidate_client: closed and cleared under one lock.
Invalidate ==
  /\ fresh' = FALSE
  /\ open' = open \ {client}
  /\ client' = NoClient

Finish(th) ==
  /\ pc[th] \in {"using", "refused"}
  /\ Goto(th, "idle", NoClient)
  /\ UNCHANGED <<cacheVars, open, builtFor, configVars, ghostVars>>

\* safe_docker_call, _get_container: a transient error of the call invalidates
\* the current client, which need not be the one the call was made on.  Bound
\* methods, which is all the routers pass, are not retried.
CallFails(th) ==
  /\ pc[th] = "using"
  /\ Invalidate
  /\ Goto(th, "idle", NoClient)
  /\ UNCHANGED <<backoff, builtFor, configVars, ghostVars>>

\* POST /api/tunnel/reconnect.
Reconnect ==
  /\ Invalidate
  /\ UNCHANGED <<backoff, builtFor, configVars, threadVars, ghostVars>>
--------------------------------------------------------------------------------
(* The wizard and reset-config. *)

WriteHost ==
  /\ setup = "unset"
  /\ dockerHost' \in Host
  /\ setup' = "written"
  /\ UNCHANGED <<cacheVars, open, builtFor, threadVars, ghostVars>>

ApplyHost ==
  /\ setup = "written"
  /\ Invalidate
  /\ setup' = "applied"
  /\ UNCHANGED <<backoff, builtFor, dockerHost, threadVars, ghostVars>>

\* reset-config empties docker_host (the SDK then uses a default socket, one
\* more host here) and leaves the client alone.
ResetHost ==
  /\ setup = "applied"
  /\ dockerHost' \in Host
  /\ setup' = "unset"
  /\ UNCHANGED <<cacheVars, open, builtFor, threadVars, ghostVars>>
--------------------------------------------------------------------------------
(* Time, and the garbage collector. *)

PingTtlLapses ==
  /\ fresh /\ fresh' = FALSE
  /\ UNCHANGED <<client, backoff, open, builtFor, configVars, threadVars, ghostVars>>

BackoffLapses ==
  /\ backoff /\ backoff' = FALSE
  /\ UNCHANGED <<client, fresh, open, builtFor, configVars, threadVars, ghostVars>>

Collect(c) ==
  /\ c \in dropped /\ \A th \in Thread : ref[th] # c
  /\ dropped' = dropped \ {c} /\ open' = open \ {c}
  /\ UNCHANGED <<cacheVars, builtFor, configVars, threadVars, vouched>>
--------------------------------------------------------------------------------
GetClient(th) ==
  \/ PhaseOne(th) \/ Snapshot(th)
  \/ PingSucceeds(th) \/ PingFails(th) \/ Discard(th)
  \/ BuildStarts(th) \/ BuildFails(th) \/ Publish(th)

Next ==
  \/ \E th \in Thread : GetClient(th) \/ Finish(th) \/ CallFails(th)
  \/ Reconnect \/ WriteHost \/ ApplyHost \/ ResetHost
  \/ PingTtlLapses \/ BackoffLapses
  \/ \E c \in Client : Collect(c)

Spec == Init /\ [][Next]_vars
--------------------------------------------------------------------------------
(* Properties *)

Connecting(c) == \E th \in Thread : pc[th] = "connect" /\ ref[th] = c

\* The published client is open, except while the thread whose ping of it failed
\* is between its close() and its second lock: no other path leaves a closed
\* client where phase 1 hands it out.
ClosedIsBeingDiscarded ==
  client # NoClient /\ client \notin open =>
    \E th \in Thread : pc[th] = "discard" /\ ref[th] = client

\* Every open client is the published one, or in the hands of the one thread
\* that is connecting it, or was dropped by a failed build.  A duplicate that
\* lost the race to publish is never left open.
OpenIsAccounted ==
  /\ \A c \in open : c = client \/ c \in dropped \/ Connecting(c)
  /\ \A th \in Thread : pc[th] = "connect" =>
       /\ ref[th] \in open \ dropped
       /\ ref[th] # client
       /\ \A other \in Thread \ {th} : ref[other] # ref[th]

\* The stamp that lets phase 1 skip the ping is the stamp of the client it
\* returns: a slow ping of a client that was replaced meanwhile does not vouch
\* for its successor.
FreshIsItsOwn == client # NoClient /\ fresh => vouched = client

\* docker_client.py:61: "_client_lock is held during SSH connect": two threads
\* never connect at the same time.
ConnectUnderLock ==
  \A th, other \in Thread : pc[th] = "connect" /\ pc[other] = "connect" => th = other

\* docker_client.py:213: invalidate_client "forces reconnect on next call": once
\* _apply_setup has changed the host and invalidated, the client that get_client
\* serves from its cache was built for that host.
ServesConfiguredHost == setup = "applied" /\ client # NoClient => builtFor[client] = dockerHost

\* docker_client.py:168: a client that connected is installed "as the module
\* singleton": a thread that failed to build does not take away the client
\* another thread has connected.
FailureKeepsOthersClient ==
  [][\A th \in Thread : pc[th] = "connect" /\ pc'[th] = "refused" => client' = client]_vars
================================================================================
