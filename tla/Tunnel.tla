--------------------------------- MODULE Tunnel ---------------------------------
(***************************************************************************)
(* skiff/docker_client.py: the managed SSH tunnel (_TunnelBuilder,         *)
(* _start_tunnel, stop_tunnel), with the requests of routers/setup.py that *)
(* start, stop, reopen and reset it.  The ssh master is a process of the   *)
(* operating system: it outlives the call that spawned it, and it may drop *)
(* by itself.  The configuration is not managed by the environment         *)
(* (from_env), which refuses all of these requests but the reopening.      *)
(***************************************************************************)
EXTENDS FiniteSets

CONSTANTS
  Req,        \* request threads
  Ssh,        \* ssh masters, each with its own control socket
  Target,     \* user@host
  Failures,   \* what may go wrong beyond ssh refusing to start: "exit", "bind",
              \* "unlink" (of a socket), "config" (its unlink)
  NoReq, NoSsh, NoTarget

ASSUME SentinelAssumption == NoReq \notin Req /\ NoSsh \notin Ssh /\ NoTarget \notin Target
ASSUME FailuresAssumption == Failures \subseteq {"exit", "bind", "unlink", "config"}

VARIABLES
  task,        \* task[r]: what request r is for
  step,        \* step[r]: where request r stands
  arg,         \* arg[r]: _TunnelBuilder.ssh_target
  own,         \* own[r]: _TunnelBuilder.ctl_sock, once its ssh has started
  conf,        \* requests with a temporary ssh config to remove: conf_path is set
  lock,        \* the holder of _tunnel_lock
  ctl,         \* _tunnel_ctl_sock, by the ssh it belongs to
  target,      \* _tunnel_ssh_target
  alive,       \* ssh masters running
  to,          \* to[s]: the host s is connected to
  file,        \* who bound the file at TUNNEL_DEFAULT_SOCKET, NoSsh if it is absent
  failed,      \* the Failures that have happened
  configured,  \* config._cfg.api_token is set
  cleared      \* a reset has been answered and no tunnel has been asked for since

requestVars == <<task, step, arg, own, conf>>
globalVars  == <<ctl, target>>
sshVars     == <<alive, to, file, failed>>
vars == <<requestVars, lock, globalVars, sshVars, configured, cleared>>

Steps == {"idle", "waiting", "config", "exiting", "clearing", "spawning",
          "polling", "leaving"}

TypeOK ==
  /\ task \in [Req -> {"none", "wizard", "reconnect", "stop", "reset"}]
  /\ step \in [Req -> Steps]
  /\ arg \in [Req -> Target \union {NoTarget}]
  /\ own \in [Req -> Ssh \union {NoSsh}]
  /\ conf \subseteq Req
  /\ lock \in Req \union {NoReq}
  /\ ctl \in Ssh \union {NoSsh}
  /\ target \in Target \union {NoTarget}
  /\ alive \subseteq Ssh
  /\ to \in [Ssh -> Target \union {NoTarget}]
  /\ \A s \in alive : to[s] \in Target
  /\ file \in Ssh \union {NoSsh}
  /\ failed \subseteq Failures
  /\ configured \in BOOLEAN /\ cleared \in BOOLEAN

\* An earlier server may have left its file at the socket path.
Init ==
  /\ task = [r \in Req |-> "none"]
  /\ step = [r \in Req |-> "idle"]
  /\ arg = [r \in Req |-> NoTarget]
  /\ own = [r \in Req |-> NoSsh]
  /\ conf = {}
  /\ lock = NoReq
  /\ ctl = NoSsh /\ target = NoTarget
  /\ alive = {} /\ to = [s \in Ssh |-> NoTarget]
  /\ file \in Ssh \union {NoSsh}
  /\ failed = {}
  /\ configured = FALSE /\ cleared = FALSE

Starts(r) == task[r] \in {"wizard", "reconnect"}
Fails(what) == what \in Failures /\ failed' = failed \union {what}
Goto(r, from, next) == step[r] = from /\ step' = [step EXCEPT ![r] = next]
Ask(r, what, host) ==
  /\ Goto(r, "idle", "waiting")
  /\ task' = [task EXCEPT ![r] = what]
  /\ arg' = [arg EXCEPT ![r] = host]
  /\ own' = [own EXCEPT ![r] = NoSsh]
--------------------------------------------------------------------------------
(* The requests, up to the lock. *)

\* POST /api/setup/tunnel: the token is looked at before the lock is waited for.
WizardStarts(r, host) ==
  /\ ~configured
  /\ Ask(r, "wizard", host)
  /\ cleared' = FALSE
  /\ UNCHANGED <<conf, lock, globalVars, sshVars, configured>>

\* POST /api/tunnel/reconnect with a stored target, read without the lock.
Reconnect(r) ==
  /\ target # NoTarget
  /\ Ask(r, "reconnect", target)
  /\ UNCHANGED <<conf, lock, globalVars, sshVars, configured, cleared>>

\* POST /api/tunnel/reconnect without one: it is a manual tunnel, which the
\* server can only probe.
ReconnectManual(r) ==
  /\ step[r] = "idle"
  /\ target = NoTarget
  /\ task' = [task EXCEPT ![r] = "reconnect"]
  /\ UNCHANGED <<step, arg, own, conf, lock, globalVars, sshVars, configured, cleared>>

\* DELETE /api/setup/tunnel
WizardStops(r) ==
  /\ Ask(r, "stop", NoTarget)
  /\ UNCHANGED <<conf, lock, globalVars, sshVars, configured, cleared>>

\* POST /api/auth/reset-config clears the token first.
Reset(r) ==
  /\ Ask(r, "reset", NoTarget)
  /\ configured' = FALSE
  /\ UNCHANGED <<conf, lock, globalVars, sshVars, cleared>>

\* POST /api/setup
Setup ==
  /\ ~configured
  /\ configured' = TRUE
  /\ UNCHANGED <<requestVars, lock, globalVars, sshVars, cleared>>
--------------------------------------------------------------------------------
(* Under _tunnel_lock: stop the old tunnel, spawn, wait for the socket, commit. *)

Enter(r) ==
  /\ lock = NoReq
  /\ Goto(r, "waiting", IF Starts(r) THEN "config" ELSE "exiting")
  /\ lock' = r
  /\ UNCHANGED <<task, arg, own, conf, globalVars, sshVars, configured, cleared>>

\* write_ssh_config: mkstemp, then a write; either may raise OSError.
WriteConfig(r) ==
  /\ \/ Goto(r, "config", "exiting") /\ conf' = conf \union {r}
     \/ Goto(r, "config", "leaving") /\ conf' \in {conf, conf \union {r}}
  /\ UNCHANGED <<task, arg, own, lock, globalVars, sshVars, configured, cleared>>

\* mutant: the pipeline spawns without stopping what runs.
ExitSkipped(r) ==
  /\ Goto(r, "exiting", "clearing")
  /\ UNCHANGED <<task, arg, own, conf, lock, globalVars, sshVars, configured, cleared>>

\* _stop_tunnel_locked: ssh -O exit.  Its failures are swallowed.
ExitMaster(r) ==
  /\ Goto(r, "exiting", "clearing")
  /\ \/ alive' = alive \ {ctl} /\ UNCHANGED failed
     \/ Fails("exit") /\ alive' = alive
  /\ UNCHANGED <<task, arg, own, conf, lock, globalVars, to, file, configured, cleared>>

\* Unlinking is best effort.
Unlinked ==
  \/ file' = NoSsh /\ UNCHANGED failed
  \/ Fails("unlink") /\ file' = file

\* mutant: the control socket is not reset.
ClearKeepsCtl(r) ==
  /\ Goto(r, "clearing", IF Starts(r) THEN "spawning" ELSE "leaving")
  /\ IF ctl # NoSsh THEN Unlinked ELSE UNCHANGED <<file, failed>>
  /\ target' = NoTarget
  /\ UNCHANGED <<task, arg, own, conf, lock, ctl, alive, to, configured, cleared>>

\* The end of _stop_tunnel_locked: the files of a tunnel it knew, the globals.
Clear(r) ==
  /\ Goto(r, "clearing", IF Starts(r) THEN "spawning" ELSE "leaving")
  /\ IF ctl # NoSsh THEN Unlinked ELSE UNCHANGED <<file, failed>>
  /\ ctl' = NoSsh /\ target' = NoTarget
  /\ UNCHANGED <<task, arg, own, conf, lock, alive, to, configured, cleared>>

\* mutant: what lies at the socket path is left there.
SpawnKeepsFile(r, s) ==
  /\ Goto(r, "spawning", "polling")
  /\ s \notin alive \union {ctl, file}
  /\ \A q \in Req : own[q] # s
  /\ own' = [own EXCEPT ![r] = s]
  /\ alive' = alive \union {s}
  /\ to' = [to EXCEPT ![s] = arg[r]]
  /\ file' = IF file = NoSsh THEN s ELSE file
  /\ UNCHANGED <<task, arg, conf, lock, globalVars, failed, configured, cleared>>

\* invoke_ssh, after the stop: ssh goes to the background.  A forward it cannot
\* bind, over a file that is still there, does not make it fail
\* (ExitOnForwardFailure is not among its options).
SpawnSucceeds(r, s) ==
  /\ Goto(r, "spawning", "polling")
  /\ s \notin alive \union {ctl, file}
  /\ \A q \in Req : own[q] # s
  /\ own' = [own EXCEPT ![r] = s]
  /\ alive' = alive \union {s}
  /\ to' = [to EXCEPT ![s] = arg[r]]
  /\ \/ file' = s /\ UNCHANGED failed
     \/ Fails("bind") /\ file' = NoSsh
     \/ "unlink" \in failed /\ file # NoSsh /\ file' = file /\ UNCHANGED failed
  /\ UNCHANGED <<task, arg, conf, lock, globalVars, configured, cleared>>

\* ssh fails, times out and is killed, or is not installed.
SpawnFails(r) ==
  /\ Goto(r, "spawning", "leaving")
  /\ Unlinked
  /\ UNCHANGED <<task, arg, own, conf, lock, globalVars, alive, to, configured, cleared>>

\* wait_for_socket sees a file in time; commit.
Commit(r) ==
  /\ Goto(r, "polling", "leaving")
  /\ file # NoSsh
  /\ ctl' = own[r] /\ target' = arg[r]
  /\ UNCHANGED <<task, arg, own, conf, lock, sshVars, configured, cleared>>

\* wait_for_socket gives up: ssh is left as it is.
SocketMissing(r) ==
  /\ Goto(r, "polling", "leaving")
  /\ file = NoSsh
  /\ UNCHANGED <<task, arg, own, conf, lock, globalVars, sshVars, configured, cleared>>

\* mutants: the config file survives; a pipeline that did not commit keeps the lock.
LeaveKeepsConfig(r) ==
  /\ Goto(r, "leaving", "idle")
  /\ lock' = NoReq
  /\ task' = [task EXCEPT ![r] = "none"]
  /\ own' = [own EXCEPT ![r] = NoSsh] /\ arg' = [arg EXCEPT ![r] = NoTarget]
  /\ cleared' = (cleared \/ task[r] = "reset")
  /\ UNCHANGED <<conf, globalVars, sshVars, configured>>
LeaveLocked(r) ==
  /\ Goto(r, "leaving", "idle")
  /\ lock' = IF own[r] = ctl THEN NoReq ELSE lock
  /\ task' = [task EXCEPT ![r] = "none"]
  /\ own' = [own EXCEPT ![r] = NoSsh] /\ arg' = [arg EXCEPT ![r] = NoTarget]
  /\ conf' = conf \ {r}
  /\ cleared' = (cleared \/ task[r] = "reset")
  /\ UNCHANGED <<globalVars, sshVars, configured>>

\* __exit__ unlinks the config, the lock is released, the request is answered.  The
\* unlink is best effort: it is tried once, and a file it fails on stays for good.
Leave(r) ==
  /\ Goto(r, "leaving", "idle")
  /\ conf' = conf \ {r}
  /\ \/ UNCHANGED failed
     \/ r \in conf /\ Fails("config")
  /\ lock' = NoReq
  /\ task' = [task EXCEPT ![r] = "none"]
  /\ own' = [own EXCEPT ![r] = NoSsh] /\ arg' = [arg EXCEPT ![r] = NoTarget]
  /\ cleared' = (cleared \/ task[r] = "reset")
  /\ UNCHANGED <<globalVars, alive, to, file, configured>>

\* The connection drops; the file stays behind.
Drop(s) ==
  /\ s \in alive
  /\ alive' = alive \ {s}
  /\ UNCHANGED <<requestVars, lock, globalVars, to, file, failed, configured, cleared>>
--------------------------------------------------------------------------------
Admit(r) ==
  \/ \E host \in Target : WizardStarts(r, host)
  \/ Reconnect(r) \/ ReconnectManual(r)
  \/ WizardStops(r) \/ Reset(r)
Pipeline(r) ==
  \/ WriteConfig(r) \/ ExitMaster(r) \/ Clear(r)
  \/ SpawnFails(r) \/ \E s \in Ssh : SpawnSucceeds(r, s)
  \/ Commit(r) \/ SocketMissing(r) \/ Leave(r)

Next ==
  \/ \E r \in Req : Admit(r) \/ Enter(r) \/ Pipeline(r)
  \/ Setup
  \/ \E s \in Ssh : Drop(s)

Spec == Init /\ [][Next]_vars

\* Every call under the lock has a timeout: ssh -O exit, the spawn, the polling.
\* threading.Lock is not fair: nothing is assumed of Enter.
FairSpec == Spec /\ \A r \in Req : WF_vars(Pipeline(r))
--------------------------------------------------------------------------------
(* Properties *)

\* Outside the pipeline the only ssh master that runs is the one the globals name,
\* whatever starts, stops, failures to connect and drops came before: none is
\* orphaned by two requests at once, as long as ssh exits when it is told and binds
\* its socket; files that could not be unlinked orphan nobody.
NoOrphan == "exit" \notin failed /\ "bind" \notin failed /\ lock = NoReq => alive \subseteq {ctl}

\* Outside the pipeline a known tunnel has its own socket at the path the Docker
\* client uses, as long as files could be unlinked: it is not served by a file an
\* earlier ssh left there.
SocketIsOwn == "unlink" \notin failed /\ lock = NoReq /\ ctl # NoSsh => file = ctl

\* The stored target is the host the known ssh is connected to, at every moment
\* of the pipeline: a reopening goes where the tunnel went.
TargetIsTrue == ctl # NoSsh => target = to[ctl]

\* docker_client.py, _TunnelBuilder: __exit__ removes the temporary config "so a
\* mid-pipeline failure doesn't leak files".  A config whose removal is still owed
\* belongs to the request in the pipeline: whichever step fails, none is left
\* without its unlink having been tried (and only a failed unlink leaves one).
ConfigRemoved == \A r \in conf : lock = r

\* The lock is always released: no path out of the pipeline keeps it.
LockReleased == lock # NoReq ~> lock = NoReq

\* docker_client.py, _start_tunnel: without the lock a second caller "leaves an
\* orphan"; with it, no ssh master is running unknown to the server.
NoneOrphaned == lock = NoReq => alive \subseteq {ctl}

\* docker_client.py, get_tunnel_ssh_target: the target "Persists across tunnel
\* drops so /api/tunnel/reconnect can re-open": the end of a reopening does not
\* lose it.
ReconnectKeepsTarget ==
  [][\A r \in Req : task[r] = "reconnect" /\ Leave(r) => target # NoTarget]_vars

\* docker_client.py, _TunnelBuilder: the lock is held so that "no half-finished
\* state [is] observable": a reconnect takes the tunnel for a manual one only if
\* no other request is reopening it.
ManualIsManual ==
  [][\A r, q \in Req : ReconnectManual(r) /\ lock = q => task[q] # "reconnect"]_vars

\* setup.py, reset_config: "Clear in-memory state + stop tunnel": what it stopped
\* is not opened again by a reconnect it overtook.
ResetStops == [][\A r \in Req : task[r] = "reconnect" /\ Commit(r) => ~cleared]_vars

\* setup.py, start_tunnel: "Wizard-only": it publishes no tunnel once the server
\* is configured.
WizardOnly == [][\A r \in Req : task[r] = "wizard" /\ Commit(r) => ~configured]_vars
================================================================================
