----------------------------- MODULE Tunnel_proofs -----------------------------
(***************************************************************************)
(* For any number of requests, ssh masters and hosts: the types, the       *)
(* exclusion that _tunnel_lock gives the pipeline, and what follows from   *)
(* it for the ssh processes and the socket file.                           *)
(***************************************************************************)
EXTENDS Tunnel, TLAPS

\* Only a start spawns, and it has a host to spawn for.
HostKnown ==
  \A r \in Req :
    /\ step[r] \in {"config", "spawning", "polling"} => Starts(r)
    /\ step[r] # "idle" /\ Starts(r) => arg[r] \in Target

\* Every step keeps the types.
LEMMA NextTyped == TypeOK /\ HostKnown /\ [Next]_vars => TypeOK' /\ HostKnown'
<1> DEFINE Good == TypeOK /\ HostKnown
<1> SUFFICES ASSUME TypeOK, HostKnown, [Next]_vars PROVE Good'
  OBVIOUS
<1> USE SentinelAssumption
        DEF TypeOK, HostKnown, Starts, Steps, Goto, Ask, requestVars, globalVars, sshVars, Fails
<1>1. ASSUME NEW r \in Req, Admit(r) PROVE Good'
  <2>1. ASSUME NEW host \in Target, WizardStarts(r, host) PROVE Good'
    BY <2>1 DEF WizardStarts
  <2>2. CASE Reconnect(r) BY <2>2 DEF Reconnect
  <2>3. CASE ReconnectManual(r) BY <2>3 DEF ReconnectManual
  <2>4. CASE WizardStops(r) BY <2>4 DEF WizardStops
  <2>5. CASE Reset(r) BY <2>5 DEF Reset
  <2> QED BY <1>1, <2>1, <2>2, <2>3, <2>4, <2>5 DEF Admit
<1>2. ASSUME NEW r \in Req, Enter(r) PROVE Good'
  BY <1>2 DEF Enter
<1>3. ASSUME NEW r \in Req, Pipeline(r) PROVE Good'
  <2>1. CASE WriteConfig(r) BY <2>1 DEF WriteConfig
  <2>2. CASE ExitMaster(r) BY <2>2 DEF ExitMaster
  <2>3. CASE Clear(r) BY <2>3 DEF Clear, Unlinked
  <2>4. CASE SpawnFails(r) BY <2>4 DEF SpawnFails, Unlinked
  <2>5. ASSUME NEW s \in Ssh, SpawnSucceeds(r, s) PROVE Good'
    <3>1. arg[r] \in Target
      BY <2>5 DEF SpawnSucceeds
    <3> QED BY <2>5, <3>1 DEF SpawnSucceeds
  <2>6. CASE Commit(r) BY <2>6 DEF Commit
  <2>7. CASE SocketMissing(r) BY <2>7 DEF SocketMissing
  <2>8. CASE Leave(r) BY <2>8 DEF Leave
  <2> QED BY <1>3, <2>1, <2>2, <2>3, <2>4, <2>5, <2>6, <2>7, <2>8 DEF Pipeline
<1>4. CASE Setup BY <1>4 DEF Setup
<1>5. ASSUME NEW s \in Ssh, Drop(s) PROVE Good' BY <1>5 DEF Drop
<1>6. CASE UNCHANGED vars BY <1>6 DEF vars
<1> QED BY <1>1, <1>2, <1>3, <1>4, <1>5, <1>6 DEF Next

\* The state of the tunnel keeps its types.
THEOREM TypeCorrect == Spec => [](TypeOK /\ HostKnown)
<1>1. Init => TypeOK /\ HostKnown
  BY DEF Init, TypeOK, HostKnown, Steps, Starts
<1> QED BY <1>1, NextTyped, PTL DEF Spec
--------------------------------------------------------------------------------
\* A request past the lock holds it, and the holder is past it.  A temporary
\* config still to be removed and a spawned ssh belong to the holder.
LockInv ==
  /\ \A r \in Req : step[r] \notin {"idle", "waiting"} <=> lock = r
  /\ ConfigRemoved
  /\ \A r \in Req : own[r] # NoSsh => step[r] \in {"polling", "leaving"}

LEMMA NextLocked == TypeOK /\ LockInv /\ [Next]_vars => LockInv'
<1> SUFFICES ASSUME TypeOK, LockInv, [Next]_vars PROVE LockInv'
  OBVIOUS
<1> USE SentinelAssumption
        DEF TypeOK, LockInv, ConfigRemoved, Starts, Steps, Goto, Ask, requestVars, globalVars, sshVars, Fails
<1>1. ASSUME NEW r \in Req, Admit(r) PROVE LockInv'
  <2>1. ASSUME NEW host \in Target, WizardStarts(r, host) PROVE LockInv'
    BY <2>1 DEF WizardStarts
  <2>2. CASE Reconnect(r) BY <2>2 DEF Reconnect
  <2>3. CASE ReconnectManual(r) BY <2>3 DEF ReconnectManual
  <2>4. CASE WizardStops(r) BY <2>4 DEF WizardStops
  <2>5. CASE Reset(r) BY <2>5 DEF Reset
  <2> QED BY <1>1, <2>1, <2>2, <2>3, <2>4, <2>5 DEF Admit
<1>2. ASSUME NEW r \in Req, Enter(r) PROVE LockInv'
  BY <1>2 DEF Enter
<1>3. ASSUME NEW r \in Req, Pipeline(r) PROVE LockInv'
  <2>1. CASE WriteConfig(r) BY <2>1 DEF WriteConfig
  <2>2. CASE ExitMaster(r) BY <2>2 DEF ExitMaster
  <2>3. CASE Clear(r) BY <2>3 DEF Clear, Unlinked
  <2>4. CASE SpawnFails(r) BY <2>4 DEF SpawnFails, Unlinked
  <2>5. ASSUME NEW s \in Ssh, SpawnSucceeds(r, s) PROVE LockInv'
    BY <2>5 DEF SpawnSucceeds
  <2>6. CASE Commit(r) BY <2>6 DEF Commit
  <2>7. CASE SocketMissing(r) BY <2>7 DEF SocketMissing
  <2>8. CASE Leave(r) BY <2>8 DEF Leave
  <2> QED BY <1>3, <2>1, <2>2, <2>3, <2>4, <2>5, <2>6, <2>7, <2>8 DEF Pipeline
<1>4. CASE Setup BY <1>4 DEF Setup
<1>5. ASSUME NEW s \in Ssh, Drop(s) PROVE LockInv' BY <1>5 DEF Drop
<1>6. CASE UNCHANGED vars BY <1>6 DEF vars
<1> QED BY <1>1, <1>2, <1>3, <1>4, <1>5, <1>6 DEF Next

\* _tunnel_lock excludes: one pipeline at a time.
THEOREM PipelineExcluded == Spec => []LockInv
<1>1. Init => LockInv
  BY SentinelAssumption DEF Init, LockInv, ConfigRemoved
<1> QED BY <1>1, NextLocked, TypeCorrect, PTL DEF Spec

\* The steps a pipeline has still ahead of it.
Ahead(at) ==
  CASE at = "config"   -> {"exiting", "clearing", "spawning", "polling", "leaving"}
    [] at = "exiting"  -> {"clearing", "spawning", "polling", "leaving"}
    [] at = "clearing" -> {"spawning", "polling", "leaving"}
    [] at = "spawning" -> {"polling", "leaving"}
    [] at = "polling"  -> {"leaving"}
    [] OTHER           -> {}

\* The request that holds the lock moves by its own steps only, every one of them
\* forward, and is the one to release it: whatever fails, and whatever the other
\* requests and dropping masters do, at most six of its steps after it has entered.
PipelineAdvances ==
  [][\A r \in Req : lock = r =>
       /\ Pipeline(r) => step'[r] # step[r]
       /\ \/ lock' = r /\ step'[r] \in {step[r]} \union Ahead(step[r])
          \/ lock' = NoReq /\ step[r] = "leaving" /\ step'[r] = "idle"]_vars

\* What fairness has to add for the lock to be released (LockReleased) is that the
\* holder's calls return.
THEOREM HolderAdvances == Spec => PipelineAdvances
<1>1. TypeOK /\ LockInv /\ [Next]_vars
        => [\A r \in Req : lock = r =>
              /\ Pipeline(r) => step'[r] # step[r]
              /\ \/ lock' = r /\ step'[r] \in {step[r]} \union Ahead(step[r])
                 \/ lock' = NoReq /\ step[r] = "leaving" /\ step'[r] = "idle"]_vars
  <2> SUFFICES ASSUME TypeOK, LockInv, Next, NEW r \in Req, lock = r
               PROVE  /\ Pipeline(r) => step'[r] # step[r]
                      /\ \/ lock' = r /\ step'[r] \in {step[r]} \union Ahead(step[r])
                         \/ lock' = NoReq /\ step[r] = "leaving" /\ step'[r] = "idle"
    OBVIOUS
  <2>1. Pipeline(r) =>
          /\ step'[r] # step[r]
          /\ \/ lock' = r /\ step'[r] \in Ahead(step[r])
             \/ lock' = NoReq /\ step[r] = "leaving" /\ step'[r] = "idle"
    BY DEF TypeOK, Pipeline, WriteConfig, ExitMaster, Clear, SpawnFails, SpawnSucceeds, Commit,
           SocketMissing, Leave, Goto, Ahead
  <2>2. ASSUME NEW q \in Req, Admit(q) \/ Enter(q) \/ Pipeline(q), q # r \/ ~Pipeline(q)
        PROVE  lock' = r /\ step'[r] = step[r]
    <3> USE SentinelAssumption DEF TypeOK, LockInv, Goto, Ask, Steps, requestVars
    <3>1. ASSUME NEW host \in Target, WizardStarts(q, host) PROVE lock' = r /\ step'[r] = step[r]
      BY <3>1 DEF WizardStarts
    <3>2. CASE Reconnect(q) BY <3>2 DEF Reconnect
    <3>3. CASE ReconnectManual(q) BY <3>3 DEF ReconnectManual
    <3>4. CASE WizardStops(q) BY <3>4 DEF WizardStops
    <3>5. CASE Reset(q) BY <3>5 DEF Reset
    <3>6. ~Enter(q) BY DEF Enter
    <3>7. ~Pipeline(q)
      BY <2>2 DEF Pipeline, WriteConfig, ExitMaster, Clear, SpawnFails, SpawnSucceeds, Commit,
                  SocketMissing, Leave
    <3> QED BY <2>2, <3>1, <3>2, <3>3, <3>4, <3>5, <3>6, <3>7 DEF Admit
  <2>3. Setup \/ (\E s \in Ssh : Drop(s)) => lock' = r /\ step'[r] = step[r]
    BY DEF Setup, Drop, requestVars
  <2>4. CASE Pipeline(r) BY <2>1, <2>4
  <2>5. CASE ~Pipeline(r)
    <3>1. lock' = r /\ step'[r] = step[r] BY <2>2, <2>3, <2>5 DEF Next
    <3> QED BY <2>5, <3>1
  <2> QED BY <2>4, <2>5
<1> QED BY <1>1, TypeCorrect, PipelineExcluded, PTL DEF Spec, PipelineAdvances

\* No request leaves the pipeline without having tried to remove its temporary ssh
\* config.
THEOREM NoConfigLeft == Spec => []ConfigRemoved
  BY PipelineExcluded, PTL DEF LockInv
--------------------------------------------------------------------------------
\* What is published is what was spawned: a request polling has its own ssh,
\* connected to its host, and nothing is published meanwhile.
PublishInv ==
  /\ TargetIsTrue
  /\ \A r \in Req : step[r] \in {"spawning", "polling"} => ctl = NoSsh
  /\ \A r \in Req : step[r] = "polling" => own[r] \in Ssh /\ to[own[r]] = arg[r]

LEMMA NextPublishes ==
  TypeOK /\ HostKnown /\ LockInv /\ PublishInv /\ [Next]_vars => PublishInv'
<1> SUFFICES ASSUME TypeOK, HostKnown, LockInv, PublishInv, [Next]_vars PROVE PublishInv'
  OBVIOUS
<1> USE SentinelAssumption
        DEF TypeOK, LockInv, PublishInv, TargetIsTrue, Steps, Goto, Ask,
            requestVars, globalVars, sshVars, Fails
<1>1. ASSUME NEW r \in Req, Admit(r) PROVE PublishInv'
  <2>1. ASSUME NEW host \in Target, WizardStarts(r, host) PROVE PublishInv'
    BY <2>1 DEF WizardStarts
  <2>2. CASE Reconnect(r) BY <2>2 DEF Reconnect
  <2>3. CASE ReconnectManual(r) BY <2>3 DEF ReconnectManual
  <2>4. CASE WizardStops(r) BY <2>4 DEF WizardStops
  <2>5. CASE Reset(r) BY <2>5 DEF Reset
  <2> QED BY <1>1, <2>1, <2>2, <2>3, <2>4, <2>5 DEF Admit
<1>2. ASSUME NEW r \in Req, Enter(r) PROVE PublishInv'
  BY <1>2 DEF Enter
<1>3. ASSUME NEW r \in Req, Pipeline(r) PROVE PublishInv'
  <2>1. CASE WriteConfig(r) BY <2>1 DEF WriteConfig
  <2>2. CASE ExitMaster(r) BY <2>2 DEF ExitMaster
  <2>3. CASE Clear(r) BY <2>3 DEF Clear
  <2>4. CASE SpawnFails(r) BY <2>4 DEF SpawnFails
  <2>5. ASSUME NEW s \in Ssh, SpawnSucceeds(r, s) PROVE PublishInv'
    <3>1. arg[r] \in Target
      BY <2>5 DEF SpawnSucceeds, HostKnown
    <3> QED BY <2>5, <3>1 DEF SpawnSucceeds
  <2>6. CASE Commit(r) BY <2>6 DEF Commit
  <2>7. CASE SocketMissing(r) BY <2>7 DEF SocketMissing
  <2>8. CASE Leave(r) BY <2>8 DEF Leave
  <2> QED BY <1>3, <2>1, <2>2, <2>3, <2>4, <2>5, <2>6, <2>7, <2>8 DEF Pipeline
<1>4. CASE Setup BY <1>4 DEF Setup
<1>5. ASSUME NEW s \in Ssh, Drop(s) PROVE PublishInv' BY <1>5 DEF Drop
<1>6. CASE UNCHANGED vars BY <1>6 DEF vars
<1> QED BY <1>1, <1>2, <1>3, <1>4, <1>5, <1>6 DEF Next

LEMMA PublishHolds == Spec => []PublishInv
<1>1. Init => PublishInv
  BY DEF Init, PublishInv, TargetIsTrue
<1> QED BY <1>1, NextPublishes, TypeCorrect, PipelineExcluded, PTL DEF Spec

\* The stored target is the host of the known ssh, whatever fails.
THEOREM TargetStaysTrue == Spec => []TargetIsTrue
  BY PublishHolds, PTL DEF PublishInv
--------------------------------------------------------------------------------
\* The socket file, where files can be unlinked: a published tunnel bound it, and
\* so did the one being waited for, if it is there.
FileInv == "unlink" \notin failed =>
  /\ ctl # NoSsh => file = ctl
  /\ \A r \in Req : step[r] = "polling" => file \in {own[r], NoSsh}

LEMMA NextBinds ==
  TypeOK /\ LockInv /\ PublishInv /\ FileInv /\ [Next]_vars => FileInv'
<1> SUFFICES ASSUME TypeOK, LockInv, PublishInv, FileInv, [Next]_vars PROVE FileInv'
  OBVIOUS
<1> USE SentinelAssumption
        DEF TypeOK, LockInv, PublishInv, FileInv, Steps, Goto, Ask,
            requestVars, globalVars, sshVars, Fails
<1>1. ASSUME NEW r \in Req, Admit(r) PROVE FileInv'
  <2>1. ASSUME NEW host \in Target, WizardStarts(r, host) PROVE FileInv'
    BY <2>1 DEF WizardStarts
  <2>2. CASE Reconnect(r) BY <2>2 DEF Reconnect
  <2>3. CASE ReconnectManual(r) BY <2>3 DEF ReconnectManual
  <2>4. CASE WizardStops(r) BY <2>4 DEF WizardStops
  <2>5. CASE Reset(r) BY <2>5 DEF Reset
  <2> QED BY <1>1, <2>1, <2>2, <2>3, <2>4, <2>5 DEF Admit
<1>2. ASSUME NEW r \in Req, Enter(r) PROVE FileInv'
  BY <1>2 DEF Enter
<1>3. ASSUME NEW r \in Req, Pipeline(r) PROVE FileInv'
  <2>1. CASE WriteConfig(r) BY <2>1 DEF WriteConfig
  <2>2. CASE ExitMaster(r) BY <2>2 DEF ExitMaster
  <2>3. CASE Clear(r) BY <2>3 DEF Clear, Unlinked
  <2>4. CASE SpawnFails(r) BY <2>4 DEF SpawnFails, Unlinked
  <2>5. ASSUME NEW s \in Ssh, SpawnSucceeds(r, s) PROVE FileInv'
    BY <2>5 DEF SpawnSucceeds
  <2>6. CASE Commit(r) BY <2>6 DEF Commit
  <2>7. CASE SocketMissing(r) BY <2>7 DEF SocketMissing
  <2>8. CASE Leave(r) BY <2>8 DEF Leave
  <2> QED BY <1>3, <2>1, <2>2, <2>3, <2>4, <2>5, <2>6, <2>7, <2>8 DEF Pipeline
<1>4. CASE Setup BY <1>4 DEF Setup
<1>5. ASSUME NEW s \in Ssh, Drop(s) PROVE FileInv' BY <1>5 DEF Drop
<1>6. CASE UNCHANGED vars BY <1>6 DEF vars
<1> QED BY <1>1, <1>2, <1>3, <1>4, <1>5, <1>6 DEF Next

\* As long as files can be unlinked, a published tunnel is served by its own
\* socket, even if ssh orphans are left or forwards fail to bind.
THEOREM SocketBelongs == Spec => []SocketIsOwn
<1>1. Init => FileInv
  BY DEF Init, FileInv
<1>2. FileInv => SocketIsOwn
  BY DEF FileInv, SocketIsOwn
<1>3. TypeOK /\ LockInv /\ PublishInv /\ FileInv /\ [Next]_vars => FileInv'
  BY NextBinds
<1> QED BY <1>1, <1>2, <1>3, TypeCorrect, PipelineExcluded, PublishHolds, PTL DEF Spec
--------------------------------------------------------------------------------
\* The processes, where ssh exits when told and binds its socket: nothing but the
\* published master runs until the pipeline has stopped it, and nothing but the
\* new one after.
ProcessInv == "exit" \notin failed /\ "bind" \notin failed =>
  /\ lock = NoReq => alive \subseteq {ctl}
  /\ \A r \in Req :
       /\ step[r] \in {"config", "exiting", "leaving"} => alive \subseteq {ctl}
       /\ step[r] \in {"clearing", "spawning"} => alive = {}
       /\ step[r] = "polling" => alive \subseteq {own[r]} /\ file # NoSsh

LEMMA NextStops ==
  TypeOK /\ LockInv /\ PublishInv /\ ProcessInv /\ [Next]_vars => ProcessInv'
<1> SUFFICES ASSUME TypeOK, LockInv, PublishInv, ProcessInv, [Next]_vars PROVE ProcessInv'
  OBVIOUS
<1> USE SentinelAssumption
        DEF TypeOK, LockInv, PublishInv, ProcessInv, Steps, Goto, Ask,
            requestVars, globalVars, sshVars, Fails
<1>1. ASSUME NEW r \in Req, Admit(r) PROVE ProcessInv'
  <2>1. ASSUME NEW host \in Target, WizardStarts(r, host) PROVE ProcessInv'
    BY <2>1 DEF WizardStarts
  <2>2. CASE Reconnect(r) BY <2>2 DEF Reconnect
  <2>3. CASE ReconnectManual(r) BY <2>3 DEF ReconnectManual
  <2>4. CASE WizardStops(r) BY <2>4 DEF WizardStops
  <2>5. CASE Reset(r) BY <2>5 DEF Reset
  <2> QED BY <1>1, <2>1, <2>2, <2>3, <2>4, <2>5 DEF Admit
<1>2. ASSUME NEW r \in Req, Enter(r) PROVE ProcessInv'
  BY <1>2 DEF Enter
<1>3. ASSUME NEW r \in Req, Pipeline(r) PROVE ProcessInv'
  <2>1. CASE WriteConfig(r) BY <2>1 DEF WriteConfig
  <2>2. CASE ExitMaster(r) BY <2>2 DEF ExitMaster
  <2>3. CASE Clear(r) BY <2>3 DEF Clear, Unlinked
  <2>4. CASE SpawnFails(r) BY <2>4 DEF SpawnFails, Unlinked
  <2>5. ASSUME NEW s \in Ssh, SpawnSucceeds(r, s) PROVE ProcessInv'
    BY <2>5 DEF SpawnSucceeds
  <2>6. CASE Commit(r) BY <2>6 DEF Commit
  <2>7. CASE SocketMissing(r) BY <2>7 DEF SocketMissing
  <2>8. CASE Leave(r) BY <2>8 DEF Leave
  <2> QED BY <1>3, <2>1, <2>2, <2>3, <2>4, <2>5, <2>6, <2>7, <2>8 DEF Pipeline
<1>4. CASE Setup BY <1>4 DEF Setup
<1>5. ASSUME NEW s \in Ssh, Drop(s) PROVE ProcessInv' BY <1>5 DEF Drop
<1>6. CASE UNCHANGED vars BY <1>6 DEF vars
<1> QED BY <1>1, <1>2, <1>3, <1>4, <1>5, <1>6 DEF Next

\* If the exit command works and ssh binds its socket, no interleaving of starts,
\* stops, failed connections, drops and files that could not be unlinked leaves an
\* ssh the server has forgotten.
THEOREM NothingOrphaned == Spec => []NoOrphan
<1>1. Init => ProcessInv
  BY DEF Init, ProcessInv
<1>2. ProcessInv => NoOrphan
  BY DEF ProcessInv, NoOrphan
<1>3. TypeOK /\ LockInv /\ PublishInv /\ ProcessInv /\ [Next]_vars => ProcessInv'
  BY NextStops
<1> QED BY <1>1, <1>2, <1>3, TypeCorrect, PipelineExcluded, PublishHolds, PTL DEF Spec
================================================================================
