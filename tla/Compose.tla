-------------------------------- MODULE Compose --------------------------------
(***************************************************************************)
(* One project of skiff/routers/compose.py: its directory with the         *)
(* docker-compose.yml, the containers `docker compose` makes of it, and    *)
(* the requests that deploy it, take it down (at once, or when the undo    *)
(* window has passed), stop, start, pull and scale it.  Only deploying     *)
(* takes the project's lock.  The command is another process: it reads the *)
(* file when it starts and changes the containers when it is done, and it  *)
(* may fail or be timed out half way.                                      *)
(***************************************************************************)
CONSTANTS
  Req,        \* requests
  Yaml,       \* contents of a compose file
  Jobs,       \* the requests there are, of AllJobs
  NoReq, NoYaml

AllJobs == {"up", "down", "stop", "start", "pull", "scale"}
ASSUME SentinelAssumption == NoReq \notin Req /\ NoYaml \notin Yaml
ASSUME JobsAssumption == Jobs \subseteq AllJobs

VARIABLES
  dir,      \* the project's directory exists
  yaml,     \* its docker-compose.yml
  stack,    \* the file the project's containers were made of, NoYaml if there are none
  running,  \* they run
  lock,     \* the holder of the project's lock
  job,      \* job[r]: what r asks for
  pc,       \* pc[r]: where r stands
  mine,     \* mine[r]: the file r uploads, or has read and validated
  created,  \* was_created, of the requests for which it is true
  read,     \* read[r]: the file the command of r was started with
  acked,    \* a deployment was answered with success and nobody took it down since
  clash     \* a deployment and a teardown have overlapped

diskVars    == <<dir, yaml>>
dockerVars  == <<stack, running>>
requestVars == <<job, pc, mine, created, read>>
ghostVars   == <<acked, clash>>
vars == <<diskVars, dockerVars, lock, requestVars, ghostVars>>

File == Yaml \union {NoYaml}
UpSteps   == {"locked", "resolved", "preparing", "writing", "composing", "deploying", "failed"}
DownSteps == {"running"}
Removal   == {"removing", "emptied"}
Steps == {"idle", "held", "waiting", "looking"} \union UpSteps \union DownSteps \union Removal

TypeOK ==
  /\ dir \in BOOLEAN /\ yaml \in File /\ (yaml # NoYaml => dir)
  /\ stack \in File /\ running \in BOOLEAN
  /\ lock \in Req \union {NoReq}
  /\ job \in [Req -> AllJobs] /\ pc \in [Req -> Steps]
  /\ mine \in [Req -> File] /\ read \in [Req -> File]
  /\ created \subseteq Req
  /\ acked \in BOOLEAN /\ clash \in BOOLEAN

Init ==
  /\ dir = FALSE /\ yaml = NoYaml
  /\ stack = NoYaml /\ running = FALSE
  /\ lock = NoReq
  /\ job = [r \in Req |-> "up"] /\ pc = [r \in Req |-> "idle"]
  /\ mine = [r \in Req |-> NoYaml] /\ read = [r \in Req |-> NoYaml]
  /\ created = {}
  /\ acked = FALSE /\ clash = FALSE

Goto(r, from, to) == pc[r] = from /\ pc' = [pc EXCEPT ![r] = to]
\* The request is answered: it forgets what it held, the lock included.
End(r, from) ==
  /\ Goto(r, from, "idle")
  /\ lock' = IF lock = r THEN NoReq ELSE lock
  /\ job' = [job EXCEPT ![r] = "up"]
  /\ mine' = [mine EXCEPT ![r] = NoYaml] /\ read' = [read EXCEPT ![r] = NoYaml]
  /\ created' = created \ {r}
Remains == UNCHANGED <<lock, job, mine, created, read>>
Deploying == \E r \in Req : job[r] = "up" /\ pc[r] \in UpSteps \union Removal
TakingDown == \E r \in Req : job[r] = "down" /\ pc[r] \in DownSteps \union Removal
--------------------------------------------------------------------------------
(* compose_up *)

\* u is the uploaded file, NoYaml for a redeployment of the stored one.
AskUp(r, u) ==
  /\ "up" \in Jobs
  /\ Goto(r, "idle", "waiting")
  /\ job' = [job EXCEPT ![r] = "up"]
  /\ mine' = [mine EXCEPT ![r] = u]
  /\ UNCHANGED <<diskVars, dockerVars, lock, created, read, ghostVars>>

\* mutant: the requests of one project are not serialised.
LockIgnored(r) ==
  /\ Goto(r, "waiting", "locked")
  /\ lock' = r
  /\ created' = IF dir THEN created \ {r} ELSE created \union {r}
  /\ clash' = (clash \/ TakingDown)
  /\ UNCHANGED <<diskVars, dockerVars, job, mine, read, acked>>

\* _lock_for_project, and the look at the directory.
Lock(r) ==
  /\ lock = NoReq
  /\ Goto(r, "waiting", "locked")
  /\ lock' = r
  /\ created' = IF dir THEN created \ {r} ELSE created \union {r}
  /\ clash' = (clash \/ TakingDown)
  /\ UNCHANGED <<diskVars, dockerVars, job, mine, read, acked>>

\* _resolve_project_dir takes the directory that is there, or creates it and looks
\* for it again.
MakeDir(r) ==
  /\ \/ dir /\ Goto(r, "locked", "preparing")
     \/ ~dir /\ Goto(r, "locked", "resolved")
  /\ dir' = TRUE
  /\ UNCHANGED <<yaml, dockerVars, lock, job, mine, created, read, ghostVars>>

ResolveDir(r) ==
  /\ \/ dir /\ Goto(r, "resolved", "preparing") /\ Remains
     \/ ~dir /\ End(r, "resolved")
  /\ UNCHANGED <<diskVars, dockerVars, ghostVars>>

\* _prepare_compose_file: an upload passes or is refused; the stored file passes,
\* is refused by today's rules, or is missing, and then an empty directory goes.
PrepareUpload(r) ==
  /\ mine[r] # NoYaml
  /\ \/ Goto(r, "preparing", "writing")
     \/ Goto(r, "preparing", "failed")
  /\ UNCHANGED <<diskVars, dockerVars, lock, job, mine, created, read, ghostVars>>

PrepareStored(r) ==
  /\ mine[r] = NoYaml /\ yaml # NoYaml
  /\ \/ Goto(r, "preparing", "composing") /\ mine' = [mine EXCEPT ![r] = yaml]
     \/ Goto(r, "preparing", "failed") /\ UNCHANGED mine
  /\ UNCHANGED <<diskVars, dockerVars, lock, job, created, read, ghostVars>>

PrepareMissing(r) ==
  /\ mine[r] = NoYaml /\ yaml = NoYaml
  /\ Goto(r, "preparing", "failed")
  /\ dir' = FALSE
  /\ UNCHANGED <<yaml, dockerVars, lock, job, mine, created, read, ghostVars>>

\* write_bytes; the directory may have gone.
Write(r) ==
  /\ \/ dir /\ Goto(r, "writing", "composing") /\ yaml' = mine[r]
     \/ ~dir /\ Goto(r, "writing", "failed") /\ UNCHANGED yaml
  /\ UNCHANGED <<dir, dockerVars, lock, job, mine, created, read, ghostVars>>

\* _run_compose_up
StartCompose(r) ==
  /\ Goto(r, "composing", "deploying")
  /\ read' = [read EXCEPT ![r] = yaml]
  /\ UNCHANGED <<diskVars, dockerVars, lock, job, mine, created, ghostVars>>

Made(r) == stack' = read[r] /\ running' = TRUE
ComposeSucceeds(r) ==
  /\ read[r] # NoYaml
  /\ End(r, "deploying")
  /\ Made(r)
  /\ acked' = TRUE
  /\ UNCHANGED <<diskVars, clash>>

\* A code other than zero, or the timeout: some of the containers may be there.
ComposeFails(r) ==
  /\ Goto(r, "deploying", "failed")
  /\ \/ UNCHANGED dockerVars
     \/ read[r] # NoYaml /\ Made(r)
  /\ UNCHANGED <<diskVars, lock, job, mine, created, read, ghostVars>>

\* mutants: the directory goes whoever created it; a failed request leaves the one
\* it created.
CleanUpAlways(r) ==
  /\ Goto(r, "failed", "removing")
  /\ UNCHANGED <<diskVars, dockerVars, lock, job, mine, created, read, ghostVars>>
CleanUpNever(r) ==
  /\ End(r, "failed")
  /\ UNCHANGED <<diskVars, dockerVars, ghostVars>>

\* Only the directory this request has created is removed.
CleanUp(r) ==
  /\ \/ r \in created /\ Goto(r, "failed", "removing") /\ Remains
     \/ r \notin created /\ End(r, "failed")
  /\ UNCHANGED <<diskVars, dockerVars, ghostVars>>

\* shutil.rmtree: the file, then the directory, if nothing was put there since.
RemoveFile(r) ==
  /\ Goto(r, "removing", "emptied")
  /\ yaml' = NoYaml
  /\ UNCHANGED <<dir, dockerVars, lock, job, mine, created, read, ghostVars>>

RemoveDir(r) ==
  /\ End(r, "emptied")
  /\ dir' = (yaml # NoYaml)
  /\ UNCHANGED <<yaml, dockerVars, ghostVars>>
--------------------------------------------------------------------------------
(* The others find the directory and run a command; none takes the lock. *)

\* At once, or held by the undo queue.
Ask(r, j) ==
  /\ j \in Jobs \ {"up"}
  /\ \/ Goto(r, "idle", "looking")
     \/ j \in {"down", "scale"} /\ Goto(r, "idle", "held")
  /\ job' = [job EXCEPT ![r] = j]
  /\ UNCHANGED <<diskVars, dockerVars, lock, mine, created, read, ghostVars>>

\* The undo queue runs the operation, or the operator takes it back.
Settle(r) ==
  /\ \/ Goto(r, "held", "looking") /\ Remains
     \/ End(r, "held")
  /\ UNCHANGED <<diskVars, dockerVars, ghostVars>>

\* _find_project_dir; the command gets the file only if it is there now.
Look(r) ==
  /\ \/ ~dir /\ End(r, "looking") /\ UNCHANGED ghostVars
     \/ /\ dir /\ Goto(r, "looking", "running")
        /\ UNCHANGED <<lock, job, mine, created>>
        /\ read' = [read EXCEPT ![r] = yaml]
        /\ acked' = (acked /\ job[r] # "down")
        /\ clash' = (clash \/ (job[r] = "down" /\ Deploying))
  /\ UNCHANGED <<diskVars, dockerVars>>

\* A command whose file has gone fails.
Runnable(r) == read[r] # NoYaml => yaml # NoYaml

\* _do_compose_down
DownSucceeds(r) ==
  /\ job[r] = "down" /\ Runnable(r)
  /\ Goto(r, "running", "removing")
  /\ stack' = NoYaml /\ running' = FALSE
  /\ UNCHANGED <<diskVars, lock, job, mine, created, read, ghostVars>>

DownFails(r) ==
  /\ job[r] = "down"
  /\ End(r, "running")
  /\ \/ UNCHANGED dockerVars
     \/ Runnable(r) /\ stack' = NoYaml /\ running' = FALSE
  /\ UNCHANGED <<diskVars, ghostVars>>

\* _compose_stack_op: stop and start keep the containers, scale adds to them.
StackOp(r) ==
  /\ job[r] \in {"stop", "start", "pull", "scale"}
  /\ End(r, "running")
  /\ \/ UNCHANGED dockerVars
     \/ job[r] = "stop" /\ running' = FALSE /\ UNCHANGED stack
     \/ job[r] = "start" /\ running' = (stack # NoYaml) /\ UNCHANGED stack
     \/ /\ job[r] = "scale" /\ read[r] # NoYaml /\ yaml # NoYaml
        /\ running' = TRUE
        /\ stack' = IF stack = NoYaml THEN yaml ELSE stack
  /\ UNCHANGED <<diskVars, ghostVars>>
\* compose_service_restart finds the containers by their labels.
Restart ==
  /\ stack # NoYaml
  /\ running' = TRUE
  /\ UNCHANGED <<diskVars, stack, lock, requestVars, ghostVars>>
--------------------------------------------------------------------------------
Up(r) ==
  \/ Lock(r) \/ MakeDir(r) \/ ResolveDir(r)
  \/ PrepareUpload(r) \/ PrepareStored(r) \/ PrepareMissing(r) \/ Write(r)
  \/ StartCompose(r) \/ ComposeSucceeds(r) \/ ComposeFails(r) \/ CleanUp(r)
Remove(r) == RemoveFile(r) \/ RemoveDir(r)
Other(r) ==
  \/ Settle(r) \/ Look(r)
  \/ DownSucceeds(r) \/ DownFails(r) \/ StackOp(r)

Next ==
  \/ \E r \in Req :
       \/ \E u \in File : AskUp(r, u)
       \/ \E j \in AllJobs : Ask(r, j)
       \/ Up(r) \/ Remove(r) \/ Other(r)
  \/ Restart

Spec == Init /\ [][Next]_vars
--------------------------------------------------------------------------------
(* Properties *)

\* The containers are made of the file this request validated: however requests
\* for the project overlap, teardowns included, `docker compose up` never starts
\* on a file another request has put in its place.
DeploysItsOwn ==
  \A r \in Req : pc[r] = "deploying" => read[r] \in {mine[r], NoYaml}

\* A stack whose deployment was acknowledged keeps its directory and file, without
\* which it can be neither stopped nor taken down, whatever later deployments fail
\* on, until a teardown.
AckedKeepsFile == acked /\ ~clash => dir /\ yaml # NoYaml

\* A refused or failed deployment leaves no directory without a file behind: it
\* would be listed as a stack.
NoPhantom ==
  ~clash /\ dir /\ yaml = NoYaml => \E r \in Req : pc[r] \in UpSteps \union Removal

\* compose.py: "Per-project mutex for the compose_up / compose_down pipeline": the
\* containers of an acknowledged deployment that nobody asked to take down since
\* have their file, as they would if the two pipelines were serialised.
Serialised == acked /\ stack # NoYaml => yaml # NoYaml
================================================================================
