----------------------------- MODULE Compose_proofs -----------------------------
(***************************************************************************)
(* For any requests and compose files: the types, the project's lock, and  *)
(* what it gives: a deployment starts on its own file, an acknowledged     *)
(* stack keeps its file, and failures leave no empty directory.            *)
(***************************************************************************)
EXTENDS StackRestart, TLAPS

\* Every step keeps the types.
LEMMA NextTyped == TypeOK /\ [Next]_vars => TypeOK'
<1> SUFFICES ASSUME TypeOK, [Next]_vars PROVE TypeOK'
  OBVIOUS
<1> USE SentinelAssumption
        DEF TypeOK, File, AllJobs, Steps, UpSteps, DownSteps, Removal, Goto, diskVars, dockerVars, requestVars, ghostVars
<1>1. ASSUME NEW r \in Req, NEW u \in File, AskUp(r, u) PROVE TypeOK'
  BY <1>1 DEF AskUp
<1>2. ASSUME NEW r \in Req, NEW j \in AllJobs, Ask(r, j) PROVE TypeOK'
  BY <1>2, JobsAssumption DEF Ask
<1>3. ASSUME NEW r \in Req, Up(r) PROVE TypeOK'
  <2>1. CASE Lock(r) BY <2>1 DEF Lock, TakingDown
  <2>2. CASE MakeDir(r) BY <2>2 DEF MakeDir
  <2>3. CASE ResolveDir(r) BY <2>3 DEF ResolveDir, End, Remains
  <2>4. CASE PrepareUpload(r) BY <2>4 DEF PrepareUpload
  <2>5. CASE PrepareStored(r) BY <2>5 DEF PrepareStored
  <2>6. CASE PrepareMissing(r) BY <2>6 DEF PrepareMissing
  <2>7. CASE Write(r) BY <2>7 DEF Write
  <2>8. CASE StartCompose(r) BY <2>8 DEF StartCompose
  <2>9. CASE ComposeSucceeds(r) BY <2>9 DEF ComposeSucceeds, End, Made
  <2>10. CASE ComposeFails(r) BY <2>10 DEF ComposeFails, Made
  <2>11. CASE CleanUp(r) BY <2>11 DEF CleanUp, End, Remains
  <2> QED BY <1>3, <2>1, <2>2, <2>3, <2>4, <2>5, <2>6, <2>7, <2>8, <2>9, <2>10, <2>11 DEF Up
<1>4. ASSUME NEW r \in Req, Remove(r) PROVE TypeOK'
  <2>1. CASE RemoveFile(r) BY <2>1 DEF RemoveFile
  <2>2. CASE RemoveDir(r) BY <2>2 DEF RemoveDir, End
  <2> QED BY <1>4, <2>1, <2>2 DEF Remove
<1>5. ASSUME NEW r \in Req, Other(r) PROVE TypeOK'
  <2>1. CASE Settle(r) BY <2>1 DEF Settle, End, Remains
  <2>2. CASE Look(r) BY <2>2 DEF Look, End, Deploying
  <2>3. CASE DownSucceeds(r) BY <2>3 DEF DownSucceeds, Runnable
  <2>4. CASE DownFails(r) BY <2>4 DEF DownFails, End, Runnable
  <2>5. CASE StackOp(r) BY <2>5 DEF StackOp, End
  <2> QED BY <1>5, <2>1, <2>2, <2>3, <2>4, <2>5 DEF Other
<1>6. CASE Restart BY <1>6 DEF Restart
<1>7. CASE UNCHANGED vars BY <1>7 DEF vars
<1> QED BY <1>1, <1>2, <1>3, <1>4, <1>5, <1>6, <1>7 DEF Next

\* The project, its containers and its requests keep their types, and a file lies
\* in a directory.
THEOREM TypeCorrect == Spec => []TypeOK
<1>1. Init => TypeOK
  BY DEF Init, TypeOK, File, AllJobs, Steps, UpSteps, DownSteps, Removal
<1> QED BY <1>1, NextTyped, PTL DEF Spec
--------------------------------------------------------------------------------
\* A deployment holds the lock from its first look at the directory to the end of
\* its clean-up, and where a request stands says what it asks for.
Holding(r) == job[r] = "up" /\ pc[r] \in UpSteps \union Removal
LockInv ==
  \A r \in Req :
    /\ Holding(r) <=> lock = r
    /\ pc[r] \in UpSteps \union {"waiting"} => job[r] = "up"
    /\ pc[r] \in {"held", "looking", "running"} => job[r] # "up"
    /\ pc[r] \in Removal => job[r] \in {"up", "down"}

LEMMA NextLocked == TypeOK /\ LockInv /\ [Next]_vars => LockInv'
<1> SUFFICES ASSUME TypeOK, LockInv, [Next]_vars PROVE LockInv'
  OBVIOUS
<1> USE SentinelAssumption
        DEF TypeOK, LockInv, Holding, UpSteps, DownSteps, Removal, Goto, diskVars, dockerVars, requestVars, ghostVars
<1>1. ASSUME NEW r \in Req, NEW u \in File, AskUp(r, u) PROVE LockInv'
  BY <1>1 DEF AskUp
<1>2. ASSUME NEW r \in Req, NEW j \in AllJobs, Ask(r, j) PROVE LockInv'
  BY <1>2, JobsAssumption DEF Ask
<1>3. ASSUME NEW r \in Req, Up(r) PROVE LockInv'
  <2>1. CASE Lock(r) BY <2>1 DEF Lock, TakingDown
  <2>2. CASE MakeDir(r) BY <2>2 DEF MakeDir
  <2>3. CASE ResolveDir(r) BY <2>3 DEF ResolveDir, End, Remains
  <2>4. CASE PrepareUpload(r) BY <2>4 DEF PrepareUpload
  <2>5. CASE PrepareStored(r) BY <2>5 DEF PrepareStored
  <2>6. CASE PrepareMissing(r) BY <2>6 DEF PrepareMissing
  <2>7. CASE Write(r) BY <2>7 DEF Write
  <2>8. CASE StartCompose(r) BY <2>8 DEF StartCompose
  <2>9. CASE ComposeSucceeds(r) BY <2>9 DEF ComposeSucceeds, End, Made
  <2>10. CASE ComposeFails(r) BY <2>10 DEF ComposeFails, Made
  <2>11. CASE CleanUp(r) BY <2>11 DEF CleanUp, End, Remains
  <2> QED BY <1>3, <2>1, <2>2, <2>3, <2>4, <2>5, <2>6, <2>7, <2>8, <2>9, <2>10, <2>11 DEF Up
<1>4. ASSUME NEW r \in Req, Remove(r) PROVE LockInv'
  <2>1. CASE RemoveFile(r) BY <2>1 DEF RemoveFile
  <2>2. CASE RemoveDir(r) BY <2>2 DEF RemoveDir, End
  <2> QED BY <1>4, <2>1, <2>2 DEF Remove
<1>5. ASSUME NEW r \in Req, Other(r) PROVE LockInv'
  <2>1. CASE Settle(r) BY <2>1 DEF Settle, End, Remains
  <2>2. CASE Look(r) BY <2>2 DEF Look, End, Deploying
  <2>3. CASE DownSucceeds(r) BY <2>3 DEF DownSucceeds, Runnable
  <2>4. CASE DownFails(r) BY <2>4 DEF DownFails, End, Runnable
  <2>5. CASE StackOp(r) BY <2>5 DEF StackOp, End
  <2> QED BY <1>5, <2>1, <2>2, <2>3, <2>4, <2>5 DEF Other
<1>6. CASE Restart BY <1>6 DEF Restart
<1>7. CASE UNCHANGED vars BY <1>7 DEF vars
<1> QED BY <1>1, <1>2, <1>3, <1>4, <1>5, <1>6, <1>7 DEF Next

\* Deployments of a project are serialised.
THEOREM DeploymentsExcluded == Spec => []LockInv
<1>1. Init => LockInv
  BY SentinelAssumption DEF Init, LockInv, Holding, UpSteps, DownSteps, Removal
<1> QED BY <1>1, NextLocked, TypeCorrect, PTL DEF Spec
--------------------------------------------------------------------------------
\* Between the write, or the validation of the stored file, and the start of the
\* command only a teardown touches the file.
OwnInv ==
  /\ DeploysItsOwn
  /\ \A r \in Req : pc[r] = "composing" => yaml \in {mine[r], NoYaml}

LEMMA NextOwn == TypeOK /\ LockInv /\ OwnInv /\ [Next]_vars => OwnInv'
<1> SUFFICES ASSUME TypeOK, LockInv, OwnInv, [Next]_vars PROVE OwnInv'
  OBVIOUS
<1> USE SentinelAssumption
        DEF TypeOK, LockInv, Holding, OwnInv, DeploysItsOwn, UpSteps, DownSteps, Removal, Goto, diskVars, dockerVars, requestVars, ghostVars
<1>1. ASSUME NEW r \in Req, NEW u \in File, AskUp(r, u) PROVE OwnInv'
  BY <1>1 DEF AskUp
<1>2. ASSUME NEW r \in Req, NEW j \in AllJobs, Ask(r, j) PROVE OwnInv'
  BY <1>2, JobsAssumption DEF Ask
<1>3. ASSUME NEW r \in Req, Up(r) PROVE OwnInv'
  <2>1. CASE Lock(r) BY <2>1 DEF Lock, TakingDown
  <2>2. CASE MakeDir(r) BY <2>2 DEF MakeDir
  <2>3. CASE ResolveDir(r) BY <2>3 DEF ResolveDir, End, Remains
  <2>4. CASE PrepareUpload(r) BY <2>4 DEF PrepareUpload
  <2>5. CASE PrepareStored(r) BY <2>5 DEF PrepareStored
  <2>6. CASE PrepareMissing(r) BY <2>6 DEF PrepareMissing
  <2>7. CASE Write(r) BY <2>7 DEF Write
  <2>8. CASE StartCompose(r) BY <2>8 DEF StartCompose
  <2>9. CASE ComposeSucceeds(r) BY <2>9 DEF ComposeSucceeds, End, Made
  <2>10. CASE ComposeFails(r) BY <2>10 DEF ComposeFails, Made
  <2>11. CASE CleanUp(r) BY <2>11 DEF CleanUp, End, Remains
  <2> QED BY <1>3, <2>1, <2>2, <2>3, <2>4, <2>5, <2>6, <2>7, <2>8, <2>9, <2>10, <2>11 DEF Up
<1>4. ASSUME NEW r \in Req, Remove(r) PROVE OwnInv'
  <2>1. CASE RemoveFile(r) BY <2>1 DEF RemoveFile
  <2>2. CASE RemoveDir(r) BY <2>2 DEF RemoveDir, End
  <2> QED BY <1>4, <2>1, <2>2 DEF Remove
<1>5. ASSUME NEW r \in Req, Other(r) PROVE OwnInv'
  <2>1. CASE Settle(r) BY <2>1 DEF Settle, End, Remains
  <2>2. CASE Look(r) BY <2>2 DEF Look, End, Deploying
  <2>3. CASE DownSucceeds(r) BY <2>3 DEF DownSucceeds, Runnable
  <2>4. CASE DownFails(r) BY <2>4 DEF DownFails, End, Runnable
  <2>5. CASE StackOp(r) BY <2>5 DEF StackOp, End
  <2> QED BY <1>5, <2>1, <2>2, <2>3, <2>4, <2>5 DEF Other
<1>6. CASE Restart BY <1>6 DEF Restart
<1>7. CASE UNCHANGED vars BY <1>7 DEF vars
<1> QED BY <1>1, <1>2, <1>3, <1>4, <1>5, <1>6, <1>7 DEF Next

\* However requests overlap, `docker compose up` never starts on a file another
\* request has put in place of the one that was validated.
THEOREM DeploysOwnFile == Spec => []DeploysItsOwn
<1>1. Init => OwnInv
  BY DEF Init, OwnInv, DeploysItsOwn
<1>2. OwnInv => DeploysItsOwn
  BY DEF OwnInv
<1> QED BY <1>1, <1>2, NextOwn, TypeCorrect, DeploymentsExcluded, PTL DEF Spec
--------------------------------------------------------------------------------
\* While deployments and teardowns have not overlapped: a deployment that found the
\* directory found a file in it and keeps it; one that has got as far as the
\* command has a file; and after an acknowledgement nobody is about to remove it.
KeptInv == ~clash =>
  /\ ~(Deploying /\ TakingDown)
  /\ \A r \in Req :
       /\ pc[r] \in UpSteps /\ r \notin created => yaml # NoYaml
       /\ pc[r] \in {"composing", "deploying"} => yaml # NoYaml
       /\ pc[r] = "writing" => mine[r] # NoYaml
       /\ Holding(r) /\ pc[r] \in Removal => r \in created
  /\ acked => /\ yaml # NoYaml /\ ~TakingDown
              /\ \A r \in Req : Holding(r) => r \notin created
  /\ dir /\ yaml = NoYaml => \E r \in Req : pc[r] \in UpSteps \union Removal

LEMMA NextKept == TypeOK /\ LockInv /\ KeptInv /\ [Next]_vars => KeptInv'
<1> SUFFICES ASSUME TypeOK, LockInv, KeptInv, [Next]_vars PROVE KeptInv'
  OBVIOUS
<1> USE SentinelAssumption
        DEF TypeOK, LockInv, Holding, KeptInv, Deploying, TakingDown,
            UpSteps, DownSteps, Removal, Goto, diskVars, dockerVars, requestVars, ghostVars
<1>1. ASSUME NEW r \in Req, NEW u \in File, AskUp(r, u) PROVE KeptInv'
  BY <1>1 DEF AskUp
<1>2. ASSUME NEW r \in Req, NEW j \in AllJobs, Ask(r, j) PROVE KeptInv'
  BY <1>2, JobsAssumption DEF Ask
<1>3. ASSUME NEW r \in Req, Up(r) PROVE KeptInv'
  <2>1. CASE Lock(r) BY <2>1 DEF Lock
  <2>2. CASE MakeDir(r) BY <2>2 DEF MakeDir
  <2>3. CASE ResolveDir(r) BY <2>3 DEF ResolveDir, End, Remains
  <2>4. CASE PrepareUpload(r) BY <2>4 DEF PrepareUpload
  <2>5. CASE PrepareStored(r) BY <2>5 DEF PrepareStored
  <2>6. CASE PrepareMissing(r) BY <2>6 DEF PrepareMissing
  <2>7. CASE Write(r) BY <2>7 DEF Write
  <2>8. CASE StartCompose(r) BY <2>8 DEF StartCompose
  <2>9. CASE ComposeSucceeds(r) BY <2>9 DEF ComposeSucceeds, End, Made
  <2>10. CASE ComposeFails(r) BY <2>10 DEF ComposeFails, Made
  <2>11. CASE CleanUp(r) BY <2>11 DEF CleanUp, End, Remains
  <2> QED BY <1>3, <2>1, <2>2, <2>3, <2>4, <2>5, <2>6, <2>7, <2>8, <2>9, <2>10, <2>11 DEF Up
<1>4. ASSUME NEW r \in Req, Remove(r) PROVE KeptInv'
  <2>1. CASE RemoveFile(r) BY <2>1 DEF RemoveFile
  <2>2. CASE RemoveDir(r) BY <2>2 DEF RemoveDir, End
  <2> QED BY <1>4, <2>1, <2>2 DEF Remove
<1>5. ASSUME NEW r \in Req, Other(r) PROVE KeptInv'
  <2>1. CASE Settle(r) BY <2>1 DEF Settle, End, Remains
  <2>2. CASE Look(r) BY <2>2 DEF Look, End
  <2>3. CASE DownSucceeds(r) BY <2>3 DEF DownSucceeds, Runnable
  <2>4. CASE DownFails(r) BY <2>4 DEF DownFails, End, Runnable
  <2>5. CASE StackOp(r) BY <2>5 DEF StackOp, End
  <2> QED BY <1>5, <2>1, <2>2, <2>3, <2>4, <2>5 DEF Other
<1>6. CASE Restart BY <1>6 DEF Restart
<1>7. CASE UNCHANGED vars BY <1>7 DEF vars
<1> QED BY <1>1, <1>2, <1>3, <1>4, <1>5, <1>6, <1>7 DEF Next

\* An acknowledged stack keeps its directory and its file until a teardown,
\* whatever later deployments fail on.
THEOREM AckedStackStays == Spec => []AckedKeepsFile
<1>1. Init => KeptInv
  BY DEF Init, KeptInv, Holding, Deploying, TakingDown, UpSteps, DownSteps, Removal
<1>2. TypeOK /\ KeptInv => AckedKeepsFile
  BY DEF TypeOK, KeptInv, AckedKeepsFile
<1> QED BY <1>1, <1>2, NextKept, TypeCorrect, DeploymentsExcluded, PTL DEF Spec

\* No refused or failed deployment leaves an empty directory.
THEOREM NoPhantomStack == Spec => []NoPhantom
<1>1. Init => KeptInv
  BY DEF Init, KeptInv, Holding, Deploying, TakingDown, UpSteps, DownSteps, Removal
<1>2. KeptInv => NoPhantom
  BY DEF KeptInv, NoPhantom
<1> QED BY <1>1, <1>2, NextKept, TypeCorrect, DeploymentsExcluded, PTL DEF Spec
--------------------------------------------------------------------------------
(* The browser's restart of a stack uses the router like any other client. *)

\* From the moment the button is pressed the chain waits for a request of the
\* router.
RestartInv == phase # "none" => by \in Req

\* A press is a teardown asked for, its second half a deployment asked for; the end
\* of the chain is nothing to the router.
LEMMA RestartMaps ==
  RestartInv /\ [RestartNext]_<<vars, restartVars>> => RestartInv' /\ [Next]_vars
<1> SUFFICES ASSUME RestartInv, [RestartNext]_<<vars, restartVars>>
             PROVE  RestartInv' /\ [Next]_vars
  OBVIOUS
<1> USE DEF RestartInv, restartVars
<1>1. ASSUME NEW r \in Req, Press(r) PROVE RestartInv' /\ [Next]_vars
  BY <1>1 DEF Press, Next, AllJobs
<1>2. CASE Torn BY <1>2 DEF Torn, Next, File
<1>3. CASE Over BY <1>3 DEF Over
<1>4. CASE Serve BY <1>4 DEF Serve
<1>5. CASE UNCHANGED <<vars, restartVars>> BY <1>5
<1> QED BY <1>1, <1>2, <1>3, <1>4, <1>5 DEF RestartNext

\* What the browser chains are steps of the router, so the router's invariants hold.
LEMMA RestartImplements == RestartSpec => Spec
<1>1. RestartInit => Init /\ RestartInv BY DEF RestartInit, RestartInv
<1> QED BY <1>1, RestartMaps, PTL DEF RestartSpec, Spec

\* So a restart breaks none of the router's promises: whatever it loses (the run
\* StackRestart), it loses by asking for a teardown.
THEOREM RestartKeepsPromises ==
  RestartSpec => [](DeploysItsOwn /\ AckedKeepsFile /\ NoPhantom)
BY RestartImplements, DeploysOwnFile, AckedStackStays, NoPhantomStack, PTL

\* Where a restart stands with nobody else at work on the project: once its
\* teardown has succeeded the file goes, and a deployment that brings none and
\* finds none cannot get past its preparation.
TornInv ==
  /\ phase # "none" => by \in Req /\ had # NoYaml
  /\ phase = "torn" => pc[by] = "removing" \/ (pc[by] \in {"emptied", "idle"} /\ yaml = NoYaml)
  /\ phase = "up" =>
       /\ yaml = NoYaml /\ mine[by] = NoYaml
       /\ pc[by] \in {"idle", "waiting", "locked", "resolved", "preparing", "failed", "removing", "emptied"}

\* The router's steps for the one request there is.
LEMMA ServedTorn ==
  ASSUME \A r, q \in Req : r = q, TypeOK, TornInv, Serve
  PROVE  TornInv'
<1> USE DEF TornInv, TypeOK, Serve, Waiting
<1>1. CASE phase \in {"none", "over", "down"} BY <1>1
<1>2. CASE phase \in {"torn", "up"} /\ Restart
  BY <1>2 DEF Restart, diskVars, requestVars
<1>3. CASE phase \in {"torn", "up"} /\ ~Restart
  <2>1. by \in Req /\ phase' = phase /\ by' = by /\ had' = had BY <1>3
  <2>2. \/ \E u \in File : AskUp(by, u)
        \/ \E j \in AllJobs : Ask(by, j)
        \/ Up(by) \/ Remove(by) \/ Other(by)
    BY <1>3, <2>1 DEF Next
  <2> USE <1>3, <2>1 DEF Goto, End, Remains, diskVars, dockerVars, requestVars
  <2>3. ASSUME NEW u \in File, AskUp(by, u) PROVE TornInv' BY <2>3 DEF AskUp
  <2>4. ASSUME NEW j \in AllJobs, Ask(by, j) PROVE TornInv' BY <2>4 DEF Ask
  <2>5. CASE Lock(by) \/ MakeDir(by) \/ ResolveDir(by)
    BY <2>5 DEF Lock, MakeDir, ResolveDir
  <2>6. CASE PrepareUpload(by) \/ PrepareStored(by) \/ PrepareMissing(by)
    BY <2>6 DEF PrepareUpload, PrepareStored, PrepareMissing
  <2>7. CASE Write(by) \/ StartCompose(by) \/ ComposeSucceeds(by) \/ ComposeFails(by)
    BY <2>7 DEF Write, StartCompose, ComposeSucceeds, ComposeFails
  <2>8. CASE CleanUp(by) BY <2>8 DEF CleanUp
  <2>9. CASE Remove(by) BY <2>9 DEF Remove, RemoveFile, RemoveDir
  <2>10. CASE Other(by)
    BY <2>10 DEF Other, Settle, Look, DownSucceeds, DownFails, StackOp
  <2> QED BY <2>2, <2>3, <2>4, <2>5, <2>6, <2>7, <2>8, <2>9, <2>10 DEF Up
<1> QED BY <1>1, <1>2, <1>3

LEMMA NextTorn ==
  ASSUME \A r, q \in Req : r = q
  PROVE  TypeOK /\ TornInv /\ [RestartNext]_<<vars, restartVars>> => TornInv'
<1> SUFFICES ASSUME TypeOK, TornInv, [RestartNext]_<<vars, restartVars>> PROVE TornInv'
  OBVIOUS
<1> USE DEF TornInv, restartVars
<1>1. ASSUME NEW r \in Req, Press(r) PROVE TornInv' BY <1>1 DEF Press
<1>2. CASE Torn BY <1>2 DEF Torn, AskUp, Goto, TypeOK, diskVars
<1>3. CASE Over BY <1>3 DEF Over
<1>4. CASE UNCHANGED <<vars, restartVars>>
  BY <1>4 DEF vars, diskVars, requestVars
<1> QED BY <1>1, <1>2, <1>3, <1>4, ServedTorn DEF RestartNext

\* What the run StackRestart finds in one behaviour is so in every one: with nobody
\* else at work on the project, a restart whose teardown succeeded ends without the
\* file the project had ("since they asked for a restart, not a teardown").
RestartTearsDown ==
  [][phase = "up" /\ phase' = "over" => left' = NoYaml /\ left' # had']_<<vars, restartVars>>

THEOREM RestartIsATeardown ==
  ASSUME \A r, q \in Req : r = q
  PROVE  RestartSpec => RestartTearsDown
<1>1. RestartInit => TornInv BY DEF RestartInit, TornInv
<1>2. TornInv /\ [RestartNext]_<<vars, restartVars>>
        => [phase = "up" /\ phase' = "over" => left' = NoYaml /\ left' # had']_<<vars, restartVars>>
  BY DEF TornInv, RestartNext, Press, Torn, Over, Serve, restartVars
<1> QED BY <1>1, <1>2, NextTorn, RestartImplements, TypeCorrect, PTL DEF RestartSpec, RestartTearsDown
================================================================================
