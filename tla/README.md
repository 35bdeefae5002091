# Verification of SKIFF

SKIFF is a container manager: a FastAPI server (`skiff/`) in front of a Docker engine, and a
browser client (`skiff/static/`). This directory holds TLA+ models of the parts of the server and
of the browser whose correctness depends on the order in which things happen, the TLC configurations that
check them on small instances, and TLAPS proofs of their invariants for instances of any size.

* [The system](#the-system): components, state, operations, interactions, hard behaviours
* [Concurrency in SKIFF](#concurrency-in-skiff): what a step of a model is
* [The modules](#the-modules): state, actions, properties, bounds, proofs of each
* [Runs](#runs), [Fairness](#fairness), [Proofs](#proofs)
* [Known disagreements](#known-disagreements) between the code and what the repository says of it
* [What is not modelled](#what-is-not-modelled) and the [plan](#plan)

To check: `tlc -config UndoQueue.cfg MCUndoQueue`; to prove: `tlapm UndoQueue_proofs.tla`.

## The system

| Component | State it keeps | Operations that change it | Modelled in |
|---|---|---|---|
| Undo queue (`undo.py`, `routers/undo_routes.py`) | `_ops` (token → held call with its Timer), `_fire_failures` | enqueue, `_fire`, cancel, `fire_all_now` | UndoQueue, DeferredOps |
| Docker client cache (`docker_client.py`) | `_client`, time of last ping and last failure | get_client (three phases), `invalidate_client` | DockerClient, ClientLife |
| SSH tunnel (`docker_client.py`, `routers/setup.py`) | control socket, target, a Docker socket file, an ssh process of the operating system | start, stop, reconnect, reset | Tunnel |
| WebSocket lockout (`auth.py`) | `_ws_auth_failures` (address → failures, time) | admit, record a failure, clear | Lockout, LockoutPromises |
| Exec and log WebSockets (`routers/containers_ws.py`) | slots per address, registry of exec sessions | acquire, register, session, release, sweep, revalidate | ExecSessions, SlotPool |
| Sessions, token (`auth.py`, `routers/setup.py`) | `api_token`, first and last time each token was seen, setup window | authenticate, rotate, reset-config, setup | Session |
| Compose (`routers/compose.py`) | project directories, their files, one lock per project; containers in the engine | up, down, stop, start, pull, scale, restart of a service | Compose, StackRestart |
| Setup wizard, configuration store (`routers/setup.py`, `config.py`) | `_cfg` (token, docker host, registries) | setup, rotate, reset | actions of Session, DockerClient, Tunnel, ExecSessions, UndoQueue, Wizard |
| Knobs, profile (`routers/system.py`, `config.py`) | `_KNOBS`, module attributes, `PROFILE` | edit a knob, enter reviewer mode | actions of UndoQueue, ExecSessions, Lockout |
| Route guards (`secure.py`, `rate.py`) | the rate limiter's counters | reviewer gate, CSRF, limits, audit | the gate in UndoQueue |
| Containers (`routers/containers.py`) | none; the engine's | run (with global limit, replacement), start … kill, rename, update, delete, files, commit | delete in UndoQueue |
| Images, volumes, networks (`routers/`) | none; the engine's (and helper containers of the volume browser) | pull, push, tag, create, connect, delete, prune | held deletions and prunes in UndoQueue |
| System, health, debug (`routers/`) | none | prune | prune in UndoQueue |
| Audit log, middleware (`logging_setup.py`, `app.py`) | one rotating file | append, read the tail; limits of body size and time | – |
| Validators (`validators.py`) | none | `safe_docker_call` invalidates the client | CallFails in DockerClient |
| Page shell (`static/app.js`, `static/pages/`) | `currentPage`, `#main`, `_managedIntervals`, `_refreshInFlight`, `_lastContainers`, the token in the tab, undo bars | navigate, load, refresh, act, delete and undo, hide and show the tab, sign in and out | Pages |
| Detail view and log streams (`static/app.js`) | the pane of the open tab, its interval, log sockets and their reconnect timers | open, switch tab, answer, reconnect, leave | DetailView |
| Browser wizard (`static/pages/wizard.js`) | the fields of the form, two timers, the acknowledgement of a token | generate, copy, switch tab, tunnel, submit, poll, expire | Wizard, WizardPromises |
| Terminal frame (`static/terminal-frame.js`), helpers (`static/core/`, `ui.js`) | one socket and its reconnect counter; widgets | | – |

Interactions:

* Every destructive route passes `secure_route.mutate`, takes a client from the cache, and hands a
  closure to the undo queue. A Timer thread runs the closure later, with the client object of the
  request that queued it.
* Entering reviewer mode flips `PROFILE`, which the route guards, the undo queue and the exec
  handlers read without a common lock, then sweeps the exec sessions.
* `reset-config` clears token, host and session ages, stops the tunnel, reopens the setup window, clears the
  lockouts and restores the boot profile, one after another; it leaves the client cache and the undo queue alone. Setup writes token and host and
  invalidates the client. Rotation replaces the token and clears the session ages.
* Revalidation on each WebSocket compares the token of the handshake with the server's.
* Shutdown flushes the undo queue on an executor thread with a timeout.
* Every page of the browser calls `apiFetch`, which drops the tab's token on a 401 and writes the login form. A loader
  writes `#main` before its request and after it; what happened in between (navigation, a hidden tab, a sign-out, a detail
  view) it finds out from module globals.
* The browser composes server operations: a delete with its undo bar is a held operation and a cancel; the restart of a
  stack is a teardown and a deployment.

Hard behaviours, and what would make each part correct:

| Part | Hard because | Correct if |
|---|---|---|
| Undo queue | Timer threads, request threads, the flush and the end of the process all want the same operation | one owner each; at most one execution; none after a cancel; none lost while the process lives; read-only is reached |
| Client cache | two locked sections with a ping or a connect of seconds in between | no closed client stays published, no duplicate stays open, a ping vouches for the client it was sent to, and a new host takes effect |
| Tunnel | a pipeline of seconds over processes and files that fail independently of the server | no ssh without an owner; the stored target is true; the socket is that of the known ssh; lock and files come back |
| Lockout | the check and the record are separate critical sections | a bound on guesses; a report of every lockout |
| WebSockets | awaits between check, registration, use and clean-up | exact counts; no shell survives a switch to read-only; revoked tokens end their sessions |
| Sessions | ages and token change in different steps | a session belongs to its token; one that expired can be renewed |
| Compose | several commands on one directory, only some under the lock | a deployment runs the file it validated; what was acknowledged can be taken down |
| Page shell | every loader is cut in two by its request, and one flag, one interval and one token are shared by all | no answer paints a page that was left; the list is refreshed by exactly one interval; the login form is there only for a tab without a token, but for one whose rotation was overtaken |
| Detail view | panes, intervals, sockets and reconnect timers outlive the tab they were made for | what is shown belongs to the container in the header; signed out, no stream is left |
| Wizard | the token lives in a form while the window closes, answers get lost and another operator sets up | no token the operator has neither acknowledged nor downloaded is configured; the end of the window comes to show |

## Concurrency in SKIFF

Synchronous handlers run in a thread pool, asynchronous ones (and WebSockets) on the event loop,
Timers on threads of their own. So in a model of threads (UndoQueue, DockerClient, Tunnel, Lockout,
Session, Compose) one step is a critical section, or what lies between two of them, and in the model
of coroutines (ExecSessions) what lies between two awaits. JavaScript in the browser (Pages, DetailView, Wizard) runs one callback
at a time: a step is a click, a timer, or what follows an await. Reads of a module global without a lock are
steps of their own where another thread can change it in between. Docker, ssh and the file system are
external: a call of theirs ends in any of the ways the code distinguishes.

Time is abstracted to what the code compares: a timer is pending or may have run out; ages are
counted in ticks and capped just above the timeout they are compared with (Lockout, Session).

## The modules

Each component `X` has its model `X.tla`, an instance for TLC `MCX.tla` (which adds the
symmetry set and what the repository claims and the code does not keep) with `X.cfg`. Proofs are in `X_proofs.tla`; three proof modules hold those of two components each: Auth_proofs (Lockout, Session),
Browser_proofs (DetailView, Wizard), Compose_proofs (Compose, StackRestart).

Five modules say what a component promises without its mechanism: DeferredOps, ClientLife, SlotPool and the hand-over of
WizardPromises are specifications their components are proved to implement; LockoutPromises and the other half of WizardPromises state
the properties of a component over its variables alone. Lockout and Wizard extend theirs, and a proof module extends it too: it can then name the
properties of two components, which it could not if it extended both (each has a `Next`). Operators used only to show that a property
can fail, each a plausible slip in the code, stand before the action they vary, under a comment that starts
with "mutant"; no specification uses them.

### UndoQueue, DeferredOps

`ops` is `_ops`; `timer`, `fired`, `interval` are the fields of an entry and its Timer;
`request`, `fire`, `undo`, `flushPc`/`flush`/`flushing` are program counters of the request, the Timer
thread, the cancel and the flush; `phase` is the process. `called` and `outcome` record the effect on the
engine. The pops under the lock (`FirePop`, `CancelPop`, `FlushSnapshot`) and what comes after them are
separate actions, so that each hand-over can be overtaken. The reviewer switch, reset, setup and the knob editor are
actions, because `_fire` and `enqueue` read what they write. A cancel may be sent again and again; `denied` is the history of those
answered "too late". The call of a held operation is a `safe_docker_call`, which turns the engine's `NotFound` into an HTTP error, so
`CallHeld` counts a target already gone where `_fire`, which looks for `NotFound`, means not to (`GoneIsNoFailure`).

Properties: `AtMostOnce`, `NothingStranded` (an accepted operation has a Timer or a thread as long as the process lives, and a clean exit loses none but
those a Timer thread has taken), `DepthBounded`, `TooLateIsTrue` (the operation of a cancel answered "too late" was cancelled
by an earlier one, or taken by its Timer thread), `FailuresCounted` (the counter is the number of held calls that failed or found their target gone); as action property `ReadOnlyQuiesces` (no thread passes the gate of a
read-only instance; those past it become fewer); refinement `KeepsPromise`: the queue implements
**DeferredOps**, where an operation is held and then exactly one of executed, cancelled, dropped or lost.
The mapping is `Disposition`. Liveness, through the mapping: `HoldsEnd`. Two more invariants, `Ownership` (the inductive
one) and `CancelIsFinal`, are proved and not run.

Bounds: two operations, depth zero (undo disabled) or one, so that the two compete for one slot, either may race its Timer, a
cancel and the flush, and the operator may edit the depth under them; one Timer delay, since only whether it has passed
matters. The safety properties are proved for any number of operations.

### DockerClient, ClientLife

`client`, `fresh` (the ping is recent), `backoff` are the globals; `open` and `dropped`
account for client objects, `builtFor` for the host of each. A thread goes through fast path, snapshot, ping,
discard, connect, publish. Setup and reset write the host and invalidate in the order of the code.

Properties: `ClosedIsBeingDiscarded`, `OpenIsAccounted`, `FreshIsItsOwn`. Bounds: two threads, four
client objects (published, one being built by each thread, one dropped), two hosts; an object nobody refers to
is collected and may be built again.

**ClientLife** is the life of a client object with no threads: connected by one builder, published if nothing is, closed once; only a failed
build lets go of open objects. DockerClient is proved to implement it (`CacheKeepsLife`).

### Tunnel

`lock`, `ctl`, `target` are the globals under `_tunnel_lock`; `step`, `arg`, `own`, `conf` belong to
a request in the pipeline; `alive`, `to` and `file` are the operating system's: which ssh masters run, where
to, and who bound the file at the socket path. The pipeline has one action per call to ssh or the
file system. `Failures` names what may go wrong beyond ssh refusing to start: `ssh -O exit` failing, a forward not
bound, the socket file or the temporary config that cannot be removed; `failed` records those that happened, so that a property can
say which it needs not to have happened.

Properties: `NoOrphan` (while ssh exits when told and binds its socket, even if files could not be unlinked), `SocketIsOwn` (while unlinking worked),
`TargetIsTrue` (always), `ConfigRemoved` (whatever step fails, the unlink of the temporary config is tried before the lock is given back, and
only its own failure leaves the file), and `LockReleased` under fairness. Bounds: two requests, enough for every overlap at the lock (a third
only waits), two ssh masters (the known one and the one being spawned), two hosts.

### Lockout, LockoutPromises

One entry of the table: `count`, `age`; `pending` are the attempts between the check and the
verdict; `max` is the threshold, which the operator may edit; `alerted` and `lowered` record whether the lockout
in force was reported and whether the threshold was lowered while failures were on record.

Properties: `GuessesBounded` (failures on record and attempts in flight stay below the largest threshold plus the
number of concurrent attempts) and `LockoutAlerted`. Bounds: four concurrent attempts against thresholds one to
three, so that attempts outnumber the threshold; a lockout of three ticks and handshakes of two, so that an attempt may
span a lockout's end.

### ExecSessions, SlotPool

`slots` and `active` are the module's dictionaries; `pc`, `sock`, `bound`, `kind`, `ip`
belong to a connection; `switch` and `sweep` to a request to enter reviewer mode. Registration happens
after the check of the profile; the sweep copies the registry, clears it and closes the sockets one await
at a time.

Properties: `SlotsMatch`, `SweepCovers`, `ReviewerHasNoShell`; liveness `SlotReturned`,
`RotationCloses`. Bounds: two connections of one address that compete for one slot, one switch, two tokens. The safety properties
are proved for any number of connections, addresses and switches at once, and for limits that move.

**SlotPool** has the set of holders per address where the code has a number counted up in one place and down in three. ExecSessions is proved to
implement it (`CounterIsAPool`), from which no address ever exceeds the largest limit, although the limit may be lowered under it.

### Session

`token`, `host`, `window` are the configuration; `seen`, `first`, `last` the two dictionaries of
`_check_session_age`, as ages; `held` is the time the server has had its token. Requests verify, then track the age; rotation,
reset and setup store, then clear, in the code's order.

Properties: `SessionIsOwn`. Bounds: two requests or sockets, two tokens which may come back, timeouts of two and one
ticks (absolute longer than idle).

### Compose

One project: `dir` and `yaml` are its directory and compose file, `lock` its mutex,
`stack` the file its containers were made of; `acked` and `clash` record whether a deployment was acknowledged since the
last teardown and whether a teardown overlapped a deployment. Up resolves the directory,
writes, runs the command and cleans up, all under the lock; down, stop, start, pull, scale take no lock;
a held teardown is an ordinary one that runs later.

Properties: `DeploysItsOwn`, `AckedKeepsFile`, `NoPhantom`. Bounds: three requests (two deployments and a
teardown) and two files (one another request replaces).

**StackRestart** extends Compose with the browser's button "Restart all" (`static/pages/compose.js:219`): press, wait for
the teardown, deploy without a file. `RestartIsNoTeardown`, that the project has its file again when the restart is over, is
violated with one browser and nobody else at work.

### Pages

`page` is `currentPage`, `view` what `#main` displays, `pending` the requests in flight with whether they carry a token and, if
an action sent them, the loader to call afterwards; `polls` counts the armed intervals, `inFlight` is `_refreshInFlight`, `listed`
whether `_lastContainers` is set, `undoBar`, `undone` the open bar. `Load` is the first half of every loader; the second halves differ in what they
check before they paint (`ContainersOk`, `ListAnswered`, `TolerantAnswered`, `DashboardAnswered`, `SystemAnswered`, …), which is why
they are actions of their own. `Unauthorized` is the 401 of `apiFetch`. The System page also rotates the token and resets the configuration
(`RotateToken`, `ResetConfig` and their answers): the answer of a rotation stores the new token, whatever has happened to the tab since.
`origin` remembers whether the token came from the form or from a rotation that was answered when the tab had none: such a tab may hold a
token under its login form, which `LoginIsNeeded` says is the only way besides the confirmation of the sign-in, and nothing
promises that its list is refreshed (`ListIsRefreshed`). The comment at the rotation means to exclude it; `RotatorStaysIn` states that and is violated.

Properties: `PageMatches`, `OnePoller`, `FlagHasRequest`, `ListIsRefreshed`, `LoginIsNeeded`, `DetailKept`. Bounds: all nine pages, two requests
in flight (the one that waits and the one that overtakes it), one undo bar. The properties are proved for any number of requests.

### DetailView

`shown` is the container and tab in the header, `content` whose data the pane holds, `viewer` the log viewer on the screen;
`stream`, `lines` belong to a viewer, `mainWs` is `main._ws`; `asked` the requests in flight, `poll` the interval. A request remembers
the pane it was sent for, since an element that was replaced lives on in the closure that holds it.

Properties: `LinesAreOwn`, `ContentIsOwn`, `PollIsOwn`, `SignedOutSilent`. Bounds: two containers, two viewers whose streams are
not over (the one shown and the one left), two requests, two reconnects.

### Wizard, WizardPromises

`field` is the form's token, `made` and `taken` which tokens were generated and which the operator clicked Copy for or downloaded, `captured`
which of them reached the clipboard or a file, `acked`, `saveOn`, `sessionOn` the locks of
the two buttons, `mode`, `host`, `tunnel`, `probing` the choice of the engine, `polling`, `ticking`, `polls` the timers and answers about the
window; `server`, `given`, `window` are the server's. Submissions are sent, admitted, applied and answered in separate steps, and may be lost in between.
Another operator's setup is cut in the same two steps (`rival`), so it may overwrite a token that was applied in between. The window has a last
second, in which the server still accepts and already reports no time left, since it counts whole seconds.

The click on Copy unlocks In-memory, whether or not the write to the clipboard succeeds; `Clipboard` says whether it may succeed and may fail. So what holds is
`TokenIsTaken`, of the click. `TokenIsCaptured`, of the clipboard or the file, is a theorem where writes succeed (`CapturedIfCopied`) and is violated where one may fail.

Properties: `TokenIsTaken`, `StoredWasGiven`; liveness `ExpiryIsShown`. Bounds: two tokens, two submissions in flight (`MaxInFlight`), one other
operator; a clipboard that works, since nothing but the history `captured` depends on it; the window of one life of the server, which does not open again.

The hand-over in **WizardPromises** is the same without form, buttons, polls and requests: a token is taken, then configured, then signed in
with; another operator may replace it on the server at any time. Wizard is proved to implement it (`WizardHandsOver`).

## Runs

| Run | Asks | Answer |
|---|---|---|
| undo_queue | safety, refinement and liveness of the queue, all interleavings with cancel, shutdown, crash, reviewer switch, reset, setup, knobs | holds, 134 672 states |
| docker_client | is the cache consistent in every interleaving of its phases? | holds, 145 150 states |
| exec_sessions | are slots exact and given back, exec sessions swept, sessions of a rotated token closed? | yes, 338 580 states |
| tunnel | what survives each failure of ssh and the file system, under any overlap? Does the lock come back? | holds, 2 029 024 states |
| lockout | how many guesses, is each lockout reported? | bounded; reported, 13 905 states |
| session | can a session outlive or predate its token? | no, 1 286 484 states |
| compose | what do overlapping deployments and teardowns do to a project? | the three properties hold, 435 744 states |
| pages | what do late answers paint, is the container list refreshed once and always, what is under a login form? | holds, 1 476 133 states |
| detail_view | do late answers, intervals and reconnects show another container's data, or survive the session? | no, 220 592 states |
| wizard | can a token be configured that the operator has neither acknowledged nor downloaded; does the end of the window show? | no; yes, 1 724 896 states |
| session_recovers | can an expired session be renewed by signing in, as the documentation says? | **no**: the token is refused for ever |
| stack_restart | is a restarted stack the stack it was? | **no**: its file is gone, and it is not deployed |

TLC checks for deadlock everywhere but in UndoQueue, whose process ends.
Symmetry is used only where no liveness property is checked. Types are theorems, not runs.

## Fairness

Weak fairness, per thread, of steps the code takes once started, since each external call has a timeout:
a request's, Timer's and flush's own steps (UndoQueue), the pipeline under the lock (Tunnel), a handler or pump the event loop can run,
the keepalive whose interval elapses, the sweep (ExecSessions), requests and revalidations (Session). In the browser, the
ticker that is armed fires (Wizard); nothing is assumed of answers. Nothing is
assumed of clients, peers, operators, shells or signals, and nothing of the acquisition of a `threading.Lock`,
which is not fair. The exception is `SessionRecovers`, where the operator goes on signing in: the
property would be void if she gave up.

## Proofs

Proofs are for all values of the constants under the named assumptions: sentinels lie outside the sets they
complete; tokens, connections and attempts form finite sets where they are counted; depths and thresholds are bounded
by their largest value; `TimeAssumption` types the timeouts; `ClipboardAssumption` lets a write to the clipboard succeed, fail or either.

| Module | Theorems | Argument |
|---|---|---|
| UndoQueue_proofs | `TypeCorrect`, `OwnershipHolds`, `ExecutedAtMostOnce`, `CancelStands`, `NothingLeftBehind`, `TooLateOnlyIfTaken`, `DepthNeverExceeded`, `ReadOnlyIsReached`, `QueueKeepsPromise`, `FailuresAreCounted`, `SettledIsFinal` | `Ownership` is inductive: the pop under the lock is the only hand-over, so each operation is with its request, in the dict, or with one thread. At-most-once and finality are not inductive alone: nothing in them says that the thread about to call has no rival. The others follow from it; the refinement maps each step with `Ownership` as the fact that the operation was still held, and `SettledIsFinal` is an action property of DeferredOps carried over. For the exit, `ExitInv` adds that the flush is over, and has settled what it took, before the process ends cleanly. The count of failures grows by one exactly when a taken operation, which has no outcome yet, gets one. |
| DockerClient_proofs | `TypeCorrect`, `NoClosedClientStays`, `EveryOpenClientAccounted`, `StampIsOwn`, `CacheKeepsLife` | the conjunction of the three invariants is inductive; the refinement derives an object's life from where the code refers to it, and needs them to know that the object a thread closes was open |
| ExecSessions_proofs | `TypeCorrect`, `NoShellForReviewer`, `SweepMissesNobody`, `SlotsAccounted`, `CounterIsAPool`, `HoldersStayWithin`, `SlotsOnlyGoBack` | `SweepInv`: a reachable shell is registered, or in some sweep; once read-only, registration is refused. The counters by cardinality of the holders. The refinement replaces the number by the set; the bound is proved of the pool's steps. `SlotsOnlyGoBack`: a handler that holds a slot is counted, so the floor at zero of the release is never met, and its position is one of a chain that ends in the finally. |
| Tunnel_proofs | `TypeCorrect`, `PipelineExcluded`, `NoConfigLeft`, `TargetStaysTrue`, `SocketBelongs`, `NothingOrphaned`, `HolderAdvances` | `LockInv` (who is past `Enter` holds the lock) first; then what the holder's position says of the globals, the file and the processes. `HolderAdvances`: only the holder moves in the pipeline, each step goes to a position ahead of the one before (`Ahead` is acyclic), and the last one gives the lock back. |
| Auth_proofs | `LockoutTypeCorrect`, `GuessesStayBounded`, `EveryLockoutAlerted`; `TypeCorrect`, `SessionStaysOwn`, `LockedOutStays` | an attempt is admitted only below the threshold; the alert needs a handshake shorter than the lockout (`TokenTimeout < LockoutSecs`). `OwnInv`: with ages cleared after the token changes, an entry for the current token is at most as old as the token. `LockedOut` is preserved: an age never falls, and all that would clear it is behind the check it fails. |
| Compose_proofs | `TypeCorrect`, `DeploymentsExcluded`, `DeploysOwnFile`, `AckedStackStays`, `NoPhantomStack`; `RestartKeepsPromises`, `RestartIsATeardown` | `LockInv` covers the deployment from its first look to its clean-up; teardowns, which take no lock, only remove. A restart's steps are the router's, by construction of its model (lemma `RestartImplements`), so it inherits its invariants; `RestartInv` adds that what the browser sends is a request like any other. `RestartIsATeardown` is by `TornInv`: with one client there is no file from the teardown on, and the deployment, which brings none, stops before it writes. |
| Pages_proofs | `TypeCorrect`, `PaintedIsCurrent`, `DetailStays`, `OneRefresh`, `FlagComesDown`, `ListStaysFresh`, `LoginOnlyIfNeeded` | `PendingOK`, part of the type invariant: a request sent by an action names the loader it will call. `PageMatches` is inductive since every second half compares the page before it paints. `FlagHasRequest` is inductive, since each way of answering lowers the flag. `ListIsRefreshed` needs both: the list on the screen is the page the user is on, and a refused second load left the first one in flight. `LoginOnlyIfNeeded`: a token comes from the form, or from a rotation, whose answer records that it found none. |
| Browser_proofs | `DetailTypeCorrect`, `LinesStayOwn`, `ContentStaysOwn`, `PollStaysOwn`, `SignedOutStaysSilent`; `WizardTypeCorrect`, `TokenStaysTaken`, `CapturedIfCopied`, `StoredIsGiven`, `WizardHandsOver` | `PaneInv`: a request that still has its pane on the screen was sent for the container and tab in the header; a pane that is replaced is no request's any more, so a late answer paints the header's own data or an element nobody sees. `LogInv`: the stream and the lines of the viewer on the screen are of the container in the header. `TakenInv`: the acknowledgement is of the token in the field, and every submission under way carries a token that was taken. `GivenInv`: an accepted submission's token was the server's. The hand-over follows from both. |

Two findings are theorems as well: `RestartIsATeardown` and `LockedOutStays` say of every behaviour what the runs stack_restart and
session_recovers show in one. The first is stated for one client at work (`\A r, q \in Req : r = q`), as the finding is; with others, somebody may deploy
the project again in between.

Only model-checked: liveness (`HoldsEnd`, `SlotReturned`, `RotationCloses`, `LockReleased`, `ExpiryIsShown`), since fairness rests on ENABLED and the
prover has no rules for it; `HolderAdvances` is the safety half of `LockReleased`, `SlotsOnlyGoBack` that of `SlotReturned`. What configurations show to be violated is, of course, not proved.
Every invariant and action property of the runs is a theorem.

## Known disagreements

Two are runs of their own. The others are stated beside the models they come from; a configuration holds those of one
module, and TLC stops at the first it finds (commented out, the next one shows).

| Property, configuration | The repository says | The code does |
|---|---|---|
| `RestartIsNoTeardown`, StackRestart.cfg (run stack_restart) | `compose.js:220`: the user asked for a restart, not a teardown | the teardown removes the directory with the file, and the deployment that follows brings none |
| `SessionRecovers`, SessionRecovers.cfg (run session_recovers) | `docs/troubleshooting.md:182`: the session timer resets on re-authentication | `auth.py:83` refuses without forgetting the entry, and everything that would forget it is behind the same check |
| `ConnectUnderLock`, ClientDisagreements.cfg | `docker_client.py:61`: the lock is held during the connect | the connect is outside the lock |
| `ServesConfiguredHost`, ClientDisagreements.cfg | `docker_client.py:213`: forces reconnect on next call | a build that read the previous host publishes after the invalidation |
| `FailureKeepsOthersClient`, ClientDisagreements.cfg | `docker_client.py:183`: a client installed meanwhile is the winner | a failing build clears whatever is installed |
| `Serialised`, ComposeSerialised.cfg | `compose.py:30`: mutex for the compose_up / compose_down pipeline | `compose_down` takes no lock |
| `CleanExitDropsNothing`, UndoDisagreements.cfg | `app.py:364`: a clean SIGTERM drops nothing silently | an operation a Timer thread has popped is in no list the flush sees |
| `EditedWindowApplies`, UndoDisagreements.cfg | `system.py:134`: enqueue reads the knob per call | the queue copied the knob when it was created |
| `RemainingIsTrue`, UndoDisagreements.cfg | `docs/audit-events.md:120`: `remaining` operations stay in memory | the dict is already empty when it is counted |
| `ReadOnlyHolds`, UndoDisagreements.cfg | `undo.py:103`: a pending destroy is not honoured after the switch to read-only | `fire_all_now` calls every pending operation without that check |
| `GoneIsNoFailure`, UndoDisagreements.cfg | `undo.py:126` and `docs/audit-events.md:117`: a target already gone is not counted as a failure | the held call is a `safe_docker_call`, which turns the `NotFound` into an HTTP error (`validators.py:300`), and `_fire` counts it |
| `SetupClosesAll`, ExecSetupClosesAll.cfg | `auth.py:349`: a new token closes every live WebSocket | one opened before any token was set has none to compare |
| `NoneOrphaned`, TunnelDisagreements.cfg | `docker_client.py:464`: without the lock a caller leaves an orphan | a socket that does not appear in time leaves one, lock or not |
| `ReconnectKeepsTarget`, TunnelDisagreements.cfg | `docker_client.py:572`: the target persists across drops | a failed reconnect has cleared it |
| `ManualIsManual`, TunnelDisagreements.cfg | `docker_client.py:376`: no half-finished state observable | the target is read without the lock, and empty during another reconnect |
| `ResetStops`, TunnelDisagreements.cfg | `setup.py:607`: stop tunnel | a reconnect waiting for the lock opens it again |
| `WizardOnly`, TunnelDisagreements.cfg | `setup.py:389`: wizard-only | the check precedes a pipeline of seconds |
| `ActivationAlerted`, LockoutSilent.cfg | `docs/audit-events.md:24`: emitted on the attempt that crosses the threshold | a threshold lowered to the failures on record is never crossed |
| `SetupOnce`, SessionDisagreements.cfg | `setup.py:371`: not already configured | nothing holds between the check and the write |
| `RotateHoldsToken`, SessionDisagreements.cfg | `setup.py:571`: the caller holds a valid token | without a token configured, everybody passes |
| `RotatorStaysIn`, PagesDisagreements.cfg | `system.js:59`: the session storage is updated so that the user gets no 401 by their own request | a request that carries the old token can be answered 401 before the rotation's own answer: the login form comes up, and then the new token is stored under it |
| `DetailNoGhost`, DetailDisagreements.cfg | `app.js:1617`: a clean close is navigation away | the close of a left viewer carries no code, and another container's viewer is enough for the timer at `app.js:1632` |
| `DetailNotStomped`, DetailDisagreements.cfg | `app.js:1466`: the previous tab's intervals are killed so that they do not stomp on the new one | the request such an interval has already sent still paints |
| `TokenIsCaptured`, WizardDisagreements.cfg | `wizard.js:243`: a token is not saved server-side without the user having captured it | In-memory unlocks on the click, and the write to the clipboard may fail (`wizard.js:268`) |
| `WizardStoredIsServers`, WizardDisagreements.cfg | `setup.py:371`: not already configured | two setups pass the check together, and the first one's tab keeps a token that was replaced |
| `WizardTunnelHost`, WizardDisagreements.cfg | `wizard.js:332`: the tunnel tab has the live socket as the host | the probe's answer, or a look at the local tab, has replaced it in `#sw-host` |
| `WizardReRenders`, WizardDisagreements.cfg | `wizard.js:143`: stop polling and let app.js re-render | nothing renders again |
| `WizardExpiredLocks`, WizardDisagreements.cfg | `wizard.js:97`: an expired wizard has both buttons locked | Copy unlocks one of them afterwards |

Seen while modelling and outside the models: the undo bar tells "Operation undone." for an answer `cancelled: false`
(`app.js:72`, `app.js:194`); a terminal frame closed with 4003 offers no restart (`terminal-frame.js:219`); the drop target of the
file panel stays that of the previous directory while the next is loading or failed to load (`app.js:2497`).

## What is not modelled

* Data and its checks: parsing of quantities, names, compose files, redaction, rendering of answers, metrics, documentation,
  catalogues. They decide whether a request is refused before it has an effect.
* The rate limiter (slowapi), the rotating audit file (Python's handler behind its lock), and the eviction from the
  bounded tables of addresses and tokens.
* The engine's own objects beyond what a property needs: whether a held call was executed, who made a project's
  containers. So the creation of a container with its limit, its replacement and their failures are left out: the server keeps nothing
  between two calls to the engine, and what a count or a removal answers is the engine's.
* The client a held operation keeps across reset and setup: DeferredOps has no host and DockerClient no held operation.
* The registry of knobs with its sources; an edit is an action of the modules that read the knob.
* In the browser: the terminal frame and the iframes that keep terminals, the timers that warn before a session ends, the
  notification list and status banner, palette, tour, sidebar and theme, the widgets of `ui.js`, and everything that is layout, sorting or filtering.
* Vendored code, tools and tests.

## Plan

Written in this order because the undo queue decides what destructive work happens, and the rest by how much concurrent
state they share: UndoQueue with DeferredOps; DockerClient; ExecSessions; Tunnel; Lockout; Session; Compose; then the browser: Pages, DetailView, Wizard, StackRestart.
All are written and have proofs. The abstract specifications are those of the undo queue, the life of client objects, the pool of slots and the hand-over of a token.

Next:

1. **Setup** as a composition: a held operation keeps the client, hence the host, of its request; reset and setup in between. Composes
   DeferredOps with ClientLife, each client with its host.
2. Refinements of the two components that only promise invariants: Tunnel (one master, one target), Lockout (failures as a bag of attempts).
3. **Terminal** (`static/terminal-frame.js` with `ExecSessions`): the counter of reconnects against a server that accepts and refuses.
4. **UndoBar**: Pages' delete and undo over DeferredOps, with the server's window against the bar's.
