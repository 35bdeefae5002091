------------------------------- MODULE UndoQueue -------------------------------
(***************************************************************************)
(* skiff/undo.py: the in-memory queue of delayed destructive operations,   *)
(* together with everything that touches it concurrently:                  *)
(*   - the request threads that enqueue (DELETE ... ?undo=true),           *)
(*   - one threading.Timer thread per held operation (_fire),              *)
(*   - the request threads that cancel (POST /api/undo/{token}),           *)
(*   - the lifespan shutdown, whose executor thread runs fire_all_now,     *)
(*   - the reviewer switch, reset-config and the live knob editor, which   *)
(*     change what _fire and enqueue read.                                 *)
(* A step is what one thread does under self._lock, or between two such    *)
(* sections.  An operation is named by its undo token.                     *)
(***************************************************************************)
EXTENDS Integers, FiniteSets

CONSTANTS
  Token,          \* undo tokens, one per destructive request
  BootDelay,      \* config.UNDO_DELAY_SECS when skiff.undo is imported
  Delays,         \* the values UNDO_DELAY_SECS may be edited to at run time
  Depths,         \* the values UNDO_QUEUE_MAX_DEPTH may take
  MaxDepth,       \* the largest of them
  BootReviewer,   \* config._BOOT_PROFILE = "reviewer"
  NoOp            \* stands for "no operation"

ASSUME TokenAssumption == IsFiniteSet(Token) /\ NoOp \notin Token
ASSUME DelayAssumption == BootDelay \in Nat /\ Delays \subseteq Nat
ASSUME DepthAssumption == MaxDepth \in Nat /\ Depths # {} /\ Depths \subseteq 0..MaxDepth
ASSUME ProfileAssumption == BootReviewer \in BOOLEAN

VARIABLES
  ops,            \* keys of UndoQueue._ops
  timer,          \* timer[t]: the Timer of the operation
  fired,          \* fired[t]: _PendingOp.fired
  request,        \* request[t]: where the destructive request stands
  fire,           \* fire[t]: where the Timer thread stands inside _fire
  undo,           \* undo[t]: where the POST /api/undo/t that found t stands
  denied,         \* history: the tokens a POST was answered cancelled=false for
  interval,       \* interval[t]: the delay its Timer was built with
  called,         \* called[t]: how many times op.fn was called
  outcome,        \* outcome[t]: what the last call did
  failures,       \* UndoQueue._fire_failures
  flushPc,        \* where the thread running fire_all_now stands
  flush,          \* its local list `pending`
  flushing,       \* the operation it is about to call
  phase,          \* the process: serving, then the lifespan shutdown
  remaining,      \* `remaining` of undo.shutdown_flush_timeout, -1 if not logged
  reviewer,       \* config.PROFILE = "reviewer"
  configured,     \* config._cfg.api_token is set
  knobDelay,      \* config.UNDO_DELAY_SECS
  knobDepth       \* config.UNDO_QUEUE_MAX_DEPTH

queueVars   == <<ops, timer, interval, fired>>
callVars    == <<called, outcome, failures>>
undoVars    == <<undo, denied>>
clientVars  == <<request, undoVars>>
flushVars   == <<flushPc, flush, flushing>>
processVars == <<phase, remaining>>
configVars  == <<reviewer, configured, knobDelay, knobDepth>>
vars == <<queueVars, callVars, clientVars, fire, flushVars, processVars, configVars>>

Timers   == {"none", "built", "armed", "expired", "cancelled"}
Requests == {"new", "admitted", "sync", "inserted", "queued", "done"}
Fires    == {"idle", "calling", "popped", "running", "skipped", "ended"}
Undos    == {"none", "popped", "cancelled"}
Outcomes == {"none", "ok", "gone", "failed"}
Phases   == {"serving", "flushing", "closing", "exited", "crashed"}

TypeOK ==
  /\ ops \subseteq Token
  /\ timer \in [Token -> Timers]
  /\ fired \in [Token -> BOOLEAN]
  /\ request \in [Token -> Requests]
  /\ fire \in [Token -> Fires]
  /\ undo \in [Token -> Undos]
  /\ denied \subseteq Token
  /\ interval \in [Token -> Nat]
  /\ called \in [Token -> Nat]
  /\ outcome \in [Token -> Outcomes]
  /\ failures \in Nat
  /\ flushPc \in {"none", "start", "loop", "done"}
  /\ flush \subseteq Token
  /\ flushing \in Token \union {NoOp}
  /\ phase \in Phases
  /\ remaining \in Int
  /\ reviewer \in BOOLEAN /\ configured \in BOOLEAN
  /\ knobDelay \in Nat
  /\ knobDepth \in 0..MaxDepth

Init ==
  /\ ops = {}
  /\ timer = [t \in Token |-> "none"]
  /\ fired = [t \in Token |-> FALSE]
  /\ request = [t \in Token |-> "new"]
  /\ fire = [t \in Token |-> "idle"]
  /\ undo = [t \in Token |-> "none"] /\ denied = {}
  /\ interval = [t \in Token |-> 0]
  /\ called = [t \in Token |-> 0]
  /\ outcome = [t \in Token |-> "none"]
  /\ failures = 0
  /\ flushPc = "none" /\ flush = {} /\ flushing = NoOp
  /\ phase = "serving" /\ remaining = -1
  /\ reviewer = BootReviewer /\ configured = TRUE
  /\ knobDelay = BootDelay /\ knobDepth \in Depths

Alive == phase \notin {"exited", "crashed"}
\* secure._reject_if_reviewer lets the request through: the gate is open before
\* the wizard has set a token.
ReadOnly == reviewer /\ configured
--------------------------------------------------------------------------------
(* The destructive request, on a thread of the request pool. *)

\* The guards of secure_route.mutate have passed; the handler is about to run.
Admit(t) ==
  /\ phase = "serving" /\ request[t] = "new"
  /\ ~ReadOnly
  /\ request' = [request EXCEPT ![t] = "admitted"]
  /\ UNCHANGED <<queueVars, callVars, undoVars, fire, flushVars, processVars, configVars>>

\* mutant: the depth is compared off by one.
RefuseOneLate == BootDelay = 0 \/ Cardinality(ops) > knobDepth

\* enqueue refuses: undo was off at import, or the queue is full under the lock.
Refuse == BootDelay = 0 \/ Cardinality(ops) >= knobDepth

EnqueueRefused(t) ==
  /\ Alive /\ request[t] = "admitted"
  /\ Refuse
  /\ request' = [request EXCEPT ![t] = "sync"]
  /\ UNCHANGED <<queueVars, callVars, undoVars, fire, flushVars, processVars, configVars>>

\* The section of enqueue under the lock: the Timer is built, not started.
EnqueueInsert(t) ==
  /\ Alive /\ request[t] = "admitted"
  /\ ~Refuse
  /\ ops' = ops \union {t}
  /\ timer' = [timer EXCEPT ![t] = "built"]
  /\ interval' = [interval EXCEPT ![t] = BootDelay]
  /\ request' = [request EXCEPT ![t] = "inserted"]
  /\ UNCHANGED <<fired, callVars, undoVars, fire, flushVars, processVars, configVars>>

\* mutant: the Timer is never started.
EnqueueNoStart(t) ==
  /\ Alive /\ request[t] = "inserted"
  /\ request' = [request EXCEPT ![t] = "queued"]
  /\ UNCHANGED <<queueVars, callVars, undoVars, fire, flushVars, processVars, configVars>>

\* t.start() outside the lock, then the route answers with the token.
EnqueueStart(t) ==
  /\ Alive /\ request[t] = "inserted"
  /\ timer' = [timer EXCEPT ![t] = IF @ = "built" THEN "armed" ELSE @]
  /\ request' = [request EXCEPT ![t] = "queued"]
  /\ UNCHANGED <<ops, interval, fired, callVars, undoVars, fire, flushVars, processVars, configVars>>

\* op.fn: the Docker call works, finds the target gone, or raises.
Call(t, result) ==
  /\ called' = [called EXCEPT ![t] = @ + 1]
  /\ outcome' = [outcome EXCEPT ![t] = result]

\* The fall-back of every route when enqueue returned None: the call is made in
\* the request; a failure is its HTTP error, not a fire failure.
RunInRequest(t) ==
  /\ Alive /\ request[t] = "sync"
  /\ \E result \in Outcomes \ {"none"} : Call(t, result)
  /\ request' = [request EXCEPT ![t] = "done"]
  /\ UNCHANGED <<queueVars, failures, undoVars, fire, flushVars, processVars, configVars>>
--------------------------------------------------------------------------------
(* The Timer thread of an operation. *)

\* Timer.run: the wait ends with `finished` unset, so _fire is entered.
Expire(t) ==
  /\ Alive /\ timer[t] = "armed"
  /\ timer' = [timer EXCEPT ![t] = "expired"]
  /\ fire' = [fire EXCEPT ![t] = "calling"]
  /\ UNCHANGED <<ops, interval, fired, callVars, clientVars, flushVars, processVars, configVars>>

\* _fire under the lock: whoever pops the token owns the operation.
FirePop(t) ==
  /\ Alive /\ fire[t] = "calling"
  /\ ops' = ops \ {t}
  /\ fire' = [fire EXCEPT ![t] = IF t \in ops THEN "popped" ELSE "ended"]
  /\ UNCHANGED <<timer, interval, fired, callVars, clientVars, flushVars, processVars, configVars>>

\* mutant: no reviewer gate in the Timer thread.
FireUngated(t) ==
  /\ Alive /\ fire[t] = "popped"
  /\ fired' = [fired EXCEPT ![t] = TRUE]
  /\ fire' = [fire EXCEPT ![t] = "running"]
  /\ UNCHANGED <<ops, timer, interval, callVars, clientVars, flushVars, processVars, configVars>>

\* op.fired is set and the reviewer gate read, both outside the lock.
FireGate(t) ==
  /\ Alive /\ fire[t] = "popped"
  /\ fired' = [fired EXCEPT ![t] = TRUE]
  /\ fire' = [fire EXCEPT ![t] = IF reviewer THEN "skipped" ELSE "running"]
  /\ UNCHANGED <<ops, timer, interval, callVars, clientVars, flushVars, processVars, configVars>>

\* mutant: a target that is already gone is not counted.
CallHeldSkipsGone(t) ==
  \E result \in Outcomes \ {"none"} :
    /\ Call(t, result)
    /\ failures' = IF result = "failed" THEN failures + 1 ELSE failures

\* The call of a held operation.  _fire lets a NotFound pass uncounted, but what
\* the routes enqueue is safe_docker_call, or a helper that maps its errors the
\* same way: a target already gone arrives as an HTTPException and is counted
\* like any other failure (see GoneIsNoFailure).
CallHeld(t) ==
  \E result \in Outcomes \ {"none"} :
    /\ Call(t, result)
    /\ failures' = IF result \in {"failed", "gone"} THEN failures + 1 ELSE failures

FireRun(t) ==
  /\ Alive /\ fire[t] = "running"
  /\ CallHeld(t)
  /\ fire' = [fire EXCEPT ![t] = "ended"]
  /\ UNCHANGED <<queueVars, clientVars, flushVars, processVars, configVars>>
--------------------------------------------------------------------------------
(* POST /api/undo/{token}, by a client that was given the token. *)

\* mutant: cancel reads the entry and relies on Timer.cancel alone.
CancelPeek(t) ==
  /\ phase = "serving" /\ request[t] = "queued"
  /\ \/ t \in ops /\ undo[t] = "none" /\ undo' = [undo EXCEPT ![t] = "popped"] /\ UNCHANGED denied
     \/ t \notin ops /\ denied' = denied \union {t} /\ UNCHANGED undo
  /\ UNCHANGED <<queueVars, callVars, request, fire, flushVars, processVars, configVars>>

\* cancel pops under the lock.  An absent token answers cancelled=false: taken by
\* another thread, or popped by an earlier POST of the same token.
CancelPop(t) ==
  /\ phase = "serving" /\ request[t] = "queued"
  /\ \/ t \in ops /\ undo' = [undo EXCEPT ![t] = "popped"] /\ UNCHANGED denied
     \/ t \notin ops /\ denied' = denied \union {t} /\ UNCHANGED undo
  /\ ops' = ops \ {t}
  /\ UNCHANGED <<timer, interval, fired, callVars, request, fire, flushVars, processVars, configVars>>

\* timer.cancel() after the lock, then cancelled=true; a Timer that has already
\* expired is not stopped by it.
CancelTimer(t) ==
  /\ Alive /\ undo[t] = "popped"
  /\ timer' = [timer EXCEPT ![t] = IF @ = "armed" THEN "cancelled" ELSE @]
  /\ undo' = [undo EXCEPT ![t] = "cancelled"]
  /\ UNCHANGED <<ops, interval, fired, callVars, request, denied, fire, flushVars, processVars, configVars>>
--------------------------------------------------------------------------------
(* The lifespan shutdown and fire_all_now. *)

\* The server has drained its requests and hands fire_all_now to the executor.
BeginShutdown ==
  /\ phase = "serving"
  /\ \A t \in Token : request[t] \in {"new", "queued", "done"} /\ undo[t] # "popped"
  /\ phase' = "flushing"
  /\ flushPc' = "start"
  /\ UNCHANGED <<queueVars, callVars, clientVars, fire, flush, flushing, remaining, configVars>>

\* mutants: the dict is not cleared; it is cleared before it is listed.
FlushKeepsDict ==
  /\ Alive /\ flushPc = "start"
  /\ flush' = ops
  /\ flushPc' = "loop"
  /\ UNCHANGED <<queueVars, callVars, clientVars, fire, flushing, processVars, configVars>>
FlushClearsFirst ==
  /\ Alive /\ flushPc = "start"
  /\ ops' = {} /\ flush' = {}
  /\ flushPc' = "loop"
  /\ UNCHANGED <<timer, interval, fired, callVars, clientVars, fire, flushing, processVars, configVars>>

\* list(self._ops.values()) and self._ops.clear() under one lock.
FlushSnapshot ==
  /\ Alive /\ flushPc = "start"
  /\ flush' = ops
  /\ ops' = {}
  /\ flushPc' = "loop"
  /\ UNCHANGED <<timer, interval, fired, callVars, clientVars, fire, flushing, processVars, configVars>>

\* One turn of the loop up to the call: the Timer is cancelled, a fired operation
\* is passed over, any other is marked.  The list is walked in any order.
FlushTake(t) ==
  /\ Alive /\ flushPc = "loop" /\ flushing = NoOp /\ t \in flush
  /\ flush' = flush \ {t}
  /\ timer' = [timer EXCEPT ![t] = IF @ \in {"built", "armed"} THEN "cancelled" ELSE @]
  /\ fired' = [fired EXCEPT ![t] = TRUE]
  /\ flushing' = IF fired[t] THEN NoOp ELSE t
  /\ UNCHANGED <<ops, interval, callVars, clientVars, fire, flushPc, processVars, configVars>>

FlushRun(t) ==
  /\ Alive /\ flushing = t
  /\ CallHeld(t)
  /\ flushing' = NoOp
  /\ UNCHANGED <<queueVars, clientVars, fire, flushPc, flush, processVars, configVars>>

FlushEnd ==
  /\ Alive /\ flushPc = "loop" /\ flush = {} /\ flushing = NoOp
  /\ flushPc' = "done"
  /\ UNCHANGED <<queueVars, callVars, clientVars, fire, flush, flushing, processVars, configVars>>

\* wait_for returned: stop_tunnel and invalidate_client follow, then the exit.
FlushInTime ==
  /\ phase = "flushing" /\ flushPc = "done"
  /\ phase' = "closing"
  /\ UNCHANGED <<queueVars, callVars, clientVars, fire, flushVars, remaining, configVars>>

\* SHUTDOWN_FLUSH_TIMEOUT elapsed: depth() is logged as what remains; the thread
\* itself cannot be cancelled and goes on.
FlushTimeout ==
  /\ phase = "flushing" /\ flushPc # "done"
  /\ phase' = "closing"
  /\ remaining' = Cardinality(ops)
  /\ UNCHANGED <<queueVars, callVars, clientVars, fire, flushVars, configVars>>

\* The interpreter joins the executor thread, not the daemon Timer threads.
Exit ==
  /\ phase = "closing" /\ flushPc = "done"
  /\ phase' = "exited"
  /\ UNCHANGED <<queueVars, callVars, clientVars, fire, flushVars, remaining, configVars>>

\* SIGKILL or a crash, at any moment.
Crash ==
  /\ Alive
  /\ phase' = "crashed"
  /\ UNCHANGED <<queueVars, callVars, clientVars, fire, flushVars, remaining, configVars>>
--------------------------------------------------------------------------------
(* What else changes the configuration the queue reads. *)

EnterReviewer ==
  /\ phase = "serving" /\ ~ReadOnly
  /\ reviewer' = TRUE
  /\ UNCHANGED <<queueVars, callVars, clientVars, fire, flushVars, processVars,
                 configured, knobDelay, knobDepth>>

\* mutant: reset-config also empties the queue.
ResetDropsQueue ==
  /\ phase = "serving" /\ configured
  /\ configured' = FALSE /\ reviewer' = BootReviewer /\ ops' = {}
  /\ UNCHANGED <<timer, interval, fired, callVars, clientVars, fire, flushVars, processVars,
                 knobDelay, knobDepth>>

\* reset-config clears the token and restores the boot profile; the queue is
\* left alone.
ResetConfig ==
  /\ phase = "serving" /\ configured
  /\ configured' = FALSE
  /\ reviewer' = BootReviewer
  /\ UNCHANGED <<queueVars, callVars, clientVars, fire, flushVars, processVars,
                 knobDelay, knobDepth>>

\* The wizard sets a token again.
Setup ==
  /\ phase = "serving" /\ ~configured
  /\ configured' = TRUE
  /\ UNCHANGED <<queueVars, callVars, clientVars, fire, flushVars, processVars,
                 reviewer, knobDelay, knobDepth>>

\* PUT /api/config/knobs/UNDO_...: setattr on the config module, nothing else.
EditKnob ==
  /\ phase = "serving" /\ ~ReadOnly
  /\ \/ knobDelay' \in Delays /\ UNCHANGED knobDepth
     \/ knobDepth' \in Depths /\ UNCHANGED knobDelay
  /\ UNCHANGED <<queueVars, callVars, clientVars, fire, flushVars, processVars,
                 reviewer, configured>>
--------------------------------------------------------------------------------
RequestStep(t) == EnqueueRefused(t) \/ EnqueueInsert(t) \/ EnqueueStart(t) \/ RunInRequest(t)
TimerStep(t)   == Expire(t) \/ FirePop(t) \/ FireGate(t) \/ FireRun(t)
CancelStep(t)  == CancelPop(t) \/ CancelTimer(t)
FlushStep      == FlushSnapshot \/ FlushEnd \/ \E t \in Token : FlushTake(t) \/ FlushRun(t)
ShutdownStep   == BeginShutdown \/ FlushInTime \/ FlushTimeout \/ Exit \/ Crash
ConfigStep     == EnterReviewer \/ ResetConfig \/ Setup \/ EditKnob

Next ==
  \/ \E t \in Token : Admit(t) \/ RequestStep(t) \/ TimerStep(t) \/ CancelStep(t)
  \/ FlushStep
  \/ ShutdownStep
  \/ ConfigStep

Spec == Init /\ [][Next]_vars

\* Threads that have started run on: every Docker call they make has a client
\* timeout.  Nothing obliges a client, an operator or a signal to act.
FairSpec ==
  /\ Spec
  /\ \A t \in Token : WF_vars(RequestStep(t)) /\ WF_vars(TimerStep(t)) /\ WF_vars(CancelTimer(t))
  /\ WF_vars(FlushStep)
--------------------------------------------------------------------------------
(* Properties *)

Resolved(t) == called[t] > 0 \/ undo[t] \in {"popped", "cancelled"} \/ fire[t] = "skipped"
Held(t)     == request[t] \in {"inserted", "queued"} /\ ~Resolved(t)

\* The operation is never executed twice, whichever of the Timer thread, the
\* shutdown flush and the request itself gets to it (undo.py, the double-fire
\* guard of fire_all_now).
AtMostOnce == \A t \in Token : called[t] <= 1

\* cancelled=true is final: an operation whose cancel popped the token is never
\* executed afterwards, although its Timer may already be past its wait.
CancelIsFinal == \A t \in Token : undo[t] \in {"popped", "cancelled"} => called[t] = 0

\* Nothing accepted into the queue can be stranded: while the process lives, an
\* unresolved operation is either in the dict with a Timer that will still fire,
\* or owned by exactly one thread that is on its way to execute or skip it.  A
\* clean exit loses no other than those a Timer thread has taken by then (see
\* CleanExitDropsNothing).
TimerOwns(t) == fire[t] \in {"popped", "running"}
TimerTook(t) == fire[t] \in {"popped", "running", "skipped", "ended"}
FlushOwns(t) == t \in flush \/ flushing = t
TimerPending(t) ==
  \/ timer[t] = "built" /\ request[t] = "inserted"
  \/ timer[t] = "armed"
  \/ timer[t] = "expired" /\ fire[t] = "calling"
NothingStranded ==
  \A t \in Token :
    /\ Held(t) => \/ t \in ops /\ TimerPending(t)
                  \/ TimerOwns(t)
                  \/ FlushOwns(t)
    /\ ~(t \in ops /\ TimerOwns(t))
    /\ ~(t \in ops /\ FlushOwns(t))
    /\ ~(TimerOwns(t) /\ FlushOwns(t))
    /\ phase = "exited" /\ Held(t) => TimerOwns(t)

\* Why the above hold, as an inductive invariant: an operation moves from its
\* request to the dict, from there to one thread, and from there to its end; the
\* pop under the lock is the only hand-over.
Untouched(t) ==
  t \notin ops /\ fire[t] = "idle" /\ ~fired[t] /\ ~FlushOwns(t) /\ undo[t] = "none"
Ownership ==
  /\ \A t \in Token :
       /\ request[t] \in {"new", "admitted", "sync", "done"} => Untouched(t) /\ timer[t] = "none"
       /\ request[t] \in {"new", "admitted", "sync"} => called[t] = 0
       /\ t \in ops => /\ called[t] = 0 /\ undo[t] = "none" /\ ~fired[t]
                       /\ fire[t] \in {"idle", "calling"} /\ TimerPending(t)
                       /\ ~FlushOwns(t)
       /\ TimerOwns(t) => called[t] = 0 /\ undo[t] = "none" /\ ~FlushOwns(t)
       /\ FlushOwns(t) => called[t] = 0 /\ undo[t] = "none" /\ fire[t] \in {"idle", "calling", "ended"}
       /\ t \in flush => ~fired[t] /\ flushing # t
       /\ request[t] = "inserted" => undo[t] = "none"
       /\ Held(t) => t \in ops \/ TimerOwns(t) \/ FlushOwns(t)
       /\ timer[t] \in {"none", "built", "armed"} => fire[t] = "idle"
       /\ called[t] <= 1
       /\ undo[t] \in {"popped", "cancelled"} => called[t] = 0
       /\ fire[t] = "skipped" => called[t] = 0
       /\ t \in denied => t \notin ops /\ (TimerTook(t) \/ undo[t] \in {"popped", "cancelled"})
       /\ request[t] \in {"inserted", "queued"} /\ called[t] = 1 /\ flushPc = "none" => fire[t] = "ended"
  /\ flushPc \in {"none", "start"} => flush = {} /\ flushing = NoOp
  /\ phase = "serving" => flushPc = "none"

\* The number of held operations never exceeds the largest configured depth,
\* however many requests enqueue at once.
DepthBounded == Cardinality(ops) <= MaxDepth

\* undo_routes.py: cancelled=false means "either already fired (too late) or never
\* valid (typo, forged, or replayed)".  Of a token the server did issue it is only
\* answered when the Timer thread has taken the operation or another POST has
\* cancelled it: the client is never told "too late" about an operation that is
\* still waiting, or that nobody will run.
TooLateIsTrue ==
  \A t \in denied : t \notin ops /\ (TimerTook(t) \/ undo[t] \in {"popped", "cancelled"})

\* fire_failures counts exactly the held operations whose call did not do what it
\* was asked to, those whose target was already gone included.
FailuresCounted ==
  failures = Cardinality({t \in Token : /\ request[t] \in {"inserted", "queued"}
                                        /\ outcome[t] \in {"failed", "gone"}})

\* undo.py, _fire: "That's the desired end-state for an undo-delete, not a failure
\* -- don't bump fire_failures or poison /ready"; docs/audit-events.md: "not counted
\* as a failure".
GoneIsNoFailure ==
  [][\A t \in Token : outcome'[t] = "gone" /\ outcome[t] # "gone" => failures' = failures]_vars

\* Once the instance is read-only no thread passes the gate any more: the
\* threads that may still execute something are those already past it, and they
\* only become fewer.  (The shutdown flush is outside this promise: see
\* ReadOnlyHolds.)
PastGate == {t \in Token : request[t] \in {"admitted", "sync"} \/ fire[t] = "running"}
ReadOnlyQuiesces ==
  [][ReadOnly /\ ReadOnly' =>
        /\ PastGate' \subseteq PastGate
        /\ \A t \in Token : called'[t] # called[t] => t \in PastGate \/ flushing = t]_vars

\* undo.py, _fire: "Honouring a pending destroy would surface a mutation to a
\* reviewer AFTER the read-only switch visibly took effect."  No operation that
\* was still held when the instance became read-only is executed in it.
ReadOnlyHolds ==
  [][ReadOnly /\ ReadOnly' => \A t \in Token : called'[t] # called[t] => t \in PastGate]_vars

\* system.py, _LIVE_EDITABLE: "enqueue reads config.UNDO_DELAY_SECS per call": an
\* operation enqueued after an edit is held for the edited window, which is also
\* the expires_in its response carries.
EditedWindowApplies ==
  [][\A t \in Token : t \in ops' \ ops => interval'[t] = knobDelay]_vars

\* What the shutdown log says remains is what remains.
RemainingIsTrue ==
  [][phase = "flushing" /\ phase' = "closing" /\ flushPc # "done" =>
        remaining' = Cardinality({t \in Token : Held(t)})]_vars

\* app.py, lifespan: a clean exit silently drops no accepted operation.
CleanExitDropsNothing == phase = "exited" => \A t \in Token : ~Held(t)
--------------------------------------------------------------------------------
(* Refinement of the promise in DeferredOps. *)

Disposition(t) ==
  IF called[t] > 0 THEN "executed"
  ELSE IF undo[t] \in {"popped", "cancelled"} THEN "cancelled"
  ELSE IF fire[t] = "skipped" THEN "dropped"
  ELSE IF request[t] \notin {"inserted", "queued"} THEN "idle"
  ELSE IF Alive THEN "held"
  ELSE "lost"

Promise == INSTANCE DeferredOps WITH status <- [t \in Token |-> Disposition(t)], alive <- Alive

KeepsPromise == Promise!Spec
HoldsEnd == Promise!Settled
================================================================================
