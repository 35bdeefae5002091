---------------------------- MODULE UndoQueue_proofs ----------------------------
(***************************************************************************)
(* For every set of tokens, every delay and every depth: the types, the    *)
(* ownership invariant of the undo queue, what follows from it (at most    *)
(* one execution, a final cancel, nothing stranded, a bounded dict), the   *)
(* count of failures, and the refinement of DeferredOps.                   *)
(***************************************************************************)
EXTENDS UndoQueue, FiniteSetTheorems, TLAPS

LEMMA InitTyped == Init => TypeOK
  BY TokenAssumption, DelayAssumption, DepthAssumption, ProfileAssumption
     DEF Init, TypeOK, Timers, Requests, Fires, Undos, Outcomes, Phases

\* The request threads keep the types.
LEMMA RequestTyped ==
  ASSUME TypeOK, NEW t \in Token, Admit(t) \/ RequestStep(t) PROVE TypeOK'
<1> USE DEF TypeOK, Timers, Requests, Fires, Undos, Outcomes, Phases,
            queueVars, callVars, clientVars, undoVars, flushVars, processVars, configVars
<1>1. CASE Admit(t) BY <1>1 DEF Admit
<1>2. CASE EnqueueRefused(t) BY <1>2 DEF EnqueueRefused
<1>3. CASE EnqueueInsert(t) BY <1>3, DelayAssumption DEF EnqueueInsert
<1>4. CASE EnqueueStart(t) BY <1>4 DEF EnqueueStart
<1>5. CASE RunInRequest(t) BY <1>5 DEF RunInRequest, Call
<1> QED BY <1>1, <1>2, <1>3, <1>4, <1>5 DEF RequestStep

\* So do the Timer threads and the cancels.
LEMMA TimerTyped ==
  ASSUME TypeOK, NEW t \in Token, TimerStep(t) \/ CancelStep(t) PROVE TypeOK'
<1> USE DEF TypeOK, Timers, Requests, Fires, Undos, Outcomes, Phases,
            queueVars, callVars, clientVars, undoVars, flushVars, processVars, configVars
<1>1. CASE Expire(t) BY <1>1 DEF Expire
<1>2. CASE FirePop(t) BY <1>2 DEF FirePop
<1>3. CASE FireGate(t) BY <1>3 DEF FireGate
<1>4. CASE FireRun(t) BY <1>4 DEF FireRun, CallHeld, Call
<1>5. CASE CancelPop(t) BY <1>5 DEF CancelPop
<1>6. CASE CancelTimer(t) BY <1>6 DEF CancelTimer
<1> QED BY <1>1, <1>2, <1>3, <1>4, <1>5, <1>6 DEF TimerStep, CancelStep

\* And the shutdown and configuration steps.
LEMMA ProcessTyped ==
  ASSUME TypeOK, FlushStep \/ ShutdownStep \/ ConfigStep PROVE TypeOK'
<1> USE DEF TypeOK, Timers, Requests, Fires, Undos, Outcomes, Phases,
            queueVars, callVars, clientVars, undoVars, flushVars, processVars, configVars
<1>1. CASE FlushSnapshot BY <1>1 DEF FlushSnapshot
<1>2. CASE FlushEnd BY <1>2 DEF FlushEnd
<1>3. ASSUME NEW t \in Token, FlushTake(t) PROVE TypeOK' BY <1>3 DEF FlushTake
<1>4. ASSUME NEW t \in Token, FlushRun(t) PROVE TypeOK' BY <1>4 DEF FlushRun, CallHeld, Call
<1>5. CASE FlushTimeout
  <2>1. Cardinality(ops) \in Nat
    BY TokenAssumption, FS_Subset, FS_CardinalityType
  <2> QED BY <1>5, <2>1 DEF FlushTimeout
<1>6. CASE BeginShutdown \/ FlushInTime \/ Exit \/ Crash
  BY <1>6 DEF BeginShutdown, FlushInTime, Exit, Crash
<1>7. CASE ConfigStep
  BY <1>7, ProfileAssumption, DelayAssumption, DepthAssumption
     DEF ConfigStep, EnterReviewer, ResetConfig, Setup, EditKnob
<1> QED BY <1>1, <1>2, <1>3, <1>4, <1>5, <1>6, <1>7 DEF FlushStep, ShutdownStep

\* The variables keep their types, for all values of the constants.
THEOREM TypeCorrect == Spec => []TypeOK
<1>1. TypeOK /\ [Next]_vars => TypeOK'
  <2>1. TypeOK /\ UNCHANGED vars => TypeOK'
    BY DEF TypeOK, vars, queueVars, callVars, clientVars, undoVars, flushVars, processVars, configVars
  <2> QED BY <2>1, RequestTyped, TimerTyped, ProcessTyped DEF Next
<1> QED BY InitTyped, <1>1, PTL DEF Spec
--------------------------------------------------------------------------------
\* The request threads keep the ownership invariant.
LEMMA RequestOwnership ==
  ASSUME TypeOK, Ownership, NEW t \in Token, Admit(t) \/ RequestStep(t) PROVE Ownership'
<1> USE TokenAssumption DEF TypeOK, Ownership, Untouched, TimerOwns, FlushOwns, TimerTook, TimerPending, Held, Resolved,
            Timers, Requests, Fires, Undos, Outcomes, Phases, Alive,
            queueVars, callVars, clientVars, undoVars, flushVars, processVars, configVars
<1>1. CASE Admit(t) BY <1>1 DEF Admit
<1>2. CASE EnqueueRefused(t) BY <1>2 DEF EnqueueRefused
<1>3. CASE EnqueueInsert(t) BY <1>3 DEF EnqueueInsert
<1>4. CASE EnqueueStart(t) BY <1>4 DEF EnqueueStart
<1>5. CASE RunInRequest(t) BY <1>5 DEF RunInRequest, Call
<1> QED BY <1>1, <1>2, <1>3, <1>4, <1>5 DEF RequestStep

\* So do the Timer threads and the cancels.
LEMMA TimerOwnership ==
  ASSUME TypeOK, Ownership, NEW t \in Token, TimerStep(t) \/ CancelStep(t) PROVE Ownership'
<1> USE TokenAssumption DEF TypeOK, Ownership, Untouched, TimerOwns, FlushOwns, TimerTook, TimerPending, Held, Resolved,
            Timers, Requests, Fires, Undos, Outcomes, Phases, Alive,
            queueVars, callVars, clientVars, undoVars, flushVars, processVars, configVars
<1>1. CASE Expire(t) BY <1>1 DEF Expire
<1>2. CASE FirePop(t) BY <1>2 DEF FirePop
<1>3. CASE FireGate(t) BY <1>3 DEF FireGate
<1>4. CASE FireRun(t) BY <1>4 DEF FireRun, CallHeld, Call
<1>5. CASE CancelPop(t) BY <1>5 DEF CancelPop
<1>6. CASE CancelTimer(t) BY <1>6 DEF CancelTimer
<1> QED BY <1>1, <1>2, <1>3, <1>4, <1>5, <1>6 DEF TimerStep, CancelStep

\* And the shutdown and configuration steps.
LEMMA ProcessOwnership ==
  ASSUME TypeOK, Ownership, FlushStep \/ ShutdownStep \/ ConfigStep PROVE Ownership'
<1> USE TokenAssumption DEF TypeOK, Ownership, Untouched, TimerOwns, FlushOwns, TimerTook, TimerPending, Held, Resolved,
            Timers, Requests, Fires, Undos, Outcomes, Phases, Alive,
            queueVars, callVars, clientVars, undoVars, flushVars, processVars, configVars
<1>1. CASE FlushSnapshot BY <1>1 DEF FlushSnapshot
<1>2. CASE FlushEnd BY <1>2 DEF FlushEnd
<1>3. ASSUME NEW t \in Token, FlushTake(t) PROVE Ownership' BY <1>3 DEF FlushTake
<1>4. ASSUME NEW t \in Token, FlushRun(t) PROVE Ownership' BY <1>4 DEF FlushRun, CallHeld, Call
<1>5. CASE ShutdownStep
  BY <1>5 DEF ShutdownStep, BeginShutdown, FlushInTime, FlushTimeout, Exit, Crash
<1>6. CASE ConfigStep
  BY <1>6 DEF ConfigStep, EnterReviewer, ResetConfig, Setup, EditKnob
<1> QED BY <1>1, <1>2, <1>3, <1>4, <1>5, <1>6 DEF FlushStep

\* Every operation has at most one owner, and an unresolved one exactly one.
THEOREM OwnershipHolds == Spec => []Ownership
<1>1. Init => Ownership
  BY TokenAssumption DEF Init, Ownership, Untouched, TimerOwns, FlushOwns, TimerTook, TimerPending, Held, Resolved
<1>2. TypeOK /\ Ownership /\ [Next]_vars => Ownership'
  <2>1. Ownership /\ UNCHANGED vars => Ownership'
    BY DEF Ownership, Untouched, TimerOwns, FlushOwns, TimerTook, TimerPending, Held, Resolved,
           vars, queueVars, callVars, clientVars, undoVars, flushVars, processVars, configVars
  <2> QED BY <2>1, RequestOwnership, TimerOwnership, ProcessOwnership DEF Next
<1> QED BY <1>1, <1>2, TypeCorrect, PTL DEF Spec
--------------------------------------------------------------------------------
\* An operation is never executed twice.
THEOREM ExecutedAtMostOnce == Spec => []AtMostOnce
<1>1. Ownership => AtMostOnce BY DEF Ownership, AtMostOnce
<1> QED BY <1>1, OwnershipHolds, PTL

\* After cancelled=true an operation is never executed.
THEOREM CancelStands == Spec => []CancelIsFinal
<1>1. Ownership => CancelIsFinal BY DEF Ownership, CancelIsFinal
<1> QED BY <1>1, OwnershipHolds, PTL

\* The shutdown hands an operation over to the flush or leaves it to its Timer
\* thread: no request is between its steps once the flush began, nothing is queued
\* once the list was taken, and a clean exit waits for the end of the flush.
ExitInv ==
  /\ flushPc # "none" => \A t \in Token : request[t] \notin {"admitted", "sync", "inserted"}
  /\ flushPc \in {"loop", "done"} => ops = {}
  /\ flushPc = "done" => flush = {} /\ flushing = NoOp
  /\ phase \in {"flushing", "closing", "exited"} => flushPc # "none"
  /\ phase = "exited" => flushPc = "done"
  /\ phase = "serving" => flushPc = "none"

LEMMA NextExit == TypeOK /\ Ownership /\ ExitInv /\ [Next]_vars => ExitInv'
<1> SUFFICES ASSUME TypeOK, Ownership, ExitInv, [Next]_vars PROVE ExitInv'
  OBVIOUS
<1> USE DEF ExitInv, TypeOK, Requests, Phases, Alive,
            queueVars, callVars, clientVars, undoVars, flushVars, processVars, configVars
<1>1. ASSUME NEW t \in Token, Admit(t) PROVE ExitInv'
  BY <1>1 DEF Admit
<1>2. ASSUME NEW t \in Token, RequestStep(t) PROVE ExitInv'
  <2>1. flushPc = "none" /\ flushPc' = flushPc /\ phase' = phase
    BY <1>2 DEF RequestStep, EnqueueRefused, EnqueueInsert, EnqueueStart, RunInRequest
  <2> QED BY <2>1
<1>3. ASSUME NEW t \in Token, TimerStep(t) PROVE ExitInv'
  BY <1>3 DEF TimerStep, Expire, FirePop, FireGate, FireRun
<1>4. ASSUME NEW t \in Token, CancelStep(t) PROVE ExitInv'
  BY <1>4 DEF CancelStep, CancelPop, CancelTimer
<1>5. CASE FlushSnapshot \/ FlushEnd
  BY <1>5 DEF FlushSnapshot, FlushEnd
<1>6. ASSUME NEW t \in Token, FlushTake(t) \/ FlushRun(t) PROVE ExitInv'
  BY <1>6, TokenAssumption DEF FlushTake, FlushRun
<1>7. CASE ShutdownStep
  BY <1>7, TokenAssumption DEF ShutdownStep, BeginShutdown, FlushInTime, FlushTimeout, Exit, Crash, Ownership
<1>8. CASE ConfigStep
  BY <1>8 DEF ConfigStep, EnterReviewer, ResetConfig, Setup, EditKnob
<1>9. CASE UNCHANGED vars BY <1>9 DEF vars
<1> QED BY <1>1, <1>2, <1>3, <1>4, <1>5, <1>6, <1>7, <1>8, <1>9 DEF Next, FlushStep

\* An accepted operation is always in the dict under a Timer that will fire, or
\* with exactly one thread that will settle it; and a clean exit loses no other
\* than those a Timer thread has taken.
THEOREM NothingLeftBehind == Spec => []NothingStranded
<1>1. Init => ExitInv BY DEF Init, ExitInv
<1>2. Ownership /\ ExitInv => NothingStranded
  <2> SUFFICES ASSUME Ownership, ExitInv, NEW t \in Token
               PROVE  /\ Held(t) => (t \in ops /\ TimerPending(t)) \/ TimerOwns(t) \/ FlushOwns(t)
                      /\ ~(t \in ops /\ TimerOwns(t))
                      /\ ~(t \in ops /\ FlushOwns(t))
                      /\ ~(TimerOwns(t) /\ FlushOwns(t))
                      /\ phase = "exited" /\ Held(t) => TimerOwns(t)
    BY DEF NothingStranded
  <2>1. phase = "exited" => t \notin ops /\ ~FlushOwns(t)
    BY TokenAssumption DEF ExitInv, FlushOwns
  <2> QED BY <2>1 DEF Ownership, TimerOwns
<1> QED BY <1>1, <1>2, NextExit, TypeCorrect, OwnershipHolds, PTL DEF Spec

\* cancelled=false is only answered for an operation its Timer thread has taken or
\* an earlier POST has cancelled.
THEOREM TooLateOnlyIfTaken == Spec => []TooLateIsTrue
<1>1. TypeOK /\ Ownership => TooLateIsTrue BY DEF TypeOK, Ownership, TooLateIsTrue
<1> QED BY <1>1, TypeCorrect, OwnershipHolds, PTL

\* The dict never holds more than the largest depth the knob can take.
THEOREM DepthNeverExceeded == Spec => []DepthBounded
<1> USE DEF DepthBounded
<1>1. Init => DepthBounded
  BY FS_EmptySet, DepthAssumption DEF Init
<1>2. TypeOK /\ DepthBounded /\ [Next]_vars => DepthBounded'
  <2> SUFFICES ASSUME TypeOK, DepthBounded, [Next]_vars PROVE DepthBounded'
    OBVIOUS
  <2>1. IsFiniteSet(ops) /\ Cardinality(ops) \in Nat
    BY TokenAssumption, FS_Subset, FS_CardinalityType DEF TypeOK
  <2>2. ASSUME NEW t \in Token, EnqueueInsert(t) PROVE DepthBounded'
    <3>1. Cardinality(ops) < knobDepth /\ knobDepth \in 0..MaxDepth
      BY <2>1, <2>2 DEF EnqueueInsert, Refuse, TypeOK
    <3>2. Cardinality(ops \union {t}) <= Cardinality(ops) + 1
      BY <2>1, FS_AddElement
    <3> QED BY <2>1, <2>2, <3>1, <3>2, FS_AddElement, FS_CardinalityType, DepthAssumption DEF EnqueueInsert
  <2>3. CASE ops' \subseteq ops
    <3>1. Cardinality(ops') <= Cardinality(ops) /\ Cardinality(ops') \in Nat
      BY <2>1, <2>3, FS_Subset, FS_CardinalityType
    <3> QED BY <2>1, <3>1, DepthAssumption
  <2>4. (\E t \in Token : EnqueueInsert(t)) \/ ops' \subseteq ops
    BY DEF Next, vars, queueVars, RequestStep, TimerStep, CancelStep, FlushStep, ShutdownStep,
           ConfigStep, Admit, EnqueueRefused, EnqueueStart, RunInRequest, Expire, FirePop,
           FireGate, FireRun, CancelPop, CancelTimer, BeginShutdown, FlushSnapshot, FlushTake,
           FlushRun, FlushEnd, FlushInTime, FlushTimeout, Exit, Crash, EnterReviewer,
           ResetConfig, Setup, EditKnob
  <2> QED BY <2>2, <2>3, <2>4
<1> QED BY <1>1, <1>2, TypeCorrect, PTL DEF Spec

\* Once read-only, no thread passes a gate any more.
THEOREM ReadOnlyIsReached == Spec => ReadOnlyQuiesces
<1>1. TypeOK /\ [Next]_vars =>
        [ReadOnly /\ ReadOnly' =>
           /\ PastGate' \subseteq PastGate
           /\ \A t \in Token : called'[t] # called[t] => t \in PastGate \/ flushing = t]_vars
  <2> SUFFICES ASSUME TypeOK, Next, ReadOnly, ReadOnly'
               PROVE /\ PastGate' \subseteq PastGate
                     /\ \A t \in Token : called'[t] # called[t] => t \in PastGate \/ flushing = t
    OBVIOUS
  <2> USE DEF TypeOK, ReadOnly, PastGate, queueVars, callVars, clientVars, undoVars, flushVars, processVars, configVars
  <2>1. ASSUME NEW t \in Token, Admit(t) \/ RequestStep(t) \/ TimerStep(t) \/ CancelStep(t)
        PROVE /\ PastGate' \subseteq PastGate
              /\ \A u \in Token : called'[u] # called[u] => u \in PastGate \/ flushing = u
    BY <2>1 DEF RequestStep, TimerStep, CancelStep, Admit, EnqueueRefused, EnqueueInsert, EnqueueStart,
                RunInRequest, Call, CallHeld, Expire, FirePop, FireGate, FireRun, CancelPop, CancelTimer
  <2>2. CASE FlushStep \/ ShutdownStep \/ ConfigStep
    BY <2>2 DEF FlushStep, ShutdownStep, ConfigStep, FlushSnapshot, FlushTake, FlushRun, FlushEnd,
                Call, CallHeld, BeginShutdown, FlushInTime, FlushTimeout, Exit, Crash, EnterReviewer,
                ResetConfig, Setup, EditKnob
  <2> QED BY <2>1, <2>2 DEF Next
<1> QED BY <1>1, TypeCorrect, PTL DEF Spec, ReadOnlyQuiesces
--------------------------------------------------------------------------------
(* The refinement of DeferredOps. *)

\* The disposition of every operation is an abstract status.
LEMMA MappedInit == Init => Promise!Init
  BY DEF Init, Promise!Init, Disposition, Alive

\* A step that settles nothing maps to a stutter.
LEMMA MappedStutter ==
  ASSUME \A u \in Token : Disposition(u)' = Disposition(u), Alive' = Alive
  PROVE UNCHANGED Promise!vars
  BY DEF Promise!vars

\* A step of one operation maps to a step of that operation.
LEMMA MappedStep ==
  ASSUME NEW t \in Token, NEW d, Disposition(t)' = d,
         \A u \in Token \ {t} : Disposition(u)' = Disposition(u)
  PROVE [u \in Token |-> Disposition(u)]' = [[u \in Token |-> Disposition(u)] EXCEPT ![t] = d]
  OBVIOUS

\* Steps of the threads of one operation: its disposition moves along an abstract
\* action or stays, and no other operation moves.
LEMMA MappedThreads ==
  ASSUME TypeOK, Ownership, NEW t \in Token,
         Admit(t) \/ RequestStep(t) \/ TimerStep(t) \/ CancelStep(t) \/ FlushTake(t) \/ FlushRun(t)
  PROVE  /\ Alive /\ Alive'
         /\ \A u \in Token \ {t} : Disposition(u)' = Disposition(u)
         /\ \/ Disposition(t)' = Disposition(t)
            \/ Disposition(t) = "idle" /\ Disposition(t)' \in {"held", "executed"}
            \/ Disposition(t) = "held" /\ Disposition(t)' \in {"executed", "cancelled", "dropped"}
<1> USE TokenAssumption
    DEF TypeOK, Ownership, Untouched, TimerOwns, FlushOwns, TimerTook, TimerPending, Held, Resolved, Disposition,
        Timers, Requests, Fires, Undos, Outcomes, Phases, Alive,
        queueVars, callVars, clientVars, undoVars, flushVars, processVars, configVars
<1>1. CASE Admit(t) BY <1>1 DEF Admit
<1>2. CASE EnqueueRefused(t) BY <1>2 DEF EnqueueRefused
<1>3. CASE EnqueueInsert(t) BY <1>3 DEF EnqueueInsert
<1>4. CASE EnqueueStart(t) BY <1>4 DEF EnqueueStart
<1>5. CASE RunInRequest(t) BY <1>5 DEF RunInRequest, Call
<1>6. CASE Expire(t) BY <1>6 DEF Expire
<1>7. CASE FirePop(t) BY <1>7 DEF FirePop
<1>8. CASE FireGate(t) BY <1>8 DEF FireGate
<1>9. CASE FireRun(t) BY <1>9 DEF FireRun, CallHeld, Call
<1>10. CASE CancelPop(t) BY <1>10 DEF CancelPop
<1>11. CASE CancelTimer(t) BY <1>11 DEF CancelTimer
<1>12. CASE FlushTake(t) BY <1>12 DEF FlushTake
<1>13. CASE FlushRun(t) BY <1>13 DEF FlushRun, CallHeld, Call
<1> QED BY <1>1, <1>2, <1>3, <1>4, <1>5, <1>6, <1>7, <1>8, <1>9, <1>10, <1>11, <1>12, <1>13
        DEF RequestStep, TimerStep, CancelStep

\* Every step of the queue is a step of the promise or a stutter.
LEMMA MappedNext ==
  ASSUME TypeOK, Ownership, [Next]_vars PROVE [Promise!Next]_Promise!vars
<1>1. ASSUME NEW t \in Token,
             Admit(t) \/ RequestStep(t) \/ TimerStep(t) \/ CancelStep(t) \/ FlushTake(t) \/ FlushRun(t)
      PROVE [Promise!Next]_Promise!vars
  <2>1. /\ Alive = TRUE /\ Alive' = TRUE
        /\ \A u \in Token \ {t} : Disposition(u)' = Disposition(u)
        /\ \/ Disposition(t)' = Disposition(t)
           \/ Disposition(t) = "idle" /\ Disposition(t)' \in {"held", "executed"}
           \/ Disposition(t) = "held" /\ Disposition(t)' \in {"executed", "cancelled", "dropped"}
    BY <1>1, MappedThreads DEF Alive
  <2>2. CASE Disposition(t)' = Disposition(t)
    BY <2>1, <2>2, MappedStutter
  <2>3. CASE Disposition(t) = "idle" /\ Disposition(t)' \in {"held", "executed"}
    <3>1. [u \in Token |-> Disposition(u)]' = [[u \in Token |-> Disposition(u)] EXCEPT ![t] = Disposition(t)']
      BY <2>1, MappedStep
    <3> QED BY <2>1, <2>3, <3>1 DEF Promise!Next, Promise!Hold, Promise!ExecuteNow
  <2>4. CASE Disposition(t) = "held" /\ Disposition(t)' \in {"executed", "cancelled", "dropped"}
    <3>1. [u \in Token |-> Disposition(u)]' = [[u \in Token |-> Disposition(u)] EXCEPT ![t] = Disposition(t)']
      BY <2>1, MappedStep
    <3> QED BY <2>1, <2>4, <3>1 DEF Promise!Next, Promise!Settle, Promise!Status
  <2> QED BY <2>1, <2>2, <2>3, <2>4
<1>2. CASE Exit \/ Crash
  <2>1. Alive = TRUE /\ Alive' = FALSE
    BY <1>2 DEF Exit, Crash, Alive
  <2>2. ASSUME NEW u \in Token
        PROVE Disposition(u)' = IF Disposition(u) = "held" THEN "lost" ELSE Disposition(u)
    BY <1>2, <2>1 DEF Exit, Crash, Disposition, queueVars, callVars, clientVars, undoVars, flushVars
  <2> QED BY <2>1, <2>2 DEF Promise!Next, Promise!Stop
<1>3. CASE \/ FlushSnapshot \/ FlushEnd \/ BeginShutdown \/ FlushInTime \/ FlushTimeout
           \/ ConfigStep \/ UNCHANGED vars
  <2>1. \A u \in Token : Disposition(u)' = Disposition(u)
    BY <1>3 DEF FlushSnapshot, FlushEnd, BeginShutdown, FlushInTime, FlushTimeout, ConfigStep,
                EnterReviewer, ResetConfig, Setup, EditKnob, Disposition, Alive,
                vars, queueVars, callVars, clientVars, undoVars, flushVars, processVars, configVars
  <2>2. Alive' = Alive
    BY <1>3 DEF FlushSnapshot, FlushEnd, BeginShutdown, FlushInTime, FlushTimeout, ConfigStep,
                EnterReviewer, ResetConfig, Setup, EditKnob, Alive,
                vars, queueVars, callVars, clientVars, undoVars, flushVars, processVars, configVars
  <2> QED BY <2>1, <2>2, MappedStutter
<1> QED BY <1>1, <1>2, <1>3 DEF Next, FlushStep, ShutdownStep

\* The undo queue with all its threads implements the promise of DeferredOps.
THEOREM QueueKeepsPromise == Spec => KeepsPromise
<1>1. TypeOK /\ Ownership /\ [Next]_vars => [Promise!Next]_Promise!vars
  BY MappedNext
<1> QED BY MappedInit, <1>1, TypeCorrect, OwnershipHolds, PTL DEF Spec, KeepsPromise, Promise!Spec

\* What an operation has come to, as its client and the engine see it, is final:
\* executed, cancelled, dropped or lost, it never becomes another of them, whatever
\* its threads still do.
THEOREM SettledIsFinal == Spec => Promise!FinalStays
<1> DEFINE status == [t \in Token |-> Disposition(t)]
<1>1. [Promise!Next]_Promise!vars
        => [\A t \in Token : status[t] \in Promise!Final => status'[t] = status[t]]_Promise!vars
  <2> SUFFICES ASSUME Promise!Next, NEW t \in Token, status[t] \in Promise!Final
               PROVE  status'[t] = status[t]
    OBVIOUS
  <2> QED BY DEF Promise!Next, Promise!Hold, Promise!ExecuteNow, Promise!Settle, Promise!Stop, Promise!Final
<1> QED BY <1>1, QueueKeepsPromise, PTL DEF KeepsPromise, Promise!Spec, Promise!FinalStays
--------------------------------------------------------------------------------
\* The operations whose held call has failed, and what has not been called.
FailedHeld == {t \in Token : request[t] \in {"inserted", "queued"} /\ outcome[t] \in {"failed", "gone"}}
NotCalled == \A t \in Token : called[t] = 0 => outcome[t] = "none"

\* A step that touches neither the calls nor who holds them.
LEMMA QuietCount ==
  ASSUME NotCalled, FailuresCounted, UNCHANGED <<called, outcome, failures, request>>
  PROVE  NotCalled' /\ FailuresCounted'
BY DEF NotCalled, FailuresCounted

\* The call of a held operation counts if it fails, and it is its first.
LEMMA CallCounts ==
  ASSUME TypeOK, NotCalled, FailuresCounted, NEW t \in Token, called[t] = 0,
         request[t] \in {"inserted", "queued"}, CallHeld(t), UNCHANGED request
  PROVE  NotCalled' /\ FailuresCounted'
<1> PICK result \in Outcomes \ {"none"} :
      /\ Call(t, result)
      /\ failures' = IF result \in {"failed", "gone"} THEN failures + 1 ELSE failures
  BY DEF CallHeld
<1>1. NotCalled' BY DEF NotCalled, Call, TypeOK
<1>2. outcome[t] = "none" BY DEF NotCalled
<1>3. outcome' = [outcome EXCEPT ![t] = result] BY DEF Call
<1>4. IsFiniteSet(FailedHeld) BY TokenAssumption, FS_Subset DEF FailedHeld
<1>5. failures = Cardinality(FailedHeld) BY DEF FailuresCounted, FailedHeld
<1>6. CASE result \in {"failed", "gone"}
  <2>1. FailedHeld' = FailedHeld \union {t} BY <1>3, <1>6 DEF FailedHeld, TypeOK
  <2>2. t \notin FailedHeld BY <1>2 DEF FailedHeld
  <2>3. Cardinality(FailedHeld') = Cardinality(FailedHeld) + 1
    BY <1>4, <2>1, <2>2, FS_AddElement
  <2>4. failures' = Cardinality(FailedHeld') BY <1>5, <1>6, <2>3
  <2> QED BY <1>1, <2>4 DEF FailuresCounted, FailedHeld
<1>7. CASE result \notin {"failed", "gone"}
  <2>1. FailedHeld' = FailedHeld BY <1>2, <1>3, <1>7 DEF FailedHeld, TypeOK
  <2>2. failures' = Cardinality(FailedHeld') BY <1>5, <1>7, <2>1
  <2> QED BY <1>1, <2>2 DEF FailuresCounted, FailedHeld
<1> QED BY <1>6, <1>7

\* A request that is admitted, held or refused has not been called, and one that
\* calls at once is not counted.
LEMMA RequestCounts ==
  ASSUME TypeOK, Ownership, NotCalled, FailuresCounted, NEW t \in Token,
         Admit(t) \/ RequestStep(t)
  PROVE  NotCalled' /\ FailuresCounted'
<1>1. request[t] \in {"new", "admitted", "sync"} => outcome[t] = "none"
  BY DEF Ownership, NotCalled
<1>2. SUFFICES NotCalled' /\ FailedHeld' = FailedHeld /\ failures' = failures
  BY DEF FailuresCounted, FailedHeld
<1> USE DEF TypeOK, NotCalled, FailedHeld, queueVars, callVars, clientVars, undoVars
<1>3. CASE Admit(t) BY <1>1, <1>3 DEF Admit
<1>4. CASE EnqueueRefused(t) BY <1>1, <1>4 DEF EnqueueRefused
<1>5. CASE EnqueueInsert(t) BY <1>1, <1>5 DEF EnqueueInsert
<1>6. CASE EnqueueStart(t) BY <1>6 DEF EnqueueStart
<1>7. CASE RunInRequest(t) BY <1>7 DEF RunInRequest, Call, Outcomes
<1> QED BY <1>3, <1>4, <1>5, <1>6, <1>7 DEF RequestStep

\* An operation its Timer thread or the flush has taken is held and not called yet.
LEMMA TakenIsHeld ==
  ASSUME TypeOK, Ownership, NEW t \in Token, TimerOwns(t) \/ FlushOwns(t)
  PROVE  called[t] = 0 /\ request[t] \in {"inserted", "queued"}
BY DEF TypeOK, Ownership, Untouched, TimerOwns, Requests

LEMMA OthersCount ==
  ASSUME TypeOK, Ownership, NotCalled, FailuresCounted, [Next]_vars,
         ~ \E t \in Token : Admit(t) \/ RequestStep(t)
  PROVE  NotCalled' /\ FailuresCounted'
<1> USE DEF vars, queueVars, callVars, clientVars, undoVars, flushVars, processVars, configVars
<1>1. ASSUME NEW t \in Token, TimerStep(t) PROVE NotCalled' /\ FailuresCounted'
  <2>1. CASE FireRun(t)
    <3>1. TimerOwns(t) BY <2>1 DEF FireRun, TimerOwns
    <3> QED BY <2>1, <3>1, TakenIsHeld, CallCounts DEF FireRun
  <2>2. CASE Expire(t) \/ FirePop(t) \/ FireGate(t)
    BY <2>2, QuietCount DEF Expire, FirePop, FireGate
  <2> QED BY <1>1, <2>1, <2>2 DEF TimerStep
<1>2. ASSUME NEW t \in Token, CancelStep(t) PROVE NotCalled' /\ FailuresCounted'
  BY <1>2, QuietCount DEF CancelStep, CancelPop, CancelTimer
<1>3. ASSUME NEW t \in Token, FlushRun(t) PROVE NotCalled' /\ FailuresCounted'
  <2>1. FlushOwns(t) BY <1>3 DEF FlushRun, FlushOwns
  <2> QED BY <1>3, <2>1, TakenIsHeld, CallCounts DEF FlushRun
<1>4. ASSUME NEW t \in Token, FlushTake(t) PROVE NotCalled' /\ FailuresCounted'
  BY <1>4, QuietCount DEF FlushTake
<1>5. CASE FlushSnapshot \/ FlushEnd BY <1>5, QuietCount DEF FlushSnapshot, FlushEnd
<1>6. CASE ShutdownStep
  BY <1>6, QuietCount DEF ShutdownStep, BeginShutdown, FlushInTime, FlushTimeout, Exit, Crash
<1>7. CASE ConfigStep
  BY <1>7, QuietCount DEF ConfigStep, EnterReviewer, ResetConfig, Setup, EditKnob
<1>8. CASE UNCHANGED vars BY <1>8, QuietCount
<1> QED BY <1>1, <1>2, <1>3, <1>4, <1>5, <1>6, <1>7, <1>8 DEF Next, FlushStep

\* fire_failures is the number of held operations whose call failed, those whose
\* target was already gone included.
THEOREM FailuresAreCounted == Spec => []FailuresCounted
<1>1. Init => NotCalled /\ FailuresCounted
  <2> SUFFICES ASSUME Init PROVE NotCalled /\ FailuresCounted OBVIOUS
  <2>1. FailedHeld = {} BY DEF Init, FailedHeld
  <2>2. failures = Cardinality(FailedHeld) BY <2>1, FS_EmptySet DEF Init
  <2> QED BY <2>2 DEF Init, NotCalled, FailuresCounted, FailedHeld
<1>2. TypeOK /\ Ownership /\ NotCalled /\ FailuresCounted /\ [Next]_vars
        => NotCalled' /\ FailuresCounted'
  BY RequestCounts, OthersCount
<1> QED BY <1>1, <1>2, TypeCorrect, OwnershipHolds, PTL DEF Spec
================================================================================
