-------------------------------- MODULE Lockout --------------------------------
(***************************************************************************)
(* The brute-force counter of one client address: _ws_auth_failures of     *)
(* skiff/auth.py and its twin _setup_failures of skiff/routers/setup.py.   *)
(* An attempt looks at the counter under the lock, waits (for the AUTH     *)
(* message of a handshake, for ssh when the wizard opens a tunnel), and    *)
(* takes the lock again to record how it ended.  Addresses do not share    *)
(* state.  Time is counted in ticks since the last failure and since each  *)
(* attempt was admitted.                                                   *)
(***************************************************************************)
EXTENDS LockoutPromises

CONSTANTS
  Maxes,         \* values of WS_AUTH_MAX_ATTEMPTS, editable while the server runs
  TokenTimeout   \* WS_TOKEN_TIMEOUT

ASSUME LargestAssumption == Largest \in Nat /\ Maxes # {} /\ Maxes \subseteq 1..Largest
ASSUME TimeAssumption == LockoutSecs \in Nat \ {0} /\ TokenTimeout \in Nat

VARIABLES
  elapsed    \* elapsed[a]: ticks since a was admitted

entryVars == <<count, age, lowered>>
vars == <<entryVars, max, pending, elapsed, alerted>>

TypeOK ==
  /\ count \in Nat
  /\ age \in 0..LockoutSecs
  /\ max \in Maxes
  /\ pending \subseteq Attempt
  /\ elapsed \in [Attempt -> 0..TokenTimeout]
  /\ lowered \in BOOLEAN /\ alerted \in BOOLEAN

Init ==
  /\ count = 0 /\ age = 0
  /\ max \in Maxes
  /\ pending = {}
  /\ elapsed = [a \in Attempt |-> 0]
  /\ lowered = FALSE /\ alerted = FALSE

--------------------------------------------------------------------------------
\* mutant: an entry that has run out is not removed.
AdmitKeepsStale(a) ==
  /\ a \notin pending
  /\ ~Locked
  /\ pending' = pending \union {a}
  /\ elapsed' = [elapsed EXCEPT ![a] = 0]
  /\ UNCHANGED <<entryVars, max, alerted>>

\* _ws_is_locked_out answers no, and removes an entry that has run out.
Admit(a) ==
  /\ a \notin pending
  /\ ~Locked
  /\ count' = IF Fresh THEN count ELSE 0
  /\ lowered' = (Fresh /\ lowered)
  /\ pending' = pending \union {a}
  /\ elapsed' = [elapsed EXCEPT ![a] = 0]
  /\ UNCHANGED <<age, max, alerted>>

\* mutant: the threshold is compared one too late.
FailAlertsLate(a) ==
  /\ a \in pending
  /\ count' = count + 1 /\ age' = 0
  /\ alerted' = (alerted \/ count = max)
  /\ pending' = pending \ {a}
  /\ UNCHANGED <<max, elapsed, lowered>>

\* _ws_record_failure: no AUTH message in time, or a wrong token.
Fail(a) ==
  /\ a \in pending
  /\ count' = count + 1 /\ age' = 0
  /\ alerted' = (alerted \/ (count < max /\ count + 1 >= max))
  /\ pending' = pending \ {a}
  /\ UNCHANGED <<max, elapsed, lowered>>

\* _ws_clear_failures: the token was right.
Succeed(a) ==
  /\ a \in pending
  /\ count' = 0 /\ lowered' = FALSE /\ alerted' = FALSE
  /\ pending' = pending \ {a}
  /\ UNCHANGED <<age, max, elapsed>>

\* The token was right and its session too old, or the wizard's preconditions
\* failed: nothing is recorded.
EndUnrecorded(a) ==
  /\ a \in pending
  /\ pending' = pending \ {a}
  /\ UNCHANGED <<entryVars, max, elapsed, alerted>>

\* reset-config empties _setup_failures.
Forget ==
  /\ count' = 0 /\ lowered' = FALSE /\ alerted' = FALSE
  /\ UNCHANGED <<age, max, pending, elapsed>>

\* PUT /api/config/knobs/WS_AUTH_MAX_ATTEMPTS
EditMax ==
  /\ max' \in Maxes \ {max}
  /\ lowered' = (lowered \/ (count > 0 /\ max' < max))
  /\ UNCHANGED <<count, age, pending, elapsed, alerted>>

\* Time passes: no attempt waits beyond its timeout.
Tick ==
  /\ \A a \in pending : elapsed[a] < TokenTimeout
  /\ elapsed' = [a \in Attempt |-> IF a \in pending THEN elapsed[a] + 1 ELSE elapsed[a]]
  /\ age' = IF Fresh THEN age + 1 ELSE age
  /\ alerted' = (alerted /\ age' < LockoutSecs)
  /\ UNCHANGED <<count, lowered, max, pending>>

Next ==
  \/ \E a \in Attempt : Admit(a) \/ Fail(a) \/ Succeed(a) \/ EndUnrecorded(a)
  \/ Forget \/ EditMax \/ Tick

Spec == Init /\ [][Next]_vars
--------------------------------------------------------------------------------
(* Properties, besides those of LockoutPromises *)

\* docs/audit-events.md, audit.ws_auth_lockout: "Emitted on the exact attempt that
\* crosses WS_AUTH_MAX_ATTEMPTS so SIEM alerts on activation".
ActivationAlerted == Locked => alerted
================================================================================
