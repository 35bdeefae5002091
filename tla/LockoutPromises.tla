----------------------------- MODULE LockoutPromises -----------------------------
(***************************************************************************)
(* What the counter of failed attempts promises about one client address, *)
(* over its entry, the threshold and the attempts that are under way.     *)
(* Lockout is the mechanism.                                              *)
(***************************************************************************)
EXTENDS Integers, FiniteSets

CONSTANTS
  Attempt,       \* concurrent attempts from the address
  Largest,       \* the largest value of WS_AUTH_MAX_ATTEMPTS
  LockoutSecs    \* WS_AUTH_LOCKOUT_SECS

ASSUME AttemptAssumption == IsFiniteSet(Attempt)

VARIABLES
  count,     \* the failures in the entry, 0 if there is no entry
  age,       \* ticks since the last failure, no further than LockoutSecs
  max,       \* config.WS_AUTH_MAX_ATTEMPTS
  pending,   \* attempts admitted and not yet recorded
  lowered,   \* the threshold was lowered under the failures on record
  alerted    \* audit.ws_auth_lockout was emitted for the lockout in force

Fresh == age < LockoutSecs
Locked == count >= max /\ Fresh

\* Check and record are two sections of the lock, so attempts already admitted
\* may still fail once the address is locked; but never more than the concurrent
\* attempts: the guesses against one entry are bounded however they interleave.
GuessesBounded == count + Cardinality(pending) <= Largest - 1 + Cardinality(Attempt)

\* No lockout is in force that was not reported, however attempts overlap, unless
\* the threshold was lowered under the failures on record: the one comparison
\* with the threshold of the moment is enough, provided a handshake cannot outlast
\* the lockout that others caused.
LockoutAlerted == Locked /\ ~lowered => alerted
================================================================================
