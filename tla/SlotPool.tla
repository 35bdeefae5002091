------------------------------- MODULE SlotPool --------------------------------
(***************************************************************************)
(* What the counter of WebSockets per address stands for, with no counter: *)
(* for every address the set of the connections that hold one of its       *)
(* slots.  A connection is admitted only below the limit of the moment and *)
(* gives back the slot it holds, once.  ExecSessions implements this       *)
(* module with a number that is counted up and down in separate sections   *)
(* of a lock.                                                              *)
(***************************************************************************)
EXTENDS Integers, FiniteSets

CONSTANTS
  Ws,      \* connections
  Ip,      \* client addresses
  Limits   \* values the limit may be edited to

VARIABLES
  held,    \* held[i]: the connections that hold a slot of address i
  limit    \* how many an address may hold

pool == <<held, limit>>

Init == held = [i \in Ip |-> {}] /\ limit \in Limits

Take(w, i) ==
  /\ \A j \in Ip : w \notin held[j]
  /\ Cardinality(held[i]) < limit
  /\ held' = [held EXCEPT ![i] = @ \union {w}]
  /\ UNCHANGED limit

Give(w, i) ==
  /\ w \in held[i]
  /\ held' = [held EXCEPT ![i] = @ \ {w}]
  /\ UNCHANGED limit

\* A lower limit takes nothing away from those who hold a slot.
Edit == limit' \in Limits /\ UNCHANGED held

Next == (\E w \in Ws, i \in Ip : Take(w, i) \/ Give(w, i)) \/ Edit

Spec == Init /\ [][Next]_pool

\* No address ever holds more than the largest limit there is, although the limit
\* may be lowered below what it holds.
WithinLargest(largest) == \A i \in Ip : Cardinality(held[i]) <= largest
================================================================================
