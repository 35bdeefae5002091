------------------------------ MODULE ClientLife -------------------------------
(***************************************************************************)
(* The life of the Docker client objects, with no threads, locks or pings: *)
(* an object is connected by one builder, published if nothing is, and     *)
(* closed once; only a failed build lets go of open objects, its own and   *)
(* the published one, which the garbage collector closes later.            *)
(* DockerClient implements this module.                                    *)
(***************************************************************************)
CONSTANT Client     \* identities of client objects

VARIABLE life       \* life[c]: where the connection of c stands

Lives == {"closed", "connecting", "published", "lost"}

Init == life = [c \in Client |-> "closed"]

Published(c) == life[c] = "published"

Connect(c) ==
  /\ life[c] = "closed"
  /\ life' = [life EXCEPT ![c] = "connecting"]

\* The winner of a race to publish; the others are closed.
Publish(c) ==
  /\ life[c] = "connecting"
  /\ \A d \in Client : ~Published(d)
  /\ life' = [life EXCEPT ![c] = "published"]

Close(c) ==
  /\ life[c] # "closed"
  /\ life' = [life EXCEPT ![c] = "closed"]

\* A build fails: its object and the published one are left to the collector.
Lose(c) ==
  /\ life[c] = "connecting"
  /\ life' = [d \in Client |-> IF d = c \/ Published(d) THEN "lost" ELSE life[d]]

Next == \E c \in Client : Connect(c) \/ Publish(c) \/ Close(c) \/ Lose(c)

Spec == Init /\ [][Next]_life
================================================================================
