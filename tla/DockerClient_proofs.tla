-------------------------- MODULE DockerClient_proofs --------------------------
(***************************************************************************)
(* For every set of threads, client objects and hosts: the types of the    *)
(* client cache, the accounting of its open objects, and what phase 1 may  *)
(* hand out.                                                               *)
(***************************************************************************)
EXTENDS DockerClient, TLAPS

\* Every step of a request thread or of its environment keeps the types.
LEMMA NextTyped == TypeOK /\ [Next]_vars => TypeOK'
<1> SUFFICES ASSUME TypeOK, [Next]_vars PROVE TypeOK'
  OBVIOUS
<1> USE ClientAssumption DEF TypeOK, Phases, Setups, Goto, Invalidate,
                             threadVars, cacheVars, configVars, ghostVars
<1>1. ASSUME NEW th \in Thread, GetClient(th) PROVE TypeOK'
  <2>1. CASE PhaseOne(th) BY <2>1 DEF PhaseOne
  <2>2. CASE Snapshot(th) BY <2>2 DEF Snapshot
  <2>3. CASE PingSucceeds(th) BY <2>3 DEF PingSucceeds
  <2>4. CASE PingFails(th) BY <2>4 DEF PingFails
  <2>5. CASE Discard(th) BY <2>5 DEF Discard
  <2>6. CASE BuildStarts(th) BY <2>6 DEF BuildStarts
  <2>7. CASE BuildFails(th)
    <3>1. {ref[th], client} \intersect open \subseteq Client
      OBVIOUS
    <3> QED BY <2>7, <3>1 DEF BuildFails
  <2>8. CASE Publish(th) BY <2>8 DEF Publish
  <2> QED BY <1>1, <2>1, <2>2, <2>3, <2>4, <2>5, <2>6, <2>7, <2>8 DEF GetClient
<1>2. ASSUME NEW th \in Thread, Finish(th) \/ CallFails(th) PROVE TypeOK'
  BY <1>2 DEF Finish, CallFails
<1>3. CASE Reconnect \/ WriteHost \/ ApplyHost \/ ResetHost
  BY <1>3 DEF Reconnect, WriteHost, ApplyHost, ResetHost
<1>4. CASE PingTtlLapses \/ BackoffLapses
  BY <1>4 DEF PingTtlLapses, BackoffLapses
<1>5. ASSUME NEW c \in Client, Collect(c) PROVE TypeOK'
  BY <1>5 DEF Collect
<1>6. CASE UNCHANGED vars
  BY <1>6 DEF vars
<1> QED BY <1>1, <1>2, <1>3, <1>4, <1>5, <1>6 DEF Next

\* The variables of the client cache keep their types.
THEOREM TypeCorrect == Spec => []TypeOK
<1>1. Init => TypeOK
  BY DEF Init, TypeOK, Phases, Setups
<1> QED BY <1>1, NextTyped, PTL DEF Spec
--------------------------------------------------------------------------------
\* The inductive invariant: besides what the three properties say, a thread that
\* pings or discards holds an object, which is never one being connected.
Inv ==
  /\ ClosedIsBeingDiscarded
  /\ OpenIsAccounted
  /\ FreshIsItsOwn
  /\ \A th \in Thread : pc[th] \in {"ping", "discard", "connect"} => ref[th] \in Client
  /\ \A th \in Thread : pc[th] \in {"idle", "snapshot", "build", "refused"} => ref[th] = NoClient
  /\ \A th \in Thread : pc[th] = "discard" => ref[th] \notin open
  /\ client \notin dropped

LEMMA InitInv == Init => Inv
  BY ClientAssumption
     DEF Init, Inv, ClosedIsBeingDiscarded, OpenIsAccounted, FreshIsItsOwn, Connecting

LEMMA NextInv == TypeOK /\ Inv /\ [Next]_vars => Inv'
<1> SUFFICES ASSUME TypeOK, Inv, [Next]_vars PROVE Inv'
  OBVIOUS
<1> USE ClientAssumption
    DEF TypeOK, Phases, Setups, Goto, Invalidate, Unused, Connecting,
        Inv, ClosedIsBeingDiscarded, OpenIsAccounted, FreshIsItsOwn,
        threadVars, cacheVars, configVars, ghostVars
<1>1. ASSUME NEW th \in Thread, GetClient(th) PROVE Inv'
  <2>1. CASE PhaseOne(th) BY <2>1 DEF PhaseOne
  <2>2. CASE Snapshot(th) BY <2>2 DEF Snapshot
  <2>3. CASE PingSucceeds(th) BY <2>3 DEF PingSucceeds
  <2>4. CASE PingFails(th) BY <2>4 DEF PingFails
  <2>5. CASE Discard(th) BY <2>5 DEF Discard
  <2>6. CASE BuildStarts(th) BY <2>6 DEF BuildStarts
  <2>7. CASE BuildFails(th) BY <2>7 DEF BuildFails
  <2>8. CASE Publish(th) BY <2>8 DEF Publish
  <2> QED BY <1>1, <2>1, <2>2, <2>3, <2>4, <2>5, <2>6, <2>7, <2>8 DEF GetClient
<1>2. ASSUME NEW th \in Thread, Finish(th) PROVE Inv'
  BY <1>2 DEF Finish
<1>3. ASSUME NEW th \in Thread, CallFails(th) PROVE Inv'
  BY <1>3 DEF CallFails
<1>4. CASE Reconnect \/ WriteHost \/ ApplyHost \/ ResetHost
  BY <1>4 DEF Reconnect, WriteHost, ApplyHost, ResetHost
<1>5. CASE PingTtlLapses \/ BackoffLapses
  BY <1>5 DEF PingTtlLapses, BackoffLapses
<1>6. ASSUME NEW c \in Client, Collect(c) PROVE Inv'
  BY <1>6 DEF Collect
<1>7. CASE UNCHANGED vars
  BY <1>7 DEF vars
<1> QED BY <1>1, <1>2, <1>3, <1>4, <1>5, <1>6, <1>7 DEF Next

\* The invariant holds in every reachable state.
THEOREM InvHolds == Spec => []Inv
  BY InitInv, NextInv, TypeCorrect, PTL DEF Spec

\* A closed client is only ever published between the close() and the second
\* lock of _discard_stale_client.
THEOREM NoClosedClientStays == Spec => []ClosedIsBeingDiscarded
  BY InvHolds, PTL DEF Inv

\* No object is left open but the published one, those being connected and those
\* a failed build dropped.
THEOREM EveryOpenClientAccounted == Spec => []OpenIsAccounted
  BY InvHolds, PTL DEF Inv

\* The ping stamp is that of the client phase 1 serves.
THEOREM StampIsOwn == Spec => []FreshIsItsOwn
  BY InvHolds, PTL DEF Inv
--------------------------------------------------------------------------------
(* The refinement of ClientLife. *)

\* Where the connection of an object stands: a published object whose ping has
\* failed is closed before it is taken out of the slot.
LifeOf(c) ==
  IF c \notin open THEN "closed"
  ELSE IF c = client THEN "published"
  ELSE IF c \in dropped THEN "lost"
  ELSE "connecting"

Life == INSTANCE ClientLife WITH life <- [c \in Client |-> LifeOf(c)]

\* A step that changes the life of no object, and of exactly one.
LEMMA LifeKept ==
  ASSUME \A c \in Client : LifeOf(c)' = LifeOf(c)
  PROVE  UNCHANGED [c \in Client |-> LifeOf(c)]
OBVIOUS

LEMMA LifeMoves ==
  ASSUME NEW c \in Client, NEW to, LifeOf(c)' = to,
         \A d \in Client \ {c} : LifeOf(d)' = LifeOf(d)
  PROVE  [d \in Client |-> LifeOf(d)]' = [[d \in Client |-> LifeOf(d)] EXCEPT ![c] = to]
OBVIOUS

\* Closing objects that are not connected any more is a step of the promise.
LEMMA LifeCloses ==
  ASSUME NEW c, LifeOf(c)' = "closed" \/ c \notin Client,
         \A d \in Client \ {c} : LifeOf(d)' = LifeOf(d)
  PROVE  [Life!Next]_[d \in Client |-> LifeOf(d)]
<1>1. CASE c \notin Client BY <1>1, LifeKept
<1>2. CASE c \in Client /\ LifeOf(c) = "closed" BY <1>2, LifeKept
<1>3. CASE c \in Client /\ LifeOf(c) # "closed"
  <2>1. Life!Close(c) BY <1>3, LifeMoves DEF Life!Close
  <2> QED BY <1>3, <2>1 DEF Life!Next
<1> QED BY <1>1, <1>2, <1>3

LEMMA NextLife ==
  ASSUME TypeOK, Inv, [Next]_vars PROVE [Life!Next]_[c \in Client |-> LifeOf(c)]
<1> USE ClientAssumption DEF TypeOK, Goto, threadVars, cacheVars, configVars, ghostVars
<1>a. ASSUME UNCHANGED <<client, open, dropped>> PROVE [Life!Next]_[c \in Client |-> LifeOf(c)]
  BY <1>a, LifeKept DEF LifeOf
<1>b. ASSUME Invalidate, UNCHANGED dropped PROVE [Life!Next]_[c \in Client |-> LifeOf(c)]
  <2>0. PICK c : c = client OBVIOUS
  <2>1. LifeOf(c)' = "closed" BY <1>b, <2>0 DEF LifeOf, Invalidate
  <2>2. \A d \in Client \ {c} : LifeOf(d)' = LifeOf(d) BY <1>b, <2>0 DEF LifeOf, Invalidate
  <2> QED BY <2>1, <2>2, LifeCloses
<1>1. ASSUME NEW th \in Thread,
             \/ PhaseOne(th) \/ Snapshot(th) \/ PingSucceeds(th) \/ Finish(th)
      PROVE  [Life!Next]_[c \in Client |-> LifeOf(c)]
  BY <1>1, <1>a DEF PhaseOne, Snapshot, PingSucceeds, Finish
<1>2. ASSUME NEW th \in Thread, PingFails(th) PROVE [Life!Next]_[c \in Client |-> LifeOf(c)]
  <2>0. PICK c : c = ref[th] OBVIOUS
  <2>1. LifeOf(c)' = "closed" BY <1>2, <2>0 DEF LifeOf, PingFails
  <2>2. \A d \in Client \ {c} : LifeOf(d)' = LifeOf(d) BY <1>2, <2>0 DEF LifeOf, PingFails
  <2> QED BY <2>1, <2>2, LifeCloses
<1>3. ASSUME NEW th \in Thread, Discard(th) PROVE [Life!Next]_[c \in Client |-> LifeOf(c)]
  <2>1. client = ref[th] => client \notin open BY <1>3 DEF Discard, Inv
  <2> QED BY <1>3, <2>1, LifeKept DEF LifeOf, Discard
<1>4. ASSUME NEW th \in Thread, BuildStarts(th) PROVE [Life!Next]_[c \in Client |-> LifeOf(c)]
  <2>1. PICK c \in Client :
          Unused(c) /\ open' = open \union {c} /\ UNCHANGED <<client, dropped>>
    BY <1>4 DEF BuildStarts
  <2>2. c \notin open BY <2>1 DEF Inv, OpenIsAccounted, Connecting, Unused
  <2>3. LifeOf(c) = "closed" /\ LifeOf(c)' = "connecting"
    BY <2>1, <2>2 DEF LifeOf, Unused
  <2>4. \A d \in Client \ {c} : LifeOf(d)' = LifeOf(d) BY <2>1 DEF LifeOf
  <2>5. Life!Connect(c) BY <2>3, <2>4, LifeMoves DEF Life!Connect
  <2> QED BY <2>5 DEF Life!Next
<1>5. ASSUME NEW th \in Thread, pc[th] = "connect", NEW c, c = ref[th]
      PROVE  /\ c \in Client /\ LifeOf(c) = "connecting"
             /\ c \in open /\ c \notin dropped /\ c # client
  BY <1>5 DEF Inv, OpenIsAccounted, LifeOf
<1>6. ASSUME NEW th \in Thread, BuildFails(th) PROVE [Life!Next]_[c \in Client |-> LifeOf(c)]
  <2>0. PICK c : c = ref[th] OBVIOUS
  <2>1. /\ client' = NoClient /\ open' = open
        /\ dropped' = dropped \union ({c, client} \intersect open)
    BY <1>6, <2>0 DEF BuildFails
  <2>2. /\ c \in Client /\ LifeOf(c) = "connecting"
        /\ c \in open /\ c \notin dropped /\ c # client
    BY <1>5, <1>6, <2>0 DEF BuildFails
  <2>3. ASSUME NEW d \in Client
        PROVE  LifeOf(d)' = IF d = c \/ LifeOf(d) = "published" THEN "lost" ELSE LifeOf(d)
    BY <2>1, <2>2 DEF LifeOf
  <2>4. Life!Lose(c) BY <2>2, <2>3 DEF Life!Lose, Life!Published
  <2> QED BY <2>2, <2>4 DEF Life!Next
<1>7. ASSUME NEW th \in Thread, Publish(th) PROVE [Life!Next]_[c \in Client |-> LifeOf(c)]
  <2>0. PICK c : c = ref[th] OBVIOUS
  <2>1. /\ c \in Client /\ LifeOf(c) = "connecting"
        /\ c \in open /\ c \notin dropped /\ c # client
    BY <1>5, <1>7, <2>0 DEF Publish
  <2>2. CASE client = NoClient
    <3>1. client' = c /\ UNCHANGED <<open, dropped>> BY <1>7, <2>0, <2>2 DEF Publish
    <3>2. \A d \in Client : LifeOf(d) # "published" BY <2>2 DEF LifeOf
    <3>3. LifeOf(c)' = "published" BY <2>1, <3>1 DEF LifeOf
    <3>4. \A d \in Client \ {c} : LifeOf(d)' = LifeOf(d) BY <2>2, <3>1 DEF LifeOf
    <3>5. Life!Publish(c)
      BY <2>1, <3>2, <3>3, <3>4, LifeMoves DEF Life!Publish, Life!Published
    <3> QED BY <2>1, <3>5 DEF Life!Next
  <2>3. CASE client # NoClient
    <3>1. LifeOf(c)' = "closed" BY <1>7, <2>0, <2>3 DEF LifeOf, Publish
    <3>2. \A d \in Client \ {c} : LifeOf(d)' = LifeOf(d) BY <1>7, <2>0, <2>3 DEF LifeOf, Publish
    <3> QED BY <3>1, <3>2, LifeCloses
  <2> QED BY <2>2, <2>3
<1>8. ASSUME NEW th \in Thread, CallFails(th) PROVE [Life!Next]_[c \in Client |-> LifeOf(c)]
  BY <1>8, <1>b DEF CallFails
<1>9. CASE Reconnect \/ ApplyHost BY <1>9, <1>b DEF Reconnect, ApplyHost
<1>10. CASE WriteHost \/ ResetHost \/ PingTtlLapses \/ BackoffLapses \/ UNCHANGED vars
  BY <1>10, <1>a DEF WriteHost, ResetHost, PingTtlLapses, BackoffLapses, vars
<1>11. ASSUME NEW c \in Client, Collect(c) PROVE [Life!Next]_[d \in Client |-> LifeOf(d)]
  <2>1. c # client BY <1>11 DEF Collect, Inv
  <2>2. LifeOf(c)' = "closed" BY <1>11 DEF LifeOf, Collect
  <2>3. \A d \in Client \ {c} : LifeOf(d)' = LifeOf(d) BY <1>11 DEF LifeOf, Collect
  <2> QED BY <2>2, <2>3, LifeCloses
<1> QED BY <1>1, <1>2, <1>3, <1>4, <1>6, <1>7, <1>8, <1>9, <1>10, <1>11 DEF Next, GetClient

\* The cache with its threads, pings, builds and invalidations implements the life
\* of its objects.
THEOREM CacheKeepsLife == Spec => Life!Spec
<1>1. Init => Life!Init BY DEF Init, Life!Init, LifeOf
<1> QED BY <1>1, NextLife, TypeCorrect, InvHolds, PTL DEF Spec, Life!Spec
================================================================================
