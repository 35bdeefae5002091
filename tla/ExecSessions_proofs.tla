-------------------------- MODULE ExecSessions_proofs --------------------------
(***************************************************************************)
(* For any number of connections, addresses and concurrent switches: the   *)
(* types, the sweep of exec sessions at the switch to the reviewer profile *)
(* and the per-address counter.                                            *)
(***************************************************************************)
EXTENDS ExecSessions, FiniteSetTheorems, TLAPS

\* Every step keeps the types.
LEMMA NextTyped == TypeOK /\ [Next]_vars => TypeOK'
<1> SUFFICES ASSUME TypeOK, [Next]_vars PROVE TypeOK'
  OBVIOUS
<1> USE DEF TypeOK, Phases, Step, Close, handlerVars, sharedVars, switchVars, configVars
<1>1. ASSUME NEW w \in Ws, Connect(w) PROVE TypeOK' BY <1>1 DEF Connect
<1>2. ASSUME NEW w \in Ws, Handler(w) PROVE TypeOK'
  <2>1. CASE AuthSucceeds(w) BY <2>1 DEF AuthSucceeds
  <2>2. CASE AuthFails(w) BY <2>2 DEF AuthFails
  <2>3. CASE Precheck(w) BY <2>3 DEF Precheck
  <2>4. CASE Acquire(w) BY <2>4 DEF Acquire
  <2>5. CASE Register(w) BY <2>5 DEF Register
  <2>6. CASE Release(w) BY <2>6 DEF Release
  <2>7. CASE SessionOpens(w) BY <2>7 DEF SessionOpens
  <2>8. CASE Unregister(w) BY <2>8 DEF Unregister
  <2> QED BY <1>2, <2>1, <2>2, <2>3, <2>4, <2>5, <2>6, <2>7, <2>8 DEF Handler
<1>3. ASSUME NEW w \in Ws, Pumps(w) \/ Cuts(w) PROVE TypeOK'
  BY <1>3 DEF Pumps, Cuts, Receive, Forward, SessionEnds, PeerLeaves, Revalidate, SessionExpires
<1>4. ASSUME NEW a \in Admin, Enter(a) PROVE TypeOK'
  <2>1. CASE EnterFlip(a) BY <1>4, <2>1 DEF EnterFlip
  <2>2. CASE EnterSnapshot(a) BY <1>4, <2>2 DEF EnterSnapshot
  <2>3. ASSUME NEW w \in Ws, EnterClose(a, w) PROVE TypeOK'
    <3>1. sweep[a] \ {w} \in SUBSET Ws
      OBVIOUS
    <3> QED BY <1>4, <2>3, <3>1 DEF EnterClose
  <2>4. CASE EnterAnswers(a) BY <1>4, <2>4 DEF EnterAnswers
  <2> QED BY <1>4, <2>1, <2>2, <2>3, <2>4 DEF Enter
<1>5. CASE Config
  BY <1>5, ProfileAssumption DEF Config, ResetToken, ResetProfile, SetToken, EditLimit
<1>6. CASE UNCHANGED vars BY <1>6 DEF vars
<1> QED BY <1>1, <1>2, <1>3, <1>4, <1>5, <1>6 DEF Next

\* The state of the WebSocket handlers keeps its types.
THEOREM TypeCorrect == Spec => []TypeOK
<1>1. Init => TypeOK
  <2> SUFFICES ASSUME Init PROVE TypeOK
    OBVIOUS
  <2>1. sweep \in [Admin -> SUBSET Ws]
    BY DEF Init
  <2>2. active \subseteq Ws /\ inflight \subseteq Ws
    BY DEF Init
  <2> QED BY <2>1, <2>2, ProfileAssumption DEF Init, TypeOK, Phases
<1> QED BY <1>1, NextTyped, PTL DEF Spec
--------------------------------------------------------------------------------
\* Why the sweep misses nobody: the registry only holds exec sessions that have
\* not reached their finally, it is empty in the reviewer profile as soon as no
\* switch stands between its flip and its snapshot, and what a snapshot took out
\* of it is in the sweep of that switch.
SweepInv ==
  /\ SweepCovers
  /\ reviewer /\ (\A a \in Admin : switch[a] # "flipped") => active = {}
  /\ \A a \in Admin : switch[a] # "closing" => sweep[a] = {}
  /\ BootReviewer => reviewer

LEMMA NextSweepInv == TypeOK /\ SweepInv /\ [Next]_vars => SweepInv'
<1> SUFFICES ASSUME TypeOK, SweepInv, [Next]_vars PROVE SweepInv'
  OBVIOUS
<1> USE DEF TypeOK, Phases, Step, Close, SweepInv, SweepCovers, ShellReachable,
            handlerVars, sharedVars, switchVars, configVars
<1>1. ASSUME NEW w \in Ws, Connect(w) PROVE SweepInv' BY <1>1 DEF Connect
<1>2. ASSUME NEW w \in Ws, Handler(w) PROVE SweepInv'
  <2>1. CASE AuthSucceeds(w) BY <2>1 DEF AuthSucceeds
  <2>2. CASE AuthFails(w) BY <2>2 DEF AuthFails
  <2>3. CASE Precheck(w) BY <2>3 DEF Precheck
  <2>4. CASE Acquire(w) BY <2>4 DEF Acquire
  <2>5. CASE Register(w) BY <2>5 DEF Register
  <2>6. CASE Release(w) BY <2>6 DEF Release
  <2>7. CASE SessionOpens(w) BY <2>7 DEF SessionOpens
  <2>8. CASE Unregister(w) BY <2>8 DEF Unregister
  <2> QED BY <1>2, <2>1, <2>2, <2>3, <2>4, <2>5, <2>6, <2>7, <2>8 DEF Handler
<1>3. ASSUME NEW w \in Ws, Pumps(w) \/ Cuts(w) PROVE SweepInv'
  BY <1>3 DEF Pumps, Cuts, Receive, Forward, SessionEnds, PeerLeaves, Revalidate, SessionExpires
<1>4. ASSUME NEW a \in Admin, Enter(a) PROVE SweepInv'
  <2>1. CASE EnterFlip(a) BY <1>4, <2>1 DEF EnterFlip
  <2>2. CASE EnterSnapshot(a) BY <1>4, <2>2 DEF EnterSnapshot
  <2>3. ASSUME NEW w \in Ws, EnterClose(a, w) PROVE SweepInv' BY <1>4, <2>3 DEF EnterClose
  <2>4. CASE EnterAnswers(a) BY <1>4, <2>4 DEF EnterAnswers
  <2> QED BY <1>4, <2>1, <2>2, <2>3, <2>4 DEF Enter
<1>5. CASE Config
  BY <1>5, ProfileAssumption DEF Config, ResetToken, ResetProfile, SetToken, EditLimit
<1>6. CASE UNCHANGED vars BY <1>6 DEF vars
<1> QED BY <1>1, <1>2, <1>3, <1>4, <1>5, <1>6 DEF Next

\* The sweep invariant holds in every reachable state.
THEOREM SweepHolds == Spec => []SweepInv
<1>1. Init => SweepInv
  BY DEF Init, SweepInv, SweepCovers, ShellReachable
<1> QED BY <1>1, NextSweepInv, TypeCorrect, PTL DEF Spec

\* A reachable exec session is registered or about to be closed.
THEOREM SweepMissesNobody == Spec => []SweepCovers
  BY SweepHolds, PTL DEF SweepInv

\* In the reviewer profile, with every switch answered, no shell is reachable.
THEOREM NoShellForReviewer == Spec => []ReviewerHasNoShell
<1>1. TypeOK /\ SweepInv => ReviewerHasNoShell
  BY DEF TypeOK, SweepInv, SweepCovers, ReviewerHasNoShell, Switching
<1> QED BY <1>1, SweepHolds, TypeCorrect, PTL
--------------------------------------------------------------------------------
Holders(i) == {w \in Ws : ip[w] = i /\ pc[w] \in HoldsSlot}

LEMMA HoldersFinite == ASSUME NEW i PROVE IsFiniteSet(Holders(i))
<1>1. Holders(i) \subseteq Ws BY DEF Holders
<1> QED BY <1>1, WsAssumption, FS_Subset

\* A step that moves no handler into or out of its slot keeps the counters right.
LEMMA SlotsKept ==
  ASSUME SlotsMatch, slots' = slots, ip' = ip,
         \A w \in Ws : pc'[w] \in HoldsSlot <=> pc[w] \in HoldsSlot
  PROVE  SlotsMatch'
<1> SUFFICES ASSUME NEW i \in Ip
             PROVE slots'[i] = Cardinality({w \in Ws : ip'[w] = i /\ pc'[w] \in HoldsSlot})
  BY DEF SlotsMatch, HoldsSlot
<1>1. {w \in Ws : ip'[w] = i /\ pc'[w] \in HoldsSlot} = {w \in Ws : ip[w] = i /\ pc[w] \in HoldsSlot}
  OBVIOUS
<1> QED BY <1>1 DEF SlotsMatch

LEMMA AcquireKeepsSlots ==
  ASSUME TypeOK, SlotsMatch, NEW w \in Ws, Acquire(w) PROVE SlotsMatch'
<1>1. CASE slots[ip[w]] >= limit
  BY <1>1, SlotsKept DEF Acquire, Step, TypeOK, HoldsSlot, Phases
<1>2. CASE ~(slots[ip[w]] >= limit)
  <2>1. SUFFICES ASSUME NEW i \in Ip PROVE slots'[i] = Cardinality(Holders(i)')
    BY DEF SlotsMatch, Holders, HoldsSlot
  <2>2. pc[w] = "checked" /\ pc' = [pc EXCEPT ![w] = "acquired"] /\ ip' = ip
        /\ slots' = [slots EXCEPT ![ip[w]] = @ + 1]
    BY <1>2 DEF Acquire, Step
  <2>3. CASE ip[w] = i
    <3>1. Holders(i)' = Holders(i) \union {w} /\ w \notin Holders(i)
      BY <2>2, <2>3 DEF Holders, HoldsSlot, TypeOK
    <3>2. Cardinality(Holders(i)') = Cardinality(Holders(i)) + 1
      BY <3>1, HoldersFinite, FS_AddElement
    <3> QED BY <2>2, <2>3, <3>2 DEF SlotsMatch, Holders, TypeOK
  <2>4. CASE ip[w] # i
    <3>1. Holders(i)' = Holders(i)
      BY <2>2, <2>4 DEF Holders, TypeOK
    <3> QED BY <2>2, <2>4, <3>1 DEF SlotsMatch, Holders, TypeOK
  <2> QED BY <2>3, <2>4
<1> QED BY <1>1, <1>2

LEMMA ReleaseKeepsSlots ==
  ASSUME TypeOK, SlotsMatch, NEW w \in Ws, Release(w) PROVE SlotsMatch'
<1>1. SUFFICES ASSUME NEW i \in Ip PROVE slots'[i] = Cardinality(Holders(i)')
  BY DEF SlotsMatch, Holders, HoldsSlot
<1>2. /\ pc[w] \in {"refused", "releasing"} /\ pc' = [pc EXCEPT ![w] = "closed"] /\ ip' = ip
      /\ slots' = [slots EXCEPT ![ip[w]] = IF @ > 0 THEN @ - 1 ELSE 0]
  BY DEF Release, Step
<1>3. CASE ip[w] = i
  <2>1. Holders(i)' = Holders(i) \ {w} /\ w \in Holders(i)
    BY <1>2, <1>3 DEF Holders, HoldsSlot, TypeOK
  <2>2. Cardinality(Holders(i)') = Cardinality(Holders(i)) - 1
    BY <2>1, HoldersFinite, FS_RemoveElement
  <2>3. Cardinality(Holders(i)) \in Nat /\ Cardinality(Holders(i)') \in Nat
    BY <2>1, HoldersFinite, FS_CardinalityType, FS_RemoveElement
  <2>4. slots[i] = Cardinality(Holders(i))
    BY DEF SlotsMatch, Holders
  <2>5. slots'[i] = slots[i] - 1
    BY <1>2, <1>3, <2>2, <2>3, <2>4 DEF TypeOK
  <2> QED BY <2>2, <2>4, <2>5
<1>4. CASE ip[w] # i
  <2>1. Holders(i)' = Holders(i)
    BY <1>2, <1>4 DEF Holders, TypeOK
  <2> QED BY <1>2, <1>4, <2>1 DEF SlotsMatch, Holders, TypeOK
<1> QED BY <1>3, <1>4

\* The counter of every address is the number of handlers that hold its slots.
THEOREM SlotsAccounted == Spec => []SlotsMatch
<1>1. Init => SlotsMatch
  <2> SUFFICES ASSUME Init, NEW i \in Ip
               PROVE slots[i] = Cardinality({w \in Ws : ip[w] = i /\ pc[w] \in HoldsSlot})
    BY DEF SlotsMatch
  <2>1. {w \in Ws : ip[w] = i /\ pc[w] \in HoldsSlot} = {}
    BY DEF Init, HoldsSlot
  <2> QED BY <2>1, FS_EmptySet DEF Init
<1>2. TypeOK /\ SlotsMatch /\ [Next]_vars => SlotsMatch'
  <2> SUFFICES ASSUME TypeOK, SlotsMatch, [Next]_vars PROVE SlotsMatch'
    OBVIOUS
  <2> USE SlotsKept
      DEF TypeOK, Phases, HoldsSlot, Step, handlerVars, sharedVars, switchVars, configVars
  <2>1. ASSUME NEW w \in Ws, Connect(w) PROVE SlotsMatch' BY <2>1 DEF Connect
  <2>2. ASSUME NEW w \in Ws, Handler(w) PROVE SlotsMatch'
    <3>1. CASE AuthSucceeds(w) \/ AuthFails(w) \/ Precheck(w)
      BY <3>1 DEF AuthSucceeds, AuthFails, Precheck
    <3>2. CASE Register(w) \/ SessionOpens(w) \/ Unregister(w)
      BY <3>2 DEF Register, SessionOpens, Unregister
    <3> QED BY <2>2, <3>1, <3>2, AcquireKeepsSlots, ReleaseKeepsSlots DEF Handler
  <2>3. ASSUME NEW w \in Ws, Pumps(w) \/ Cuts(w) PROVE SlotsMatch'
    BY <2>3 DEF Pumps, Cuts, Receive, Forward, SessionEnds, PeerLeaves, Revalidate, SessionExpires
  <2>4. ASSUME NEW a \in Admin, Enter(a) PROVE SlotsMatch'
    BY <2>4 DEF Enter, EnterFlip, EnterSnapshot, EnterClose, EnterAnswers
  <2>5. CASE Config
    BY <2>5 DEF Config, ResetToken, ResetProfile, SetToken, EditLimit
  <2>6. CASE UNCHANGED vars BY <2>6 DEF vars
  <2> QED BY <2>1, <2>2, <2>3, <2>4, <2>5, <2>6 DEF Next
<1> QED BY <1>1, <1>2, TypeCorrect, PTL DEF Spec
--------------------------------------------------------------------------------
(* The refinement of SlotPool. *)

Pool == INSTANCE SlotPool WITH held <- [i \in Ip |-> Holders(i)]

\* The pool counts as this module does.
LEMMA PoolCounts == ASSUME NEW S PROVE Pool!Cardinality(S) = Cardinality(S)
BY DEF Pool!Cardinality, Cardinality

\* A step that moves no handler into or out of its slot leaves the pool alone.
LEMMA PoolKept ==
  ASSUME ip' = ip, limit' = limit, \A w \in Ws : pc'[w] \in HoldsSlot <=> pc[w] \in HoldsSlot
  PROVE  UNCHANGED Pool!pool
<1>1. ASSUME NEW i \in Ip PROVE Holders(i)' = Holders(i) BY DEF Holders, HoldsSlot
<1> QED BY <1>1 DEF Pool!pool

\* A step of one handler that enters or leaves its slot changes the set of its own
\* address only.
LEMMA PoolMoves ==
  ASSUME TypeOK, NEW w \in Ws, NEW to \in Phases, ip' = ip, pc' = [pc EXCEPT ![w] = to]
  PROVE  /\ to \in HoldsSlot =>
              [i \in Ip |-> Holders(i)]' = [[i \in Ip |-> Holders(i)] EXCEPT ![ip[w]] = @ \union {w}]
         /\ to \notin HoldsSlot =>
              [i \in Ip |-> Holders(i)]' = [[i \in Ip |-> Holders(i)] EXCEPT ![ip[w]] = @ \ {w}]
<1>1. ASSUME NEW i \in Ip
      PROVE  /\ i # ip[w] => Holders(i)' = Holders(i)
             /\ i = ip[w] /\ to \in HoldsSlot => Holders(i)' = Holders(i) \union {w}
             /\ i = ip[w] /\ to \notin HoldsSlot => Holders(i)' = Holders(i) \ {w}
  BY DEF TypeOK, Holders, HoldsSlot
<1> QED BY <1>1

LEMMA NextPool ==
  ASSUME TypeOK, SlotsMatch, [Next]_vars PROVE [Pool!Next]_(Pool!pool)
<1> USE PoolKept
    DEF TypeOK, Phases, HoldsSlot, Step, handlerVars, sharedVars, switchVars, configVars
<1>1. ASSUME NEW w \in Ws, Connect(w) PROVE UNCHANGED Pool!pool BY <1>1 DEF Connect
<1>2. ASSUME NEW w \in Ws, Acquire(w) PROVE [Pool!Next]_(Pool!pool)
  <2>1. CASE slots[ip[w]] >= limit BY <2>1, <1>2 DEF Acquire
  <2>2. CASE ~(slots[ip[w]] >= limit)
    <3>1. pc[w] = "checked" /\ pc' = [pc EXCEPT ![w] = "acquired"] /\ ip' = ip /\ limit' = limit
      BY <1>2, <2>2 DEF Acquire
    <3>2. \A i \in Ip : w \notin Holders(i) BY <3>1 DEF Holders
    <3>3. Cardinality(Holders(ip[w])) < limit
      <4>1. limit \in Int /\ slots[ip[w]] \in Int /\ ip[w] \in Ip BY LimitAssumption
      <4>2. slots[ip[w]] = Cardinality(Holders(ip[w])) BY <4>1 DEF SlotsMatch, Holders
      <4> QED BY <2>2, <4>1, <4>2
    <3>4. [i \in Ip |-> Holders(i)]' = [[i \in Ip |-> Holders(i)] EXCEPT ![ip[w]] = @ \union {w}]
      BY <3>1, PoolMoves
    <3>5. Pool!Take(w, ip[w]) BY <3>1, <3>2, <3>3, <3>4, PoolCounts DEF Pool!Take
    <3> QED BY <3>5 DEF Pool!Next
  <2> QED BY <2>1, <2>2
<1>3. ASSUME NEW w \in Ws, Release(w) PROVE [Pool!Next]_(Pool!pool)
  <2>1. /\ pc[w] \in {"refused", "releasing"} /\ pc' = [pc EXCEPT ![w] = "closed"]
        /\ ip' = ip /\ limit' = limit
    BY <1>3 DEF Release
  <2>2. ip[w] \in Ip /\ w \in Holders(ip[w]) BY <2>1 DEF Holders
  <2>3. [i \in Ip |-> Holders(i)]' = [[i \in Ip |-> Holders(i)] EXCEPT ![ip[w]] = @ \ {w}]
    BY <2>1, PoolMoves
  <2>4. Pool!Give(w, ip[w]) BY <2>1, <2>2, <2>3 DEF Pool!Give
  <2> QED BY <2>2, <2>4 DEF Pool!Next
<1>4. ASSUME NEW w \in Ws, AuthSucceeds(w) \/ AuthFails(w) \/ Precheck(w) PROVE UNCHANGED Pool!pool
  BY <1>4 DEF AuthSucceeds, AuthFails, Precheck
<1>5. ASSUME NEW w \in Ws, Register(w) \/ SessionOpens(w) \/ Unregister(w) PROVE UNCHANGED Pool!pool
  BY <1>5 DEF Register, SessionOpens, Unregister
<1>6. ASSUME NEW w \in Ws, Pumps(w) \/ Cuts(w) PROVE UNCHANGED Pool!pool
  BY <1>6 DEF Pumps, Cuts, Receive, Forward, SessionEnds, PeerLeaves, Revalidate, SessionExpires
<1>7. ASSUME NEW a \in Admin, Enter(a) PROVE UNCHANGED Pool!pool
  BY <1>7 DEF Enter, EnterFlip, EnterSnapshot, EnterClose, EnterAnswers
<1>8. CASE ResetToken \/ ResetProfile \/ SetToken
  BY <1>8 DEF ResetToken, ResetProfile, SetToken
<1>9. CASE EditLimit
  <2>1. ASSUME NEW i \in Ip PROVE Holders(i)' = Holders(i) BY <1>9 DEF EditLimit, Holders
  <2> QED BY <1>9, <2>1 DEF EditLimit, Pool!Next, Pool!Edit
<1>10. CASE UNCHANGED vars BY <1>10 DEF vars
<1> QED BY <1>1, <1>2, <1>3, <1>4, <1>5, <1>6, <1>7, <1>8, <1>9, <1>10 DEF Next, Handler, Config

\* The counters with their acquires, refusals and finally blocks, on the event loop
\* and on threads, implement the pool: no connection is admitted at the limit, and
\* none gives back a slot it does not hold.
THEOREM CounterIsAPool == Spec => Pool!Spec
<1>1. Init => Pool!Init
  <2> SUFFICES ASSUME Init PROVE Pool!Init OBVIOUS
  <2>1. \A i \in Ip : Holders(i) = {} BY DEF Init, Holders, HoldsSlot
  <2> QED BY <2>1 DEF Init, Pool!Init
<1> QED BY <1>1, NextPool, TypeCorrect, SlotsAccounted, PTL DEF Spec, Pool!Spec

\* So no address ever has more handlers in their slots than the largest limit, however
\* the limit is edited while they run.
THEOREM HoldersStayWithin ==
  ASSUME NEW largest \in Nat, \A n \in Limits : n <= largest
  PROVE  Spec => []Pool!WithinLargest(largest)
<1>1. Init => Pool!WithinLargest(largest)
  <2> SUFFICES ASSUME Init, NEW i \in Ip PROVE Cardinality(Holders(i)) <= largest
    BY PoolCounts DEF Pool!WithinLargest
  <2>1. Holders(i) = {} BY DEF Init, Holders, HoldsSlot
  <2> QED BY <2>1, FS_EmptySet
<1>2. /\ TypeOK /\ [Pool!Next]_(Pool!pool) /\ Pool!WithinLargest(largest)
      => Pool!WithinLargest(largest)'
  <2> SUFFICES ASSUME TypeOK, [Pool!Next]_(Pool!pool), Pool!WithinLargest(largest), NEW i \in Ip
               PROVE  Cardinality(Holders(i)') <= largest
    BY PoolCounts DEF Pool!WithinLargest
  <2>0. Cardinality(Holders(i)) <= largest /\ Cardinality(Holders(i)) \in Nat /\ IsFiniteSet(Holders(i))
    BY HoldersFinite, FS_CardinalityType, PoolCounts DEF Pool!WithinLargest
  <2>1. ASSUME NEW w \in Ws, NEW j \in Ip, Pool!Take(w, j) PROVE Cardinality(Holders(i)') <= largest
    <3>1. CASE j = i
      <4>1. Holders(i)' = Holders(i) \union {w} /\ w \notin Holders(i) /\ Cardinality(Holders(i)) < limit
        BY <2>1, <3>1, PoolCounts DEF Pool!Take
      <4>2. Cardinality(Holders(i)') = Cardinality(Holders(i)) + 1 BY <2>0, <4>1, FS_AddElement
      <4>3. limit \in Nat /\ limit <= largest BY LimitAssumption DEF TypeOK
      <4> QED BY <2>0, <4>1, <4>2, <4>3
    <3>2. CASE j # i
      <4>1. Holders(i)' = Holders(i) BY <2>1, <3>2 DEF Pool!Take
      <4> QED BY <2>0, <4>1
    <3> QED BY <3>1, <3>2
  <2>2. ASSUME NEW w \in Ws, NEW j \in Ip, Pool!Give(w, j) PROVE Cardinality(Holders(i)') <= largest
    <3>1. Holders(i)' \subseteq Holders(i) BY <2>2 DEF Pool!Give
    <3>2. Cardinality(Holders(i)') <= Cardinality(Holders(i)) /\ Cardinality(Holders(i)') \in Nat
      BY <2>0, <3>1, FS_Subset, FS_CardinalityType
    <3> QED BY <2>0, <3>2
  <2>3. CASE Holders(i)' = Holders(i) BY <2>0, <2>3
  <2>4. Pool!Edit \/ UNCHANGED Pool!pool => Holders(i)' = Holders(i)
    BY DEF Pool!Edit, Pool!pool
  <2> QED BY <2>1, <2>2, <2>3, <2>4 DEF Pool!Next
<1> QED BY <1>1, <1>2, CounterIsAPool, TypeCorrect, PTL DEF Spec, Pool!Spec
--------------------------------------------------------------------------------
(* The way of a slot back *)

After(at) ==
  CASE at = "acquired"  -> {"refused", "opening"}
    [] at = "refused"   -> {"closed"}
    [] at = "opening"   -> {"live", "ending"}
    [] at = "live"      -> {"ending"}
    [] at = "ending"    -> {"releasing"}
    [] at = "releasing" -> {"closed"}
    [] OTHER            -> {}

\* A handler with a slot only goes on: its own steps lead to its finally and out of
\* it by no other way, a socket that was closed under it stays closed, and the step
\* that leaves takes exactly its slot off the count, so that the floor at zero of
\* _ws_release never hides a slot given back twice.
Returning(w) ==
  /\ pc'[w] \in {pc[w]} \union After(pc[w])
  /\ Handler(w) => pc'[w] # pc[w]
  /\ sock[w] = "closed" => sock'[w] = "closed"
  /\ pc'[w] = "closed" => slots'[ip[w]] = slots[ip[w]] - 1

SlotsGoBack == [][\A w \in Ws : pc[w] \in HoldsSlot => Returning(w)]_vars

\* A handler that holds a slot is counted.
LEMMA HolderCounted ==
  ASSUME TypeOK, SlotsMatch, NEW w \in Ws, pc[w] \in HoldsSlot
  PROVE  slots[ip[w]] > 0
<1> DEFINE H == {v \in Ws : ip[v] = ip[w] /\ pc[v] \in HoldsSlot}
<1>1. H \subseteq Ws /\ w \in H OBVIOUS
<1>2. IsFiniteSet(H) BY <1>1, WsAssumption, FS_Subset
<1>3. Cardinality(H) # 0 BY <1>1, <1>2, FS_EmptySet
<1>4. slots[ip[w]] = Cardinality(H) BY DEF SlotsMatch, TypeOK
<1> QED BY <1>2, <1>3, <1>4, FS_CardinalityType

\* Whatever the peers, the sweeps and the configuration do: what fairness has to add
\* for a slot to come back (SlotReturned) is that the handler's steps are taken.
THEOREM SlotsOnlyGoBack == Spec => SlotsGoBack
<1>1. TypeOK /\ SlotsMatch /\ [Next]_vars
        => [\A w \in Ws : pc[w] \in HoldsSlot => Returning(w)]_vars
  <2> SUFFICES ASSUME TypeOK, SlotsMatch, Next, NEW w \in Ws, pc[w] \in HoldsSlot
               PROVE  Returning(w)
    OBVIOUS
  <2> USE DEF TypeOK, HoldsSlot, Step, Close, handlerVars, sharedVars, switchVars, configVars
  <2>1. Handler(w) => Returning(w)
    <3>1. slots[ip[w]] > 0 BY HolderCounted
    <3>2. Register(w) => /\ pc'[w] \in After(pc[w]) /\ pc'[w] # pc[w] /\ pc'[w] # "closed"
                         /\ sock' = sock
      BY DEF Register, After
    <3>3. Release(w) => /\ pc'[w] \in After(pc[w]) /\ pc'[w] # pc[w] /\ sock'[w] = "closed"
                        /\ slots'[ip[w]] = slots[ip[w]] - 1
      BY <3>1 DEF Release, After
    <3>4. SessionOpens(w) \/ Unregister(w)
            => pc'[w] \in After(pc[w]) /\ pc'[w] # pc[w] /\ pc'[w] # "closed" /\ sock' = sock
      BY DEF SessionOpens, Unregister, After
    <3>5. ~(AuthSucceeds(w) \/ AuthFails(w) \/ Precheck(w) \/ Acquire(w))
      BY DEF AuthSucceeds, AuthFails, Precheck, Acquire
    <3> QED BY <3>2, <3>3, <3>4, <3>5 DEF Handler, Returning
  <2>2. ASSUME ~Handler(w), pc'[w] \in {pc[w]} \union (After(pc[w]) \ {"closed"}),
               sock[w] = "closed" => sock'[w] = "closed"
        PROVE  Returning(w)
    BY <2>2 DEF Returning
  <2>3. ASSUME NEW v \in Ws, v # w, Handler(v)
        PROVE  pc'[w] = pc[w] /\ sock'[w] = sock[w]
    BY <2>3 DEF Handler, AuthSucceeds, AuthFails, Precheck, Acquire, Register, Release,
                SessionOpens, Unregister
  <2>4. ASSUME NEW v \in Ws, Connect(v) PROVE v # w /\ pc'[w] = pc[w] /\ sock'[w] = sock[w]
    BY <2>4 DEF Connect
  <2>5. ASSUME NEW v \in Ws, Pumps(v) \/ Cuts(v)
        PROVE  /\ pc'[w] \in {pc[w]} \union (After(pc[w]) \ {"closed"})
               /\ sock[w] = "closed" => sock'[w] = "closed"
    BY <2>5 DEF Pumps, Cuts, Receive, Forward, SessionEnds, PeerLeaves, Revalidate, SessionExpires, After
  <2>6. ASSUME NEW a \in Admin, Enter(a)
        PROVE  pc' = pc /\ (sock[w] = "closed" => sock'[w] = "closed")
    BY <2>6 DEF Enter, EnterFlip, EnterSnapshot, EnterClose, EnterAnswers
  <2>7. Config => pc' = pc /\ sock' = sock
    BY DEF Config, ResetToken, ResetProfile, SetToken, EditLimit
  <2>8. CASE Handler(w) BY <2>1, <2>8
  <2>9. CASE ~Handler(w)
    BY <2>2, <2>3, <2>4, <2>5, <2>6, <2>7, <2>9 DEF Next
  <2> QED BY <2>8, <2>9
<1> QED BY <1>1, TypeCorrect, SlotsAccounted, PTL DEF Spec, SlotsGoBack
================================================================================
