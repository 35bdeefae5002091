----------------------------- MODULE Auth_proofs -----------------------------
(***************************************************************************)
(* What skiff/auth.py promises.  For any number of requests, tokens and    *)
(* hosts and for every timeout: the types, and that a token's session is   *)
(* never older than the token.  For any number of concurrent attempts from *)
(* an address: the types, the bound on guesses, and, for a handshake       *)
(* shorter than the lockout, the alert of every lockout the operator did   *)
(* not cause by lowering the threshold.                                    *)
(***************************************************************************)
EXTENDS Session, LockoutPromises, FiniteSetTheorems, TLAPS

USE TimeAssumption

LEMMA PastIsNat == AbsTimeout \in Nat /\ IdleSecs \in Nat /\ WindowSecs \in Nat /\ Past \in Nat
BY DEF Past

\* An age grows by at most one, to at most its cap.
LEMMA OlderTyped ==
  ASSUME NEW cap \in Nat, NEW n \in 0..cap
  PROVE Older(n, cap) \in 0..cap /\ n <= Older(n, cap)
BY DEF Older

\* Counting is monotone.
LEMMA OlderMonotone ==
  ASSUME NEW cap \in Nat, NEW n \in 0..cap, NEW k \in 0..cap, n <= k
  PROVE Older(n, cap) <= Older(k, cap)
BY DEF Older
--------------------------------------------------------------------------------
\* Every variable of the token's life keeps its type.
THEOREM TypeCorrect == Spec => []TypeOK
<1> USE PastIsNat DEF TypeOK, Key, cacheVars, requestVars
<1>1. Init => TypeOK
  <2>1. 0 \in 0..Past /\ 0 \in 0..(WindowSecs + 1)
    OBVIOUS
  <2> QED BY <2>1 DEF Init
<1>2. TypeOK /\ [Next]_vars => TypeOK'
  <2> SUFFICES ASSUME TypeOK, [Next]_vars PROVE TypeOK'
    OBVIOUS
  <2>z. 0 \in 0..Past /\ 0 \in 0..(WindowSecs + 1)
    OBVIOUS
  <2>1. ASSUME NEW r \in Req, Arrive(r) PROVE TypeOK'
    <3>1. ASSUME NEW p \in {"call", "reset", "socket"}, Present(r, p, NoToken) PROVE TypeOK'
      BY <3>1 DEF Present, Goto
    <3>2. ASSUME NEW t \in Token, Present(r, "rotate", t) PROVE TypeOK'
      BY <3>2 DEF Present, Goto
    <3>3. ASSUME NEW t \in Token, NEW h \in Host, SetupReady(r, t, h) PROVE TypeOK'
      BY <3>3 DEF SetupReady, Goto
    <3> QED BY <2>1, <3>1, <3>2, <3>3 DEF Arrive
  <2>2. ASSUME NEW r \in Req, Handle(r) PROVE TypeOK'
    <3>1. CASE CheckAge(r)
      <4>1. seen' \subseteq Key /\ first' \in [Key -> 0..Past] /\ last' \in [Key -> 0..Past]
        BY <3>1, <2>z DEF CheckAge, Track
      <4> QED BY <3>1, <4>1 DEF CheckAge
    <3>2. CASE Serve(r) BY <3>2 DEF Serve, Goto
    <3>3. CASE Rotate(r) BY <3>3, <2>z DEF Rotate, Goto, StoreToken
    <3>4. CASE RotateEnds(r) BY <3>4, <2>z DEF RotateEnds, Goto, Invalidated, Unaged
    <3>5. CASE Reset(r) BY <3>5, <2>z DEF Reset, Goto, StoreToken
    <3>6. CASE ResetInvalidates(r) BY <3>6, <2>z DEF ResetInvalidates, Goto, Invalidated, Unaged
    <3>7. CASE ResetReopens(r) BY <3>7, <2>z DEF ResetReopens, Goto
    <3>8. CASE SetupToken(r) BY <3>8, <2>z DEF SetupToken, Goto, StoreToken
    <3>9. CASE SetupHost(r) BY <3>9 DEF SetupHost, Goto
    <3>10. CASE SetupEnds(r) BY <3>10, <2>z DEF SetupEnds, Goto, Invalidated, Unaged
    <3> QED BY <2>2, <3>1, <3>2, <3>3, <3>4, <3>5, <3>6, <3>7, <3>8, <3>9, <3>10 DEF Handle
  <2>3. ASSUME NEW r \in Req, Revalidate(r) PROVE TypeOK'
    <3>1. Aged(r) \in Key
      BY DEF Aged
    <3>2. pc' \in [Req -> {"idle", "compared", "admitted", "ready", "stored", "hosted", "wiped", "open"}]
      BY <2>3 DEF Revalidate, Goto
    <3>3. seen' \subseteq Key /\ first' \in [Key -> 0..Past] /\ last' \in [Key -> 0..Past]
      BY <2>3, <2>z, <3>1 DEF Revalidate, Goto, Track
    <3> QED BY <2>3, <3>2, <3>3 DEF Revalidate
  <2>4. ASSUME NEW r \in Req, Leave(r) PROVE TypeOK' BY <2>4 DEF Leave, Goto
  <2>5. CASE Tick
    <3>1. \A t \in Key : Older(first[t], Past) \in 0..Past /\ Older(last[t], Past) \in 0..Past
      BY OlderTyped
    <3>2. first' \in [Key -> 0..Past] /\ last' \in [Key -> 0..Past]
      BY <2>5, <2>z, <3>1 DEF Tick
    <3>3. window' \in 0..(WindowSecs + 1) /\ held' \in 0..Past
      BY <2>5, OlderTyped DEF Tick
    <3> QED BY <2>5, <3>2, <3>3 DEF Tick
  <2>6. CASE UNCHANGED vars BY <2>6 DEF vars
  <2> QED BY <2>1, <2>2, <2>3, <2>4, <2>5, <2>6 DEF Next
<1> QED BY <1>1, <1>2, PTL DEF Spec
--------------------------------------------------------------------------------
\* Why: whoever changes the token clears the ages afterwards, so unless a change is
\* under way nothing is kept that began before the last one; and a token that is
\* not kept has no age to bring back.
OwnInv ==
  /\ \A t \in Key \ seen : first[t] = 0
  /\ Changing \/ \A t \in seen : first[t] <= held

\* However requests interleave with rotations, resets and setups, the session of
\* the server's token began after it became the server's.
THEOREM SessionStaysOwn == Spec => []SessionIsOwn
<1> USE PastIsNat DEF Key, cacheVars, requestVars
<1>1. Init => OwnInv
  BY DEF Init, OwnInv
<1>2. TypeOK /\ OwnInv /\ [Next]_vars => OwnInv'
  <2> SUFFICES ASSUME TypeOK, OwnInv, [Next]_vars PROVE OwnInv'
    OBVIOUS
  <2>a. ASSUME UNCHANGED <<cacheVars, held>>,
               \A r \in Req : pc[r] \in {"stored", "hosted"} => pc'[r] \in {"stored", "hosted"}
        PROVE OwnInv'
    BY <2>a DEF OwnInv, Changing
  <2>b. ASSUME Invalidated PROVE OwnInv'
    BY <2>b DEF OwnInv, Invalidated, Unaged
  <2>c. ASSUME NEW r \in Req, pc'[r] = "stored", UNCHANGED cacheVars PROVE OwnInv'
    BY <2>c DEF OwnInv, Changing
  <2>d. ASSUME NEW t \in Key, Track(t), UNCHANGED held,
               \A r \in Req : pc[r] \in {"stored", "hosted"} => pc'[r] \in {"stored", "hosted"}
        PROVE OwnInv'
    <3>1. first' = first /\ seen' = seen \union {t} /\ held' = held /\ held \in Nat
      BY <2>d DEF Track, TypeOK
    <3>2. Changing => Changing'
      BY <2>d DEF Changing
    <3>3. 0 <= held
      BY <3>1
    <3>4. \A u \in seen \union {t} : u \in seen \/ first[u] = 0
      BY DEF OwnInv
    <3>5. (\A u \in seen : first[u] <= held) => \A u \in seen \union {t} : first[u] <= held
      BY <3>3, <3>4
    <3> QED BY <3>1, <3>2, <3>5 DEF OwnInv
  <2>1. ASSUME NEW r \in Req, Arrive(r) PROVE OwnInv'
    <3>1. UNCHANGED <<cacheVars, held>>
      BY <2>1 DEF Arrive, Present, SetupReady
    <3>2. \A q \in Req : pc[q] \in {"stored", "hosted"} => pc'[q] \in {"stored", "hosted"}
      BY <2>1 DEF Arrive, Present, SetupReady, Goto, TypeOK
    <3> QED BY <2>a, <3>1, <3>2
  <2>2. ASSUME NEW r \in Req, Handle(r) PROVE OwnInv'
    <3>1. CASE CheckAge(r)
      <4>1. \A q \in Req : pc[q] \in {"stored", "hosted"} => pc'[q] \in {"stored", "hosted"}
        BY <3>1 DEF CheckAge, TypeOK
      <4>2. shown[r] \in Key
        BY DEF TypeOK
      <4>3. UNCHANGED held
        BY <3>1 DEF CheckAge
      <4>4. Track(shown[r]) \/ UNCHANGED cacheVars
        BY <3>1 DEF CheckAge
      <4> QED BY <2>a, <2>d, <4>1, <4>2, <4>3, <4>4
    <3>2. CASE Serve(r) BY <3>2, <2>a DEF Serve, Goto, TypeOK
    <3>3. CASE Rotate(r)
      <4>1. CASE Goto(r, "admitted", "stored")
        BY <4>1, <3>3, <2>c DEF Rotate, Goto, TypeOK
      <4>2. CASE UNCHANGED <<token, held>> /\ Goto(r, "admitted", "idle")
        BY <4>2, <3>3, <2>a DEF Rotate, Goto, TypeOK
      <4> QED BY <3>3, <4>1, <4>2 DEF Rotate
    <3>4. CASE RotateEnds(r) BY <3>4, <2>b DEF RotateEnds
    <3>5. CASE Reset(r) BY <3>5, <2>c DEF Reset, Goto, TypeOK
    <3>6. CASE ResetInvalidates(r) BY <3>6, <2>b DEF ResetInvalidates
    <3>7. CASE ResetReopens(r) BY <3>7, <2>a DEF ResetReopens, Goto, TypeOK
    <3>8. CASE SetupToken(r) BY <3>8, <2>c DEF SetupToken, Goto, TypeOK
    <3>9. CASE SetupHost(r) BY <3>9, <2>a DEF SetupHost, Goto, TypeOK
    <3>10. CASE SetupEnds(r) BY <3>10, <2>b DEF SetupEnds
    <3> QED BY <2>2, <3>1, <3>2, <3>3, <3>4, <3>5, <3>6, <3>7, <3>8, <3>9, <3>10 DEF Handle
  <2>3. ASSUME NEW r \in Req, Revalidate(r) PROVE OwnInv'
    <3>1. \A q \in Req : pc[q] \in {"stored", "hosted"} => pc'[q] \in {"stored", "hosted"}
      BY <2>3 DEF Revalidate, Goto, TypeOK
    <3>2. Aged(r) \in Key
      BY DEF Aged, TypeOK
    <3>3. UNCHANGED held /\ (Track(Aged(r)) \/ UNCHANGED cacheVars)
      BY <2>3 DEF Revalidate
    <3> QED BY <2>a, <2>d, <3>1, <3>2, <3>3
  <2>4. ASSUME NEW r \in Req, Leave(r) PROVE OwnInv' BY <2>4, <2>a DEF Leave, Goto, TypeOK
  <2>5. CASE Tick
    <3>1. Changing' <=> Changing
      BY <2>5 DEF Tick, Changing
    <3>2. \A t \in Key \ seen' : first'[t] = 0
      BY <2>5 DEF Tick, OwnInv, TypeOK
    <3>3. ASSUME NEW t \in seen', \A u \in seen : first[u] <= held PROVE first'[t] <= held'
      <4>1. t \in seen /\ t \in Key /\ first'[t] = Older(first[t], Past) /\ held' = Older(held, Past)
        BY <2>5 DEF Tick, TypeOK
      <4>2. first[t] \in 0..Past /\ held \in 0..Past /\ first[t] <= held
        BY <4>1, <3>3 DEF TypeOK
      <4> QED BY <4>1, <4>2, OlderMonotone
    <3> QED BY <3>1, <3>2, <3>3 DEF OwnInv
  <2>6. CASE UNCHANGED vars BY <2>6, <2>a DEF vars
  <2> QED BY <2>1, <2>2, <2>3, <2>4, <2>5, <2>6 DEF Next
<1>3. OwnInv => SessionIsOwn
  BY DEF OwnInv, SessionIsOwn
<1> QED BY <1>1, <1>2, <1>3, TypeCorrect, PTL DEF Spec
--------------------------------------------------------------------------------
\* The token is locked out: its session has expired, and no request is past its
\* verification or was verified against an earlier token.
LockedOut ==
  /\ token # NoToken /\ Expired(token)
  /\ \A r \in Req : pc[r] \in {"idle", "compared", "open"}
  /\ \A r \in Req : pc[r] = "compared" => shown[r] = token

\* What the run SessionRecovers finds in one behaviour is so in every one: from then
\* on no request is admitted, for no sequence of requests, sockets and waits, so
\* that nothing but a restart of the server takes the token back into use.
THEOREM LockedOutStays == Spec => [][LockedOut => LockedOut']_vars
<1>1. TypeOK /\ [Next]_vars => [LockedOut => LockedOut']_vars
  <2> SUFFICES ASSUME TypeOK, Next, LockedOut PROVE LockedOut'
    OBVIOUS
  <2> USE PastIsNat DEF LockedOut, Expired, Key, cacheVars, requestVars, Goto
  <2>0. token \in Token BY DEF TypeOK
  <2>1. ASSUME NEW r \in Req, Arrive(r) PROVE LockedOut'
    <3>1. ASSUME NEW p, NEW t, Present(r, p, t) PROVE LockedOut'
      BY <3>1 DEF Present, TypeOK
    <3>2. ~ \E t \in Token, h \in Host : SetupReady(r, t, h) BY DEF SetupReady
    <3> QED BY <2>1, <3>1, <3>2 DEF Arrive
  <2>2. ASSUME NEW r \in Req, Handle(r) PROVE LockedOut'
    <3>1. CheckAge(r)
      BY <2>2 DEF Handle, Serve, Rotate, RotateEnds, Reset, ResetInvalidates, ResetReopens,
                  SetupToken, SetupHost, SetupEnds
    <3>2. shown[r] = token BY <3>1 DEF CheckAge
    <3>3. pc' = [pc EXCEPT ![r] = "idle"] /\ UNCHANGED <<token, seen, first, last, shown>>
      BY <3>1, <3>2 DEF CheckAge, Track
    <3> QED BY <3>3 DEF TypeOK
  <2>3. ASSUME NEW r \in Req, Revalidate(r) PROVE LockedOut'
    <3>1. (token # NoToken /\ Aged(r) # token) \/ Expired(Aged(r)) OBVIOUS
    <3>2. pc' = [pc EXCEPT ![r] = "idle"] /\ UNCHANGED <<token, seen, first, last, shown>>
      BY <2>3, <3>1 DEF Revalidate
    <3> QED BY <3>2 DEF TypeOK
  <2>4. ASSUME NEW r \in Req, Leave(r) PROVE LockedOut'
    BY <2>4 DEF Leave, TypeOK
  <2>5. CASE Tick
    <3>1. first[token] \in 0..Past /\ last[token] \in 0..Past BY <2>0 DEF TypeOK
    <3>2. first'[token] = Older(first[token], Past) /\ last'[token] = Older(last[token], Past)
      BY <2>0, <2>5 DEF Tick
    <3>3. first[token] <= first'[token] /\ last[token] <= last'[token]
          /\ first'[token] \in 0..Past /\ last'[token] \in 0..Past
      BY <3>1, <3>2, OlderTyped
    <3>4. UNCHANGED <<token, seen, pc, shown>> BY <2>5 DEF Tick
    <3> QED BY <3>1, <3>3, <3>4
  <2> QED BY <2>1, <2>2, <2>3, <2>4, <2>5 DEF Next
<1> QED BY <1>1, TypeCorrect, PTL DEF Spec
--------------------------------------------------------------------------------
(* The counter of failed attempts *)

CONSTANTS Maxes, TokenTimeout

VARIABLE elapsed

L == INSTANCE Lockout

\* The state of the counter keeps its types.
THEOREM LockoutTypeCorrect ==
  ASSUME L!LargestAssumption, L!TimeAssumption
  PROVE  L!Spec => []L!TypeOK
<1> USE L!LargestAssumption, L!TimeAssumption DEF L!LargestAssumption, L!TimeAssumption, L!TypeOK, L!entryVars
<1>1. L!Init => L!TypeOK
  <2>1. 0 \in Nat /\ 0 \in 0..LockoutSecs /\ 0 \in 0..TokenTimeout
    OBVIOUS
  <2> QED BY <2>1 DEF L!Init
<1>2. L!TypeOK /\ [L!Next]_(L!vars) => L!TypeOK'
  <2> SUFFICES ASSUME L!TypeOK, [L!Next]_(L!vars) PROVE L!TypeOK'
    OBVIOUS
  <2>1. ASSUME NEW a \in Attempt, L!Admit(a) PROVE L!TypeOK' BY <2>1 DEF L!Admit
  <2>2. ASSUME NEW a \in Attempt, L!Fail(a) PROVE L!TypeOK' BY <2>2 DEF L!Fail
  <2>3. ASSUME NEW a \in Attempt, L!Succeed(a) PROVE L!TypeOK' BY <2>3 DEF L!Succeed
  <2>4. ASSUME NEW a \in Attempt, L!EndUnrecorded(a) PROVE L!TypeOK' BY <2>4 DEF L!EndUnrecorded
  <2>5. CASE L!Forget BY <2>5 DEF L!Forget
  <2>6. CASE L!EditMax BY <2>6 DEF L!EditMax
  <2>7. CASE L!Tick
    <3>1. elapsed' \in [Attempt -> 0..TokenTimeout]
      BY <2>7 DEF L!Tick
    <3>2. age' \in 0..LockoutSecs
      BY <2>7 DEF L!Tick, L!Fresh
    <3> QED BY <2>7, <3>1, <3>2 DEF L!Tick
  <2>8. CASE UNCHANGED L!vars BY <2>8 DEF L!vars
  <2> QED BY <2>1, <2>2, <2>3, <2>4, <2>5, <2>6, <2>7, <2>8 DEF L!Next
<1> QED BY <1>1, <1>2, PTL DEF L!Spec
--------------------------------------------------------------------------------
\* Admitting and ending an attempt count by one.
LEMMA PendingCounts ==
  ASSUME L!TypeOK, NEW a \in Attempt
  PROVE  /\ Cardinality(pending) \in Nat
         /\ Cardinality(Attempt) \in Nat
         /\ Cardinality(pending \union {a}) <= Cardinality(Attempt)
         /\ Cardinality(pending \union {a}) \in Nat
         /\ a \in pending => Cardinality(pending \ {a}) = Cardinality(pending) - 1
<1>1. IsFiniteSet(pending) /\ pending \union {a} \subseteq Attempt
  BY AttemptAssumption, FS_Subset DEF L!TypeOK
<1> QED BY <1>1, AttemptAssumption, FS_Subset, FS_RemoveElement, FS_CardinalityType

\* However attempts interleave, the failures on record and the attempts that may
\* still fail exceed the threshold by less than the attempts there can be at once.
THEOREM GuessesStayBounded ==
  ASSUME L!LargestAssumption, L!TimeAssumption
  PROVE  L!Spec => []GuessesBounded
<1> USE L!LargestAssumption DEF L!LargestAssumption, L!entryVars
<1>1. L!Init => GuessesBounded
  BY FS_EmptySet, FS_CardinalityType, AttemptAssumption DEF L!Init, GuessesBounded
<1>2. L!TypeOK /\ GuessesBounded /\ [L!Next]_(L!vars) => GuessesBounded'
  <2> SUFFICES ASSUME L!TypeOK, GuessesBounded, [L!Next]_(L!vars) PROVE GuessesBounded'
    OBVIOUS
  <2> USE DEF GuessesBounded
  <2>1. ASSUME NEW a \in Attempt, L!Admit(a) PROVE GuessesBounded'
    <3>1. count' \in Nat /\ count' <= Largest - 1
      BY <2>1 DEF L!Admit, L!Locked, L!TypeOK
    <3> QED BY <2>1, <3>1, PendingCounts DEF L!Admit
  <2>2. ASSUME NEW a \in Attempt, L!Fail(a) PROVE GuessesBounded'
    BY <2>2, PendingCounts DEF L!Fail, L!TypeOK
  <2>3. ASSUME NEW a \in Attempt, L!Succeed(a) PROVE GuessesBounded'
    BY <2>3, PendingCounts DEF L!Succeed, L!TypeOK
  <2>4. ASSUME NEW a \in Attempt, L!EndUnrecorded(a) PROVE GuessesBounded'
    BY <2>4, PendingCounts DEF L!EndUnrecorded, L!TypeOK
  <2>5. CASE L!Forget
    <3>1. Cardinality(pending) \in Nat /\ Cardinality(Attempt) \in Nat
      BY AttemptAssumption, FS_Subset, FS_CardinalityType DEF L!TypeOK
    <3> QED BY <2>5, <3>1 DEF L!Forget, L!TypeOK
  <2>6. CASE L!EditMax BY <2>6 DEF L!EditMax
  <2>7. CASE L!Tick BY <2>7 DEF L!Tick
  <2>8. CASE UNCHANGED L!vars BY <2>8 DEF L!vars
  <2> QED BY <2>1, <2>2, <2>3, <2>4, <2>5, <2>6, <2>7, <2>8 DEF L!Next
<1> QED BY <1>1, <1>2, LockoutTypeCorrect, PTL DEF L!Spec
--------------------------------------------------------------------------------
\* Why an attempt cannot lock the address again unnoticed: it was admitted before
\* the failure that locked it, so it gives up while that lockout lasts.
AlertInv ==
  /\ LockoutAlerted
  /\ count >= max /\ ~lowered => \A a \in pending : age <= elapsed[a]

\* With handshakes shorter than the lockout, every lockout in force was reported,
\* unless the threshold was lowered under the failures on record.
THEOREM EveryLockoutAlerted ==
  ASSUME L!LargestAssumption, L!TimeAssumption, TokenTimeout < LockoutSecs
  PROVE  L!Spec => []LockoutAlerted
<1> USE L!LargestAssumption, L!TimeAssumption DEF L!LargestAssumption, L!TimeAssumption, L!entryVars
<1>1. L!Init => AlertInv
  BY DEF L!Init, AlertInv, LockoutAlerted, Locked, L!Locked
<1>2. L!TypeOK /\ AlertInv /\ [L!Next]_(L!vars) => AlertInv'
  <2> SUFFICES ASSUME L!TypeOK, AlertInv, [L!Next]_(L!vars), ~lowered' PROVE AlertInv'
    BY DEF AlertInv, LockoutAlerted
  <2> USE DEF AlertInv, LockoutAlerted, Locked, L!Locked, Fresh, L!Fresh, L!TypeOK
  <2>0. max \in Nat \ {0}
    OBVIOUS
  <2>1. ASSUME NEW a \in Attempt, L!Admit(a) PROVE AlertInv'
    <3>1. count' \in Nat /\ count' < max' /\ max' \in Nat
      BY <2>0, <2>1 DEF L!Admit
    <3>2. ~(count' >= max')
      BY <3>1
    <3> QED BY <3>2
  <2>2. ASSUME NEW a \in Attempt, L!Fail(a) PROVE AlertInv'
    <3>1. count >= max => alerted
      BY <2>2 DEF L!Fail
    <3>2. count < max \/ count >= max
      BY <2>0
    <3>3. count' >= max' => alerted'
      BY <2>2, <3>1, <3>2 DEF L!Fail
    <3>4. \A b \in pending' : age' <= elapsed'[b]
      BY <2>2 DEF L!Fail
    <3> QED BY <3>3, <3>4
  <2>3. ASSUME NEW a \in Attempt, L!Succeed(a) PROVE AlertInv'
    BY <2>0, <2>3 DEF L!Succeed
  <2>4. ASSUME NEW a \in Attempt, L!EndUnrecorded(a) PROVE AlertInv'
    BY <2>4 DEF L!EndUnrecorded
  <2>5. CASE L!Forget BY <2>0, <2>5 DEF L!Forget
  <2>6. CASE L!EditMax
    <3>1. lowered' = (lowered \/ (count > 0 /\ max' < max))
      BY <2>6 DEF L!EditMax
    <3>2. ~lowered /\ ~(count > 0 /\ max' < max)
      BY ONLY <3>1, ~lowered', Zenon
    <3>3. max' \in Nat \ {0} /\ count \in Nat /\ max \in Nat
      BY <2>0, <2>6 DEF L!EditMax
    <3>4. count' = count /\ (count >= max' => count >= max)
      BY <2>6, <3>2, <3>3 DEF L!EditMax
    <3> QED BY <2>6, <3>2, <3>4 DEF L!EditMax
  <2>7. CASE L!Tick
    <3>1. count >= max => \A a \in pending : age' <= elapsed'[a]
      BY <2>7 DEF L!Tick
    <3> QED BY <2>7, <3>1 DEF L!Tick
  <2>8. CASE UNCHANGED L!vars BY <2>8 DEF L!vars
  <2> QED BY <2>1, <2>2, <2>3, <2>4, <2>5, <2>6, <2>7, <2>8 DEF L!Next
<1>3. AlertInv => LockoutAlerted
  BY DEF AlertInv
<1> QED BY <1>1, <1>2, <1>3, LockoutTypeCorrect, PTL DEF L!Spec
================================================================================
