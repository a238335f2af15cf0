------------------------- MODULE RateLimiterProofs -------------------------
(* What the safety properties of RateLimiter and of TimedRateLimiter rest  *)
(* on, for every number of sessions, actors and faults, every limit and    *)
(* every length of the window.                                             *)
EXTENDS TimedRateLimiter, TLAPS

IInv == KeyInv /\ WindowQuota /\ NoOrphanKey

(***************************************************************************)
(* The state types survive every step; Decide's two updates are typed      *)
(* because the caller and the actor are.                                   *)
(***************************************************************************)
LEMMA TypeStep == TypeOK /\ [Next]_vars => TypeOK'
<1> SUFFICES ASSUME TypeOK, [Next]_vars PROVE TypeOK'
  OBVIOUS
<1> USE MaxFaultsAssumption DEF TypeOK, Idle
<1>1. ASSUME NEW c \in Callers, NEW a \in Actors, Incr(c, a) PROVE TypeOK'
  BY <1>1 DEF Incr, Decide
<1>2. ASSUME NEW c \in Callers, NEW a \in Actors, IncrReplyLost(c, a) PROVE TypeOK'
  BY <1>2 DEF IncrReplyLost, Fault
<1>3. ASSUME NEW c \in Callers, NEW a \in Actors, IncrFails(c, a) PROVE TypeOK'
  BY <1>3 DEF IncrFails, Fault
<1>4. ASSUME NEW c \in Callers, Expire(c) PROVE TypeOK'
  BY <1>4 DEF Expire, Decide
<1>5. ASSUME NEW c \in Callers, ExpireFails(c) PROVE TypeOK'
  BY <1>5 DEF ExpireFails, Fault
<1>6. ASSUME NEW c \in Callers, Return(c) PROVE TypeOK'
  BY <1>6 DEF Return
<1>7. ASSUME NEW a \in Actors, KeyExpires(a) PROVE TypeOK'
  BY <1>7 DEF KeyExpires
<1>8. CASE Crash
  BY <1>8 DEF Crash, Fault
<1>9. CASE UNCHANGED vars
  BY <1>9 DEF vars
<1> QED
  BY <1>1, <1>2, <1>3, <1>4, <1>5, <1>6, <1>7, <1>8, <1>9 DEF Next

(***************************************************************************)
(* Initially there is no key, no caller inside Allow and no fault.         *)
(***************************************************************************)
LEMMA InitIInv == Init => IInv
  BY RateLimitMaxAssumption, MaxFaultsAssumption
  DEF Init, IInv, KeyInv, TypeOK, Idle, PendingOwnsKey, Pending, GrantsCounted,
      TtlOnKeys, WindowQuota, NoOrphanKey

(***************************************************************************)
(* An INCR either creates the key, and its caller alone is then between    *)
(* INCR and EXPIRE, or finds the key and grants only if the new count,     *)
(* which exceeds the number of grants so far, is within the limit.         *)
(***************************************************************************)
LEMMA IncrStep ==
  ASSUME IInv, NEW c \in Callers, NEW a \in Actors, Incr(c, a)
  PROVE  IInv'
<1> USE DEF TypeOK, Idle
<1>0. TypeOK'
  BY TypeStep DEF IInv, KeyInv, Next
<1>1. count' = [count EXCEPT ![a] = @ + 1] /\ ttl' = ttl /\ faults' = faults
      /\ actor' = [actor EXCEPT ![c] = a] /\ pc[c] = "idle"
  BY DEF Incr
<1>2. CASE count[a] = 0
  <2>1. pc' = [pc EXCEPT ![c] = "expire"] /\ granted' = granted
    BY <1>2 DEF Incr
  <2>2. PendingOwnsKey'
    BY <1>0, <1>1, <1>2, <2>1, RateLimitMaxAssumption
    DEF IInv, KeyInv, PendingOwnsKey, Pending, GrantsCounted, TtlOnKeys
  <2>3. GrantsCounted' /\ TtlOnKeys' /\ WindowQuota'
    BY <1>1, <2>1 DEF IInv, KeyInv, GrantsCounted, TtlOnKeys, WindowQuota
  <2>4. NoOrphanKey'
    BY <1>1, <2>1 DEF IInv, KeyInv, NoOrphanKey, Pending
  <2> QED
    BY <1>0, <2>2, <2>3, <2>4 DEF IInv, KeyInv
<1>3. CASE count[a] # 0
  <2>1. /\ pc' = [pc EXCEPT ![c] = IF Within(count[a] + 1) THEN "allowed" ELSE "denied"]
        /\ granted' = [granted EXCEPT ![a] = IF Within(count[a] + 1) THEN @ + 1 ELSE @]
    BY <1>3 DEF Incr, Decide
  <2>2. \A b \in Actors, d \in Callers : Pending(d, b)' => Pending(d, b)
    BY <1>1, <2>1 DEF IInv, KeyInv, Pending
  <2>3. GrantsCounted'
    BY <1>1, <2>1 DEF IInv, KeyInv, GrantsCounted
  <2>4. WindowQuota'
    BY <1>1, <2>1, RateLimitMaxAssumption DEF IInv, KeyInv, GrantsCounted, WindowQuota, Within
  <2>5. PendingOwnsKey'
    <3> SUFFICES ASSUME NEW d \in Callers, NEW b \in Actors, Pending(d, b)'
                 PROVE  /\ count'[b] > 0 /\ ~ttl'[b]
                        /\ granted'[b] < count'[b] /\ granted'[b] < RateLimitMax
                        /\ \A e \in Callers : Pending(e, b)' => e = d
      BY DEF PendingOwnsKey
    <3>1. /\ count[b] > 0 /\ ~ttl[b]
          /\ granted[b] < count[b] /\ granted[b] < RateLimitMax
          /\ \A e \in Callers : Pending(e, b) => e = d
      BY <2>2 DEF IInv, KeyInv, PendingOwnsKey
    <3>2. count'[b] > 0 /\ ~ttl'[b] /\ granted'[b] < count'[b]
      BY <1>1, <2>1, <3>1 DEF IInv, KeyInv
    <3>3. granted'[b] < RateLimitMax
      BY <1>1, <2>1, <3>1, RateLimitMaxAssumption DEF IInv, KeyInv, Within
    <3> QED
      BY <2>2, <3>1, <3>2, <3>3
  <2>6. TtlOnKeys'
    BY <1>1 DEF IInv, KeyInv, TtlOnKeys
  <2>7. NoOrphanKey'
    BY <1>1, <1>3, <2>1 DEF IInv, KeyInv, NoOrphanKey, Pending
  <2> QED
    BY <1>0, <2>3, <2>4, <2>5, <2>6, <2>7 DEF IInv, KeyInv
<1> QED
  BY <1>2, <1>3

(***************************************************************************)
(* The pending caller's EXPIRE: the grant it records was already counted.  *)
(***************************************************************************)
LEMMA ExpireStep ==
  ASSUME IInv, NEW c \in Callers, Expire(c)
  PROVE  IInv'
<1> USE DEF TypeOK, Idle
<1>0. TypeOK'
  BY TypeStep DEF IInv, KeyInv, Next
<1> DEFINE a == actor[c]
<1>1. a \in Actors /\ Pending(c, a)
  BY DEF IInv, KeyInv, Expire, Pending
<1>2. Within(1)
  BY RateLimitMaxAssumption DEF Within
<1>3. /\ pc' = [pc EXCEPT ![c] = "allowed"]
      /\ granted' = [granted EXCEPT ![a] = @ + 1]
      /\ ttl' = [ttl EXCEPT ![a] = TRUE]
      /\ count' = count /\ actor' = actor /\ faults' = faults
  BY <1>2 DEF Expire, Decide
<1>4. \A b \in Actors, d \in Callers : Pending(d, b)' => Pending(d, b) /\ b # a
  BY <1>1, <1>3 DEF IInv, KeyInv, Pending, PendingOwnsKey
<1>5. count[a] > 0 /\ granted[a] < count[a] /\ granted[a] < RateLimitMax
  BY <1>1 DEF IInv, KeyInv, PendingOwnsKey
<1>6. PendingOwnsKey'
  BY <1>3, <1>4 DEF IInv, KeyInv, PendingOwnsKey
<1>7. GrantsCounted' /\ WindowQuota' /\ TtlOnKeys'
  BY <1>1, <1>3, <1>5, RateLimitMaxAssumption
  DEF IInv, KeyInv, GrantsCounted, WindowQuota, TtlOnKeys
<1>8. NoOrphanKey'
  BY <1>1, <1>3 DEF IInv, KeyInv, NoOrphanKey, Pending
<1> QED
  BY <1>0, <1>6, <1>7, <1>8 DEF IInv, KeyInv

(***************************************************************************)
(* Every step preserves the strengthened invariant.                        *)
(***************************************************************************)
LEMMA NextIInv == IInv /\ [Next]_vars => IInv'
<1> SUFFICES ASSUME IInv, [Next]_vars PROVE IInv'
  OBVIOUS
<1>0. TypeOK'
  BY TypeStep DEF IInv, KeyInv
<1> USE MaxFaultsAssumption DEF IInv, KeyInv, TypeOK, Idle
<1>1. ASSUME NEW c \in Callers, NEW a \in Actors, Incr(c, a) PROVE IInv'
  BY <1>1, IncrStep
<1>2. ASSUME NEW c \in Callers, NEW a \in Actors, IncrReplyLost(c, a) PROVE IInv'
  <2>1. faults' # 0
    BY <1>2 DEF IncrReplyLost, Fault
  <2> QED
    BY <1>0, <1>2, <2>1
    DEF IncrReplyLost, PendingOwnsKey, Pending, GrantsCounted, TtlOnKeys, WindowQuota, NoOrphanKey
<1>3. ASSUME NEW c \in Callers, NEW a \in Actors, IncrFails(c, a) PROVE IInv'
  <2>1. faults' # 0
    BY <1>3 DEF IncrFails, Fault
  <2> QED
    BY <1>0, <1>3, <2>1
    DEF IncrFails, PendingOwnsKey, Pending, GrantsCounted, TtlOnKeys, WindowQuota, NoOrphanKey
<1>4. ASSUME NEW c \in Callers, Expire(c) PROVE IInv'
  BY <1>4, ExpireStep
<1>5. ASSUME NEW c \in Callers, ExpireFails(c) PROVE IInv'
  <2>1. faults' # 0
    BY <1>5 DEF ExpireFails, Fault
  <2>2. /\ pc' = [pc EXCEPT ![c] = "error"]
        /\ count' = count /\ actor' = actor /\ granted' = granted
    BY <1>5 DEF ExpireFails
  <2>3. \A b \in Actors, d \in Callers : Pending(d, b)' => Pending(d, b) /\ b # actor[c]
    BY <1>5, <2>2 DEF ExpireFails, Pending, PendingOwnsKey
  <2>4. \A b \in Actors : b # actor[c] => ttl'[b] = ttl[b]
    BY <1>5 DEF ExpireFails
  <2>5. PendingOwnsKey'
    BY <2>2, <2>3, <2>4 DEF PendingOwnsKey
  <2>6. TtlOnKeys'
    <3>1. count[actor[c]] > 0
      BY <1>5 DEF ExpireFails, PendingOwnsKey, Pending
    <3> QED
      BY <2>2, <2>4, <3>1 DEF TtlOnKeys
  <2> QED
    BY <1>0, <2>1, <2>2, <2>5, <2>6 DEF GrantsCounted, WindowQuota, NoOrphanKey
<1>6. ASSUME NEW c \in Callers, Return(c) PROVE IInv'
  BY <1>0, <1>6
  DEF Return, PendingOwnsKey, Pending, GrantsCounted, TtlOnKeys, WindowQuota, NoOrphanKey
<1>7. ASSUME NEW a \in Actors, KeyExpires(a) PROVE IInv'
  BY <1>0, <1>7, RateLimitMaxAssumption
  DEF KeyExpires, PendingOwnsKey, Pending, GrantsCounted, TtlOnKeys, WindowQuota, NoOrphanKey
<1>8. CASE Crash
  <2>1. faults' # 0
    BY <1>8 DEF Crash, Fault
  <2> QED
    BY <1>0, <1>8, <2>1
    DEF Crash, PendingOwnsKey, Pending, GrantsCounted, TtlOnKeys, WindowQuota, NoOrphanKey
<1>9. CASE UNCHANGED vars
  BY <1>9
  DEF vars, PendingOwnsKey, Pending, GrantsCounted, TtlOnKeys, WindowQuota, NoOrphanKey
<1> QED
  BY <1>1, <1>2, <1>3, <1>4, <1>5, <1>6, <1>7, <1>8, <1>9 DEF Next

(***************************************************************************)
(* Type correctness of the rate limiter.                                   *)
(***************************************************************************)
THEOREM TypeCorrect == Spec => []TypeOK
<1>1. IInv => TypeOK
  BY DEF IInv, KeyInv
<1> QED
  BY <1>1, InitIInv, NextIInv, PTL DEF Spec

(***************************************************************************)
(* Allow never grants more than rateLimitMax calls between two expiries of *)
(* an actor's key: for any number of concurrent sessions and any number of *)
(* lost replies, failed EXPIREs and restarts.                              *)
(***************************************************************************)
THEOREM QuotaHolds == Spec => []WindowQuota
<1>1. IInv => WindowQuota
  BY DEF IInv
<1> QED
  BY <1>1, InitIInv, NextIInv, PTL DEF Spec

(***************************************************************************)
(* As long as nothing fails, Allow leaves no key that cannot expire.       *)
(***************************************************************************)
THEOREM KeysExpire == Spec => []NoOrphanKey
<1>1. IInv => NoOrphanKey
  BY DEF IInv
<1> QED
  BY <1>1, InitIInv, NextIInv, PTL DEF Spec

(***************************************************************************)
(* The caller between INCR and EXPIRE owns its key.                        *)
(***************************************************************************)
THEOREM KeyOwned == Spec => []KeyInv
<1>1. IInv => KeyInv
  BY DEF IInv
<1> QED
  BY <1>1, InitIInv, NextIInv, PTL DEF Spec

-----------------------------------------------------------------------------
(***************************************************************************)
(* The clock.  A step of the clocked module is one of RateLimiter, and a   *)
(* tick none: the clock only restricts when Redis drops a key.             *)
(***************************************************************************)
LEMMA TimedStep == [TimedNext]_timedVars => [Next]_vars
<1> SUFFICES ASSUME [TimedNext]_timedVars PROVE [Next]_vars
  OBVIOUS
<1>1. ASSUME NEW c \in Callers, NEW a \in Actors, TimedIncr(c, a) PROVE Next
  BY <1>1 DEF TimedIncr, Next
<1>2. ASSUME NEW c \in Callers, TimedExpire(c) PROVE Next
  BY <1>2 DEF TimedExpire, Next
<1>3. CASE Crash \/ \E c \in Callers : Return(c)
  BY <1>3 DEF Next
<1>4. ASSUME NEW a \in Actors, TimedKeyExpires(a) PROVE Next
  BY <1>4 DEF TimedKeyExpires, Next
<1>5. CASE Tick
  BY <1>5 DEF Tick
<1>6. CASE UNCHANGED timedVars
  BY <1>6 DEF timedVars
<1> QED
  BY <1>1, <1>2, <1>3, <1>4, <1>5, <1>6 DEF TimedNext

(***************************************************************************)
(* The limiter with a clock implements the one without, for every length   *)
(* of the window.                                                          *)
(***************************************************************************)
THEOREM ClockRefines == TimedSpec => Spec
<1>1. TimedInit => Init
  BY DEF TimedInit
<1> QED
  BY <1>1, TimedStep, PTL DEF TimedSpec, Spec

(***************************************************************************)
(* So the quota of a life of the key holds with a clock, too, and so does  *)
(* what keeps a key from staying for ever.                                 *)
(***************************************************************************)
THEOREM TimedQuota == TimedSpec => [](KeyInv /\ WindowQuota /\ NoOrphanKey)
BY ClockRefines, KeyOwned, QuotaHolds, KeysExpire, PTL

(***************************************************************************)
(* Why two limits are enough for any window of time.  The grants of the    *)
(* window are those of the key that lives, and at most a limit of earlier  *)
(* ones; and since EXPIRE there have been none but the key's own, so that  *)
(* a key which has lived its time leaves a window with its own grants.     *)
(***************************************************************************)
ClockTyped ==
  /\ remaining \in [Actors -> 0..Window]
  /\ recent \in [Actors -> [1..Window -> Nat]]

Totals ==
  \A a \in Actors : \A i, j \in 1..Window : i <= j => recent[a][i] <= recent[a][j]

OneLimitBefore == \A a \in Actors : recent[a][Window] <= RateLimitMax + granted[a]

OwnSinceExpire ==
  \A a \in Actors : ttl[a] =>
    \A i \in 1..Window : i <= Window - remaining[a] => recent[a][i] <= granted[a]

TimedInv == ClockTyped /\ Totals /\ OneLimitBefore /\ OwnSinceExpire

LEMMA InitTimed == TimedInit => TimedInv
  BY WindowAssumption, RateLimitMaxAssumption
  DEF TimedInit, Init, TimedInv, ClockTyped, Totals, OneLimitBefore, OwnSinceExpire

(***************************************************************************)
(* What a step other than a tick or an expiry does to an actor: nothing is *)
(* granted, or one call is, now and to the key; and the key keeps its time *)
(* to live, or is given the whole window.                                  *)
(***************************************************************************)
Grants(a) ==
  \E n \in 0..1 :
    /\ granted'[a] = granted[a] + n
    /\ \A i \in 1..Window : recent'[a][i] = recent[a][i] + n

Keeps(a) == ttl'[a] => (ttl[a] /\ remaining'[a] = remaining[a]) \/ remaining'[a] = Window

LEMMA StepGrants ==
  ASSUME TypeOK, ClockTyped, RecordGrants,
         NEW b \in Actors, granted' = granted \/ granted' = [granted EXCEPT ![b] = @ + 1]
  PROVE  recent' \in [Actors -> [1..Window -> Nat]] /\ \A a \in Actors : Grants(a)
<1>0. Window \in Nat
  BY WindowAssumption
<1>1. \A a \in Actors : /\ granted[a] \in Nat
                        /\ granted'[a] = granted[a] \/ granted'[a] = granted[a] + 1
  BY DEF TypeOK
<1>2. \A a \in Actors : recent[a] \in [1..Window -> Nat]
  BY DEF ClockTyped
<1>3. ASSUME NEW a \in Actors PROVE recent'[a] \in [1..Window -> Nat] /\ Grants(a)
  <2>1. CASE granted'[a] = granted[a]
    <3>1. recent'[a] = recent[a]
      BY <1>1, <2>1 DEF RecordGrants
    <3>2. granted'[a] = granted[a] + 0 /\ \A i \in 1..Window : recent'[a][i] = recent[a][i] + 0
      BY <1>0, <1>1, <1>2, <2>1, <3>1
    <3> QED
      BY <1>2, <3>1, <3>2 DEF Grants
  <2>2. CASE granted'[a] = granted[a] + 1
    <3>1. recent'[a] = [i \in 1..Window |-> recent[a][i] + 1]
      BY <1>1, <2>2 DEF RecordGrants
    <3>2. granted'[a] = granted[a] + 1 /\ \A i \in 1..Window : recent'[a][i] = recent[a][i] + 1
      BY <2>2, <3>1
    <3>3. \A i \in 1..Window : recent[a][i] + 1 \in Nat
      BY <1>0, <1>2
    <3>4. recent'[a] \in [1..Window -> Nat]
      BY <3>1, <3>3
    <3> QED
      BY <3>2, <3>4 DEF Grants
  <2> QED
    BY <1>1, <2>1, <2>2
<1>4. recent' = [a \in Actors |-> recent'[a]]
  BY DEF RecordGrants
<1> QED
  BY <1>3, <1>4

LEMMA GrantsTimed ==
  ASSUME TypeOK, TimedInv, remaining' \in [Actors -> 0..Window],
         recent' \in [Actors -> [1..Window -> Nat]],
         \A a \in Actors : Grants(a) /\ Keeps(a)
  PROVE  TimedInv'
<1>0. Window \in Nat \ {0} /\ RateLimitMax \in Nat
  BY WindowAssumption, RateLimitMaxAssumption
<1>1. ClockTyped'
  BY DEF ClockTyped
<1>2. ASSUME NEW a \in Actors
      PROVE  /\ \A i, j \in 1..Window : i <= j => recent'[a][i] <= recent'[a][j]
             /\ recent'[a][Window] <= RateLimitMax + granted'[a]
             /\ ttl'[a] => \A i \in 1..Window :
                              i <= Window - remaining'[a] => recent'[a][i] <= granted'[a]
  <2>1. PICK n \in 0..1 : /\ granted'[a] = granted[a] + n
                          /\ \A i \in 1..Window : recent'[a][i] = recent[a][i] + n
    BY DEF Grants
  <2>2. granted[a] \in Nat /\ \A i \in 1..Window : recent[a][i] \in Nat
    BY DEF TypeOK, TimedInv, ClockTyped
  <2>3. \A i, j \in 1..Window : i <= j => recent[a][i] <= recent[a][j]
    BY DEF TimedInv, Totals
  <2>4. recent[a][Window] <= RateLimitMax + granted[a]
    BY DEF TimedInv, OneLimitBefore
  <2>5. ASSUME ttl'[a], NEW i \in 1..Window, i <= Window - remaining'[a]
        PROVE  recent'[a][i] <= granted'[a]
    <3>1. ttl[a] /\ remaining'[a] = remaining[a]
      BY <1>0, <2>5 DEF Keeps
    <3>2. recent[a][i] <= granted[a]
      BY <2>5, <3>1 DEF TimedInv, OwnSinceExpire
    <3> QED
      BY <2>1, <2>2, <3>2
  <2>6. \A i, j \in 1..Window : i <= j => recent'[a][i] <= recent'[a][j]
    <3> SUFFICES ASSUME NEW i \in 1..Window, NEW j \in 1..Window, i <= j
                 PROVE  recent'[a][i] <= recent'[a][j]
      OBVIOUS
    <3>1. recent[a][i] <= recent[a][j] /\ recent[a][i] \in Nat /\ recent[a][j] \in Nat
      BY <2>2, <2>3
    <3> QED
      BY <2>1, <3>1
  <2>7. recent'[a][Window] <= RateLimitMax + granted'[a]
    <3>1. Window \in 1..Window
      BY <1>0
    <3> QED
      BY <1>0, <2>1, <2>2, <2>4, <3>1
  <2> QED
    BY <2>5, <2>6, <2>7
<1> QED
  BY <1>1, <1>2 DEF TimedInv, Totals, OneLimitBefore, OwnSinceExpire

(* Every step keeps it, given that RateLimiter's invariant holds. *)
LEMMA TimedNextInv ==
  ASSUME IInv, IInv', TimedInv, [TimedNext]_timedVars
  PROVE  TimedInv'
<1>0. TypeOK /\ TypeOK' /\ Window \in Nat \ {0}
  BY WindowAssumption DEF IInv, KeyInv
<1>1. ASSUME NEW c \in Callers, NEW b \in Actors, TimedIncr(c, b) PROVE TimedInv'
  <2>1. /\ granted' = granted \/ granted' = [granted EXCEPT ![b] = @ + 1]
        /\ UNCHANGED <<ttl, remaining>> /\ RecordGrants
    BY <1>0, <1>1 DEF TimedIncr, Incr, Decide, IncrReplyLost, IncrFails, TypeOK
  <2>2. recent' \in [Actors -> [1..Window -> Nat]] /\ \A a \in Actors : Grants(a)
    BY <1>0, <2>1, StepGrants DEF TimedInv
  <2>3. \A a \in Actors : Keeps(a)
    BY <2>1 DEF Keeps
  <2> QED
    BY <1>0, <2>1, <2>2, <2>3, GrantsTimed DEF TimedInv, ClockTyped
<1>2. ASSUME NEW c \in Callers, TimedExpire(c) PROVE TimedInv'
  <2> DEFINE b == actor[c]
  <2>1. b \in Actors /\ RecordGrants /\ (Expire(c) \/ ExpireFails(c))
        /\ remaining' = [remaining EXCEPT ![b] = IF ttl'[b] THEN Window ELSE 0]
    BY <1>0, <1>2 DEF TimedExpire, Lives, TypeOK
  <2>2. granted' = granted \/ granted' = [granted EXCEPT ![b] = @ + 1]
    BY <1>0, <2>1 DEF Expire, ExpireFails, Decide, TypeOK
  <2>3. \A a \in Actors : a # b => ttl'[a] = ttl[a]
    BY <1>0, <2>1 DEF Expire, ExpireFails, TypeOK
  <2>4. recent' \in [Actors -> [1..Window -> Nat]] /\ \A a \in Actors : Grants(a)
    BY <1>0, <2>1, <2>2, StepGrants DEF TimedInv
  <2>5. remaining' \in [Actors -> 0..Window]
    BY <1>0, <2>1 DEF TimedInv, ClockTyped
  <2>6. \A a \in Actors : Keeps(a)
    BY <2>1, <2>3 DEF Keeps, TimedInv, ClockTyped
  <2> QED
    BY <1>0, <2>4, <2>5, <2>6, GrantsTimed
<1>3. CASE (Crash \/ \E c \in Callers : Return(c)) /\ UNCHANGED <<remaining, recent>>
  BY <1>3 DEF Crash, Return, TimedInv, ClockTyped, Totals, OneLimitBefore, OwnSinceExpire
<1>4. ASSUME NEW b \in Actors, TimedKeyExpires(b) PROVE TimedInv'
  <2>1. /\ ttl[b] /\ remaining[b] = 0 /\ UNCHANGED <<remaining, recent>>
        /\ ttl' = [ttl EXCEPT ![b] = FALSE] /\ granted' = [granted EXCEPT ![b] = 0]
    BY <1>4 DEF TimedKeyExpires, KeyExpires
  <2>2. recent[b][Window] <= granted[b] /\ granted[b] <= RateLimitMax
    BY <1>0, <2>1 DEF TimedInv, OwnSinceExpire, IInv, WindowQuota
  <2>3. DOMAIN ttl = Actors /\ DOMAIN granted = Actors
    BY <1>0 DEF TypeOK
  <2>4. \A a \in Actors : a # b => ttl'[a] = ttl[a] /\ granted'[a] = granted[a]
    BY <2>1, <2>3
  <2>5. recent[b][Window] <= RateLimitMax + granted'[b]
    BY <1>0, <2>1, <2>2, <2>3, RateLimitMaxAssumption DEF TimedInv, ClockTyped, TypeOK
  <2>6. OneLimitBefore'
    BY <2>1, <2>4, <2>5 DEF TimedInv, OneLimitBefore
  <2>7. OwnSinceExpire'
    BY <2>1, <2>3, <2>4 DEF TimedInv, OwnSinceExpire
  <2> QED
    BY <2>1, <2>6, <2>7 DEF TimedInv, ClockTyped, Totals
<1>5. CASE Tick
  <2>1. /\ UNCHANGED <<ttl, granted>>
        /\ \A a \in Actors : ttl[a] => remaining[a] > 0 /\ remaining'[a] = remaining[a] - 1
        /\ remaining' \in [Actors -> 0..Window]
    BY <1>0, <1>5 DEF Tick, vars, TimedInv, ClockTyped
  <2>2. /\ recent' \in [Actors -> [1..Window -> Nat]]
        /\ \A a \in Actors : \A i \in 1..Window :
             recent'[a][i] = IF i = 1 THEN 0 ELSE recent[a][i - 1]
    BY <1>0, <1>5 DEF Tick, TimedInv, ClockTyped
  <2>3. Totals'
    BY <1>0, <2>2 DEF TimedInv, ClockTyped, Totals
  <2>4. \A a \in Actors : recent'[a][Window] <= recent[a][Window]
    BY <1>0, <2>2 DEF TimedInv, ClockTyped, Totals
  <2>5. OneLimitBefore'
    BY <1>0, <2>1, <2>2, <2>4, RateLimitMaxAssumption
    DEF TimedInv, ClockTyped, OneLimitBefore, TypeOK
  <2>6. OwnSinceExpire'
    <3> SUFFICES ASSUME NEW a \in Actors, ttl[a],
                        NEW i \in 1..Window, i <= Window - remaining'[a]
                 PROVE  recent'[a][i] <= granted[a]
      BY <2>1 DEF OwnSinceExpire
    <3>1. granted[a] \in Nat /\ remaining[a] \in Nat /\ remaining'[a] = remaining[a] - 1
      BY <1>0, <2>1 DEF TimedInv, ClockTyped, TypeOK
    <3>2. CASE i = 1
      BY <1>0, <2>2, <3>1, <3>2
    <3>3. CASE i # 1
      <4>1. i - 1 \in 1..Window /\ i - 1 <= Window - remaining[a]
        BY <1>0, <3>1, <3>3
      <4>2. recent[a][i - 1] <= granted[a]
        BY <4>1 DEF TimedInv, OwnSinceExpire
      <4> QED
        BY <2>2, <3>3, <4>2
    <3> QED
      BY <3>2, <3>3
  <2> QED
    BY <2>1, <2>2, <2>3, <2>5, <2>6 DEF TimedInv, ClockTyped
<1>6. CASE UNCHANGED timedVars
  BY <1>6 DEF timedVars, vars, TimedInv, ClockTyped, Totals, OneLimitBefore, OwnSinceExpire
<1> QED
  BY <1>1, <1>2, <1>3, <1>4, <1>5, <1>6 DEF TimedNext

(***************************************************************************)
(* Any rateLimitWindow of time grants an actor at most twice rateLimitMax, *)
(* for every length of the window, every limit and all faults.             *)
(***************************************************************************)
THEOREM BurstsBounded == TimedSpec => []BurstBound
<1>1. TimedInit => IInv /\ TimedInv
  BY InitIInv, InitTimed DEF TimedInit
<1>2. IInv /\ TimedInv /\ [TimedNext]_timedVars => IInv' /\ TimedInv'
  BY TimedStep, NextIInv, TimedNextInv
<1>3. IInv /\ TimedInv => BurstBound
  BY RateLimitMaxAssumption, WindowAssumption
  DEF IInv, KeyInv, TypeOK, WindowQuota, TimedInv, ClockTyped, OneLimitBefore, BurstBound
<1> QED
  BY <1>1, <1>2, <1>3, PTL DEF TimedSpec
=============================================================================
