-------------------------- MODULE TimedRateLimiter --------------------------
(***************************************************************************)
(* RateLimiter with a clock: EXPIRE gives the key rateLimitWindow to live, *)
(* and Redis drops it then.  The limit holds per life of the key; this     *)
(* module asks what an actor may be granted in an arbitrary interval of    *)
(* that length, which is what a "sliding" window would bound.  Only times  *)
(* still to come and grants of the last window are kept, so time is not    *)
(* bounded, and the grants as running totals, so nothing has to be summed. *)
(***************************************************************************)
EXTENDS RateLimiter

CONSTANT Window  \* rateLimitWindow, in ticks

ASSUME WindowAssumption == Window \in Nat \ {0}

VARIABLES
  remaining,  \* remaining[a]: ticks the key of a still has to live, if it has a ttl
  recent      \* history: recent[a][i], calls of a granted in the last i ticks

timedVars == <<vars, remaining, recent>>

\* A key never has more than one window left to live.
TimedInit ==
  /\ Init
  /\ remaining = [a \in Actors |-> 0]
  /\ recent = [a \in Actors |-> [i \in 1..Window |-> 0]]

RecordGrants ==
  recent' = [a \in Actors |-> IF granted'[a] > granted[a]
                                THEN [i \in 1..Window |-> recent[a][i] + 1]
                                ELSE recent[a]]

\* INCR and the ways it fails take no notice of the clock.
TimedIncr(c, a) ==
  /\ Incr(c, a) \/ IncrReplyLost(c, a) \/ IncrFails(c, a)
  /\ RecordGrants
  /\ UNCHANGED remaining

Lives(a, ticks) == remaining' = [remaining EXCEPT ![a] = IF ttl'[a] THEN ticks ELSE 0]

\* Mutant of TimedExpire: a window of half the length.
TimedExpireHalfWindow(c) ==
  /\ Expire(c) \/ ExpireFails(c)
  /\ Lives(actor[c], Window \div 2)
  /\ RecordGrants

\* EXPIRE counts rateLimitWindow from the moment Redis executes it.
TimedExpire(c) ==
  /\ Expire(c) \/ ExpireFails(c)
  /\ Lives(actor[c], Window)
  /\ RecordGrants

TimedKeyExpires(a) ==
  /\ remaining[a] = 0 /\ KeyExpires(a)
  /\ UNCHANGED <<remaining, recent>>

\* Time passes while no key is overdue.
Tick ==
  /\ \A a \in Actors : ttl[a] => remaining[a] > 0
  /\ remaining' = [a \in Actors |-> IF ttl[a] THEN remaining[a] - 1 ELSE 0]
  /\ recent' = [a \in Actors |-> [i \in 1..Window |-> IF i = 1 THEN 0 ELSE recent[a][i - 1]]]
  /\ UNCHANGED vars

TimedNext ==
  \/ \E c \in Callers, a \in Actors : TimedIncr(c, a)
  \/ \E c \in Callers : TimedExpire(c)
  \/ /\ Crash \/ (\E c \in Callers : Return(c))
     /\ UNCHANGED <<remaining, recent>>
  \/ \E a \in Actors : TimedKeyExpires(a)
  \/ Tick

TimedSpec == TimedInit /\ [][TimedNext]_timedVars

\* Time passes, Redis drops overdue keys, and a call goes on from INCR to
\* EXPIRE; nobody is obliged to send messages.
TimedFairSpec ==
  /\ TimedSpec
  /\ WF_timedVars(Tick)
  /\ \A c \in Callers : WF_timedVars(Expire(c) /\ TimedExpire(c))
  /\ \A a \in Actors : WF_timedVars(TimedKeyExpires(a))

-----------------------------------------------------------------------------
(***************************************************************************)
(* "a per-actor sliding-ish window": any rateLimitWindow of time grants an *)
(* actor at most twice rateLimitMax, the end of one key's life and the     *)
(* start of the next, with and without faults.                             *)
(***************************************************************************)
BurstBound ==
  \A a \in Actors : recent[a][Window] <= 2 * RateLimitMax
=============================================================================
