---------------------------- MODULE RateLimiter ----------------------------
(***************************************************************************)
(* chat-gateway's per-actor rate limiter, `ratelimit.go`: Allow is an INCR *)
(* of the key ratelimit:<actor> and, for the call that created the key, an *)
(* EXPIRE.  The two are separate round trips to Redis, made by the         *)
(* goroutine of each websocket session, so the calls of sessions of one    *)
(* actor interleave between them and the process may die there.            *)
(*                                                                         *)
(* Redis itself is external: a counter per key, and a key that carries a   *)
(* time to live disappears at some later moment.                           *)
(***************************************************************************)
EXTENDS Naturals

CONSTANTS
  Callers,       \* goroutines that call Allow, one per websocket session
  Actors,        \* JWT subjects
  RateLimitMax,  \* rateLimitMax
  CountBound,    \* bound: INCRs modelled per key
  MaxFaults      \* bound: lost replies, failed calls and crashes

ASSUME RateLimitMaxAssumption == RateLimitMax \in Nat \ {0}
ASSUME CountBoundAssumption == CountBound \in Nat
ASSUME MaxFaultsAssumption == MaxFaults \in Nat

VARIABLES
  count,    \* count[a]: value of the key of a; 0 when there is no key
  ttl,      \* ttl[a]: the key of a has a time to live
  pc,       \* where each caller is in Allow, or what its last call returned
  actor,    \* actor[c]: the actor c's call is, or was last, made for
  granted,  \* history: calls granted for a since its key was created
  faults    \* faults so far

vars == <<count, ttl, pc, actor, granted, faults>>

Idle == {"idle", "allowed", "denied", "error"}

TypeOK ==
  /\ count \in [Actors -> Nat]
  /\ ttl \in [Actors -> BOOLEAN]
  /\ pc \in [Callers -> Idle \cup {"expire"}]
  /\ actor \in [Callers -> Actors]
  /\ granted \in [Actors -> Nat]
  /\ faults \in 0..MaxFaults

Init ==
  /\ count = [a \in Actors |-> 0]
  /\ ttl = [a \in Actors |-> FALSE]
  /\ pc = [c \in Callers |-> "idle"]
  /\ actor \in [Callers -> Actors]
  /\ granted = [a \in Actors |-> 0]
  /\ faults = 0

Fault == faults < MaxFaults /\ faults' = faults + 1

\* Mutant of Within: one turn too many.
WithinOffByOne(n) == n <= RateLimitMax + 1

\* `count <= rateLimitMax`.
Within(n) == n <= RateLimitMax

\* Mutant of Incr: the key is never given a time to live.
IncrForgetsExpire(c, a) ==
  /\ pc[c] = "idle" /\ count[a] < CountBound
  /\ count' = [count EXCEPT ![a] = @ + 1]
  /\ actor' = [actor EXCEPT ![c] = a]
  /\ pc' = [pc EXCEPT ![c] = IF Within(count[a] + 1) THEN "allowed" ELSE "denied"]
  /\ granted' = [granted EXCEPT ![a] = IF Within(count[a] + 1) THEN @ + 1 ELSE @]
  /\ UNCHANGED <<ttl, faults>>

\* The call returns: what it granted is recorded.
Decide(c, a, n) ==
  /\ pc' = [pc EXCEPT ![c] = IF Within(n) THEN "allowed" ELSE "denied"]
  /\ granted' = [granted EXCEPT ![a] = IF Within(n) THEN @ + 1 ELSE @]

\* INCR: the call that creates the key goes on to EXPIRE, every other
\* one decides at once.
Incr(c, a) ==
  /\ pc[c] = "idle" /\ count[a] < CountBound
  /\ count' = [count EXCEPT ![a] = @ + 1]
  /\ actor' = [actor EXCEPT ![c] = a]
  /\ IF count[a] = 0
       THEN pc' = [pc EXCEPT ![c] = "expire"] /\ UNCHANGED granted
       ELSE Decide(c, a, count[a] + 1)
  /\ UNCHANGED <<ttl, faults>>

\* INCR was applied but its reply was lost: the client library sends the
\* command again (a further Incr) or the caller gives up.
IncrReplyLost(c, a) ==
  /\ pc[c] = "idle" /\ count[a] < CountBound /\ Fault
  /\ count' = [count EXCEPT ![a] = @ + 1]
  /\ UNCHANGED <<ttl, pc, actor, granted>>

\* INCR failed without an effect: Allow returns the error.
IncrFails(c, a) ==
  /\ pc[c] = "idle" /\ Fault
  /\ pc' = [pc EXCEPT ![c] = "error"]
  /\ actor' = [actor EXCEPT ![c] = a]
  /\ UNCHANGED <<count, ttl, granted>>

\* EXPIRE and the return that follows it.
Expire(c) ==
  /\ pc[c] = "expire"
  /\ ttl' = [ttl EXCEPT ![actor[c]] = TRUE]
  /\ Decide(c, actor[c], 1)
  /\ UNCHANGED <<count, actor, faults>>

\* EXPIRE returned an error, applied or not; the turn is refused.
ExpireFails(c) ==
  /\ pc[c] = "expire" /\ Fault
  /\ \E applied \in BOOLEAN :
       ttl' = [ttl EXCEPT ![actor[c]] = applied]
  /\ pc' = [pc EXCEPT ![c] = "error"]
  /\ UNCHANGED <<count, actor, granted>>

\* The caller has acted on the answer and may call again.
Return(c) ==
  /\ pc[c] \in Idle \ {"idle"}
  /\ pc' = [pc EXCEPT ![c] = "idle"]
  /\ UNCHANGED <<count, ttl, actor, granted, faults>>

\* Redis drops a key whose time to live has run out.
KeyExpires(a) ==
  /\ ttl[a]
  /\ count' = [count EXCEPT ![a] = 0]
  /\ ttl' = [ttl EXCEPT ![a] = FALSE]
  /\ granted' = [granted EXCEPT ![a] = 0]
  /\ UNCHANGED <<pc, actor, faults>>

\* The gateway dies and restarts; Redis keeps its keys.
Crash ==
  /\ Fault
  /\ pc' = [c \in Callers |-> "idle"]
  /\ UNCHANGED <<count, ttl, actor, granted>>

Next ==
  \/ \E c \in Callers, a \in Actors :
       Incr(c, a) \/ IncrReplyLost(c, a) \/ IncrFails(c, a)
  \/ \E c \in Callers : Expire(c) \/ ExpireFails(c) \/ Return(c)
  \/ \E a \in Actors : KeyExpires(a)
  \/ Crash

Spec == Init /\ [][Next]_vars

\* Redis drops expired keys and a caller that was answered by INCR goes on
\* to EXPIRE; nobody is obliged to send messages.
FairSpec ==
  /\ Spec
  /\ \A c \in Callers : WF_vars(Expire(c))
  /\ \A a \in Actors : WF_vars(KeyExpires(a))

-----------------------------------------------------------------------------
Pending(c, a) == pc[c] = "expire" /\ actor[c] = a

(***************************************************************************)
(* "20 turns per 60s window per actor": between the creation of an actor's *)
(* key and its expiry at most RateLimitMax calls are granted, whatever the *)
(* interleaving of its sessions, and also when replies are lost, EXPIRE    *)
(* fails or the gateway restarts in the middle of the window.              *)
(***************************************************************************)
WindowQuota == \A a \in Actors : granted[a] <= RateLimitMax

(***************************************************************************)
(* While no call has failed, a key without a time to live is one whose     *)
(* creator is still between INCR and EXPIRE: no interleaving of sessions   *)
(* leaves a key that would block its actor for ever.                       *)
(***************************************************************************)
NoOrphanKey ==
  faults = 0 =>
    \A a \in Actors : count[a] > 0 /\ ~ttl[a] => \E c \in Callers : Pending(c, a)

(***************************************************************************)
(* The strengthening that makes the two inductive: only one caller is ever *)
(* between INCR and EXPIRE of a key, the key is there and has no time to   *)
(* live meanwhile, and the grant still owed to it is counted.              *)
(***************************************************************************)
PendingOwnsKey ==
  \A c \in Callers : \A a \in Actors : Pending(c, a) =>
    /\ count[a] > 0 /\ ~ttl[a]
    /\ granted[a] < count[a] /\ granted[a] < RateLimitMax
    /\ \A d \in Callers : Pending(d, a) => d = c

GrantsCounted == \A a \in Actors : granted[a] <= count[a]

TtlOnKeys == \A a \in Actors : ttl[a] => count[a] > 0

KeyInv == TypeOK /\ PendingOwnsKey /\ GrantsCounted /\ TtlOnKeys

(***************************************************************************)
(* "rate limit exceeded, try again shortly": an actor over its limit is    *)
(* eventually given a new window.                                          *)
(***************************************************************************)
LockoutEnds ==
  \A a \in Actors : (count[a] > RateLimitMax) ~> (count[a] = 0)

(***************************************************************************)
(* What holds of it: nothing but a lost reply, a failed EXPIRE or a crash  *)
(* can lock an actor out, no interleaving of its sessions does.            *)
(***************************************************************************)
LockoutEndsUnlessFault ==
  \A a \in Actors : (count[a] > RateLimitMax) ~> (count[a] = 0 \/ faults > 0)
=============================================================================
