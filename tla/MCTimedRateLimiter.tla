------------------------- MODULE MCTimedRateLimiter -------------------------
(* An instance of TimedRateLimiter for TLC: two sessions, two actors. *)
EXTENDS TimedRateLimiter

CONSTANTS c1, c2, alice, bob

TwoCallers == {c1, c2}
TwoActors == {alice, bob}
=============================================================================
