--------------------------- MODULE MCRateLimiter ---------------------------
(* An instance of RateLimiter for TLC: two sessions, one or two actors. *)
EXTENDS RateLimiter

CONSTANTS c1, c2, alice, bob

TwoCallers == {c1, c2}
TwoActors == {alice, bob}
OneActor == {alice}
=============================================================================
