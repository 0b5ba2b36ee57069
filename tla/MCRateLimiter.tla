---------------------------- MODULE MCRateLimiter ----------------------------
(* Small instances of RateLimiter for TLC.                                *)
EXTENDS RateLimiter, TLC

CONSTANTS c1, c2

Ahead == [c \in Callers |-> IF c = c1 THEN 2 ELSE 0]

==============================================================================
