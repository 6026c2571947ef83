---------------------------- MODULE MCRateLimiter ----------------------------
(***************************************************************************)
(* Small instances of RateLimiter for TLC: requests of two users of an app. *)
(***************************************************************************)
EXTENDS RateLimiter

CONSTANTS w1, w2, w3, app, user1, user2

OneApp == [w \in Workers |-> app]
OwnUser == [w \in Workers |-> IF w = w1 THEN user1 ELSE user2]

BothLimits == [c \in Counters |-> IF c = app THEN 2 ELSE 1]
MixedLimits == [c \in Counters |-> IF c = user2 THEN 0 ELSE IF c = app THEN 2 ELSE 1]
=============================================================================
