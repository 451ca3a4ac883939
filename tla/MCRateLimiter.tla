---------------------------- MODULE MCRateLimiter ----------------------------
(* A small instance of the rate limiter. *)
EXTENDS RateLimiter, TLC

CONSTANTS u1, u2, u3

(* Two users with a token, who have one client ID, and one with neither    *)
(* token nor API key.                                                      *)
TwoShareOne == u1 :> "token" @@ u2 :> "token" @@ u3 :> "ip"

LimiterSymmetry == Permutations(Callers) \cup Permutations(Buckets)
==============================================================================
