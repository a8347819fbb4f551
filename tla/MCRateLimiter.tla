--------------------------- MODULE MCRateLimiter ---------------------------
(* Bounds for RateLimiter: one client address, one organization, a user or *)
(* an API key of it.  With a multiplier of 1/15 the smallest limits are 1. *)
EXTENDS RateLimiter, TLC

CONSTANTS r1, r2

MCReqs == {r1, r2}
MCTraffic == {"memory", "voice", "start", "health"}
MCPrincipals == {[org |-> "o", user |-> "u", key |-> None]}
MCScale == <<1, 15>>
Symmetry == Permutations(MCReqs)
=============================================================================
