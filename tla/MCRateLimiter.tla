---------------------------- MODULE MCRateLimiter ----------------------------
(* Instances of RateLimiter for TLC. *)
EXTENDS RateLimiter

MCEnvironments == {{"redis", "crash"}, {"crash"}, {}}
=============================================================================
