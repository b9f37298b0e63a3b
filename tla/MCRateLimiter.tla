--------------------------- MODULE MCRateLimiter ---------------------------
(* A small clock for RateLimiter: one unit is a burst delay.               *)
EXTENDS RateLimiter

MCClockZeros == {0, 3}
=============================================================================
