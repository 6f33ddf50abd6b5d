---------------------------- MODULE MCRateLimiter ----------------------------
(***************************************************************************)
(* A key of rpm 1 on two processes whose clocks are a tick apart; a bucket *)
(* of one token is kept for four ticks.  In MCRateLimiter.cfg a token is   *)
(* three units and a tick brings two: it takes a tick and a half, which    *)
(* Retry-After rounds up.  In MCRateLimiterClocks.cfg it takes two ticks.  *)
(***************************************************************************)
EXTENDS RateLimiter, TLC

CONSTANTS p1, p2, c1, c2, c3

TwoProcesses == {p1, p2}
ThreeCallers == {c1, c2, c3}
TwoCallers == {c1, c3}
Placement == c1 :> p1 @@ c2 :> p1 @@ c3 :> p2
OnePerProcess == c1 :> p1 @@ c3 :> p2
Apart == p1 :> 0 @@ p2 :> 1
CallerSymmetry == Permutations({c1, c2})
AllFaults == {"redis", "cancel"}
NoFaults == {}
=============================================================================
