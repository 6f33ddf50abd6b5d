--------------------------- MODULE MCIdempotency ---------------------------
(* Requests that carry one idempotency key, as model values. *)
EXTENDS Idempotency, TLC

CONSTANTS a1, a2, a3, f1, f2

TwoAttempts == {a1, a2}
ThreeAttempts == {a1, a2, a3}
OneBody == {f1}
TwoBodies == {f1, f2}
NoFaults == {}
AllFaults == {"crash", "redis", "late_error", "disconnect"}
LateErrors == {"late_error"}
AttemptSymmetry == Permutations(ThreeAttempts) \cup Permutations(TwoBodies)
=============================================================================
