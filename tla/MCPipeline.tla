----------------------------- MODULE MCPipeline -----------------------------
(* Two requests with the same Idempotency-Key, and a pool of two connections. *)
EXTENDS Pipeline

CONSTANTS a1, a2, f1, f2

TwoAttempts == {a1, a2}
OneAttempt == {a1}
OneBody == {f1}
TwoBodies == {f1, f2}
AllFaults == {"crash", "redis", "late_error", "disconnect"}
NoFaults == {}
=============================================================================
