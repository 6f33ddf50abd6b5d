----------------------------- MODULE CircuitGate -----------------------------
(***************************************************************************)
(* What a circuit breaker promises, without generations and without a     *)
(* trial flag: it remembers only whose outcome still counts.               *)
(*                                                                         *)
(*   CLOSED     every caller may enter and votes when it ends;             *)
(*   OPEN       nobody may enter or vote until `wait` has run out;         *)
(*   HALF_OPEN  one voter at a time, and its vote decides.                 *)
(*                                                                         *)
(* Every change of phase disenfranchises the callers still under way: what *)
(* they report later is not a step of this specification at all.           *)
(***************************************************************************)
EXTENDS Naturals

CONSTANTS Callers, FailThreshold, ResetTimeout

VARIABLES
    phase,    \* "closed", "open" or "half_open"
    voters,   \* callers under way whose outcome will be counted
    strikes,  \* failures counted since the last counted success
    wait      \* cooldown left

vars == <<phase, voters, strikes, wait>>

Init ==
    /\ phase = "closed"
    /\ voters = {}
    /\ strikes = 0
    /\ wait = 0

Admit(c) ==
    /\ c \notin voters
    /\ \/ phase = "closed" /\ phase' = phase
       \/ phase = "open" /\ wait = 0 /\ phase' = "half_open"
       \/ phase = "half_open" /\ voters = {} /\ phase' = phase
    /\ voters' = voters \cup {c}
    /\ UNCHANGED <<strikes, wait>>

\* A success clears the strikes; the trial's success closes the circuit.
Succeed(c) ==
    /\ c \in voters
    /\ strikes' = 0
    /\ phase' = "closed"
    /\ voters' = voters \ {c}
    /\ wait' = wait

\* The trial's failure, or the last strike allowed, opens the circuit.
Fail(c) ==
    /\ c \in voters
    /\ strikes' = strikes + 1
    /\ IF phase = "half_open" \/ strikes + 1 >= FailThreshold
       THEN phase' = "open" /\ voters' = {} /\ wait' = ResetTimeout
       ELSE phase' = phase /\ voters' = voters \ {c} /\ wait' = wait

\* A caller that is cancelled or abandoned leaves without a vote.
Withdraw(c) ==
    /\ c \in voters
    /\ voters' = voters \ {c}
    /\ UNCHANGED <<phase, strikes, wait>>

Cool ==
    /\ phase = "open"
    /\ wait > 0
    /\ wait' = wait - 1
    /\ UNCHANGED <<phase, voters, strikes>>

Next ==
    \/ \E c \in Callers : Admit(c) \/ Succeed(c) \/ Fail(c) \/ Withdraw(c)
    \/ Cool

Spec == Init /\ [][Next]_vars

=============================================================================
