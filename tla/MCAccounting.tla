---------------------------- MODULE MCAccounting ----------------------------
(***************************************************************************)
(* Three requests on two processes whose clocks are a tick apart, for a    *)
(* model that two providers serve; one of the prices goes up while they    *)
(* run and a process may be restarted.  Four of the smallest amounts make  *)
(* a unit.                                                                 *)
(***************************************************************************)
EXTENDS Accounting, TLC

CONSTANTS p1, p2, q1, q2, q3, openai, anthropic, gpt

TwoProcesses == {p1, p2}
Apart == p1 :> 0 @@ p2 :> 1
ThreeRequests == {q1, q2, q3}
MCModels == {<<openai, gpt>>, <<anthropic, gpt>>}
MCRates == {[model |-> <<openai, gpt>>, price |-> 3, effective_from |-> 0],
            [model |-> <<openai, gpt>>, price |-> 5, effective_from |-> 2],
            [model |-> <<anthropic, gpt>>, price |-> 2, effective_from |-> 0]}
MCTokens == {1}
RequestSymmetry == Permutations(ThreeRequests)
=============================================================================
