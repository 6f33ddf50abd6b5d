------------------------------ MODULE MCGateway ------------------------------
(***************************************************************************)
(* Two requests; a tier of three candidates, one of them not configured,   *)
(* listed in another order than the tier's strategy ranks them in.         *)
(***************************************************************************)
EXTENDS Gateway, TLC

CONSTANTS r1, r2, openai, anthropic, absent, mini, haiku, other

MCRequests == {r1, r2}
MCProviders == {openai, anthropic, absent}
MCRegistered == {openai, anthropic}
Meta(p, cost, reasoning) ==
    [provider |-> p, input_cost |-> cost, output_cost |-> 5 * cost,
     reasoning_score |-> reasoning, latency_score |-> 100 - reasoning]
MCRegistry == mini :> Meta(openai, 1, 55) @@ other :> Meta(absent, 2, 60)
                @@ haiku :> Meta(anthropic, 6, 70)
Listed == <<[provider |-> anthropic, model |-> haiku],
            [provider |-> absent, model |-> other],
            [provider |-> openai, model |-> mini]>>
MCCatalog == "low_cost" :> Listed
MCTiers == {"low_cost", "unknown"}
RecordTiers == {"default"}
RecordCatalog == "default" :> Listed
MCStrategy == "low_cost" :> "cost" @@ "reasoning" :> "reasoning"
MCPriority == <<openai, anthropic>>
AllFaults == {"raw", "record", "cancel", "stop"}
RecordFaults == {"record"}
=============================================================================
