----------------------------- MODULE MCAgentPlans -----------------------------
(* The instance TLC checks: plans of one and two steps of each kind. *)
EXTENDS AgentPlans

S(k, c) == [kind |-> k, cont |-> c]
MCBodies == {<<S("arm", FALSE)>>, <<S("param", TRUE), S("safe", FALSE)>>}
MCPositions == {<<"off", FALSE, "partial">>, <<"supervised", FALSE, "partial">>,
                <<"autonomous", TRUE, "full">>}
=============================================================================
