----------------------------- MODULE MCAgentFanout -----------------------------
(* A manifest of two entries. *)
EXTENDS AgentFanout

MCAggregatorOptions ==
    [name |-> "subagent_aggregator", priority |-> 0, delay |-> FALSE, max_attempts |-> 2,
     max_stalled |-> 2, on_child_fail |-> "fail_parent", max_children |-> 0,
     timeout |-> FALSE, remove_on_complete |-> FALSE, remove_on_fail |-> FALSE,
     idempotency_key |-> "", maxWaiting |-> 0, quiet |-> "none"]

MCChildOptions ==
    [MCAggregatorOptions EXCEPT !.name = "subagent", !.on_child_fail = "continue"]

MCOptions == {MCAggregatorOptions, MCChildOptions}
================================================================================
