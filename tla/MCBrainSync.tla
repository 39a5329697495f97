------------------------------ MODULE MCBrainSync ------------------------------
(* Instances of BrainSync for TLC: a person, who syncs and imports, and autopilot. *)
EXTENDS BrainSync

MCPidOf == [a \in Agent |-> IF a = "user" THEN 1 ELSE 2]
MCKindOf == [p \in Path |-> IF p = 3 THEN "meta" ELSE "md"]
MCCodeKindOf == [p \in Path |-> IF p = 2 THEN "code" ELSE "md"]
MCFirstTrees == {<<"a", "none", "a">>}
MCFirstTree == {[p \in Path |-> IF p = 1 THEN "a" ELSE "none"]}
Md == {"md"}
Ask(skip, dry, full) == [skip |-> skip, dry |-> dry, full |-> full, kinds |-> Md]
MCRequests == {Ask(TRUE, FALSE, FALSE), Ask(FALSE, TRUE, FALSE), Ask(FALSE, FALSE, TRUE)}
================================================================================
