----------------------------- MODULE MCSubagentLoop ----------------------------
(***************************************************************************)
(* Small instances of SubagentLoop: what the model may answer, per run.    *)
(***************************************************************************)
EXTENDS SubagentLoop

\* A plain answer, one tool, a pair of tools, one tool nobody registered.
Answers == {<<>>, <<"once">>, <<"idempotent", "once">>, <<"unknown">>}

\* A plain answer or one tool.
ShortAnswers == {<<>>, <<"idempotent">>}

LeasePerClaimAndTurn == Claim \X (0..MaxTurns)
================================================================================
