----------------------------- MODULE MCMinionQueue -----------------------------
(***************************************************************************)
(* Small instances of MinionQueue.  Each run gives the callers a few kinds *)
(* of submission, named here, and the operator commands they may use.      *)
(***************************************************************************)
EXTENDS MinionQueue

Plain ==
    [name |-> "job", priority |-> 0, delay |-> FALSE, max_attempts |-> 2,
     max_stalled |-> 2, on_child_fail |-> "fail_parent", max_children |-> 0,
     timeout |-> FALSE, remove_on_complete |-> FALSE, remove_on_fail |-> FALSE,
     idempotency_key |-> "", maxWaiting |-> 0, quiet |-> "none"]

\* A job of its own, with a deadline and either kind of quiet hours.
OneJobOptions ==
    {[Plain EXCEPT !.timeout = TRUE, !.quiet = "skip"],
     [Plain EXCEPT !.timeout = TRUE, !.quiet = "defer", !.delay = TRUE]}

\* Families: aggregation, where mixed outcomes are collected, and the policies
\* that touch the parent; rows are not always kept.
FanoutOptions ==
    {[Plain EXCEPT !.max_attempts = 1, !.on_child_fail = "continue"]}

FamilyOptions == FanoutOptions \cup
    {[Plain EXCEPT !.max_attempts = 1],
     [Plain EXCEPT !.max_attempts = 1, !.on_child_fail = "remove_dep",
                   !.remove_on_fail = TRUE, !.remove_on_complete = TRUE,
                   !.max_children = 1]}

\* A job that starts delayed, may be skipped and is rescued once.
RecoveryOptions ==
    {[Plain EXCEPT !.quiet = "skip", !.delay = TRUE, !.max_attempts = 1]}

\* Two jobs that may be parent and child, with every command and fault.
PairOptions ==
    {[Plain EXCEPT !.quiet = "skip", !.maxWaiting = 1],
     [Plain EXCEPT !.quiet = "defer", !.priority = -1, !.idempotency_key = "k",
                   !.timeout = TRUE]}

\* Default submissions: on_child_fail is fail_parent.
DefaultOptions == {[Plain EXCEPT !.max_attempts = 1]}

\* The same with a cap of one open child.
CappedOptions == {[Plain EXCEPT !.max_attempts = 1, !.max_children = 1,
                                !.on_child_fail = "continue"]}

\* A job with a deadline and an attempt to spare.
DeadlineOptions == {[Plain EXCEPT !.timeout = TRUE]}
================================================================================
