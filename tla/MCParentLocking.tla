---------------------------- MODULE MCParentLocking ----------------------------
(***************************************************************************)
(* Small instances of ParentLocking: which sessions run what.              *)
(***************************************************************************)
EXTENDS ParentLocking, TLC

CONSTANTS w1, w2, w3, c1, c2, c3

\* Two workers answer for children and add some; one session sweeps or cancels.
OneSharing == (w1 :> Locking) @@ (w2 :> Locking) @@ (w3 :> Sharing)

\* Two operators cancel children that a worker has added.
TwoCancels == (w1 :> {"add"}) @@ (w2 :> {"cancel"}) @@ (w3 :> {"cancel"})

\* Children are interchangeable, and nothing but invariants is checked.
Siblings == Permutations({c1, c2, c3})
================================================================================
