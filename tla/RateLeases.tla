------------------------------- MODULE RateLeases ------------------------------
(***************************************************************************)
(* The table subagent_rate_leases for one rate key: the rows that cap how  *)
(* many model calls of all workers are outstanding                         *)
(* (gbrain/src/core/minions/rate-leases.ts).  Each acquisition runs in one *)
(* transaction under an advisory lock on the key, so it is one step:       *)
(* delete the rows past expires_at, count the rest, insert or refuse.      *)
(* Time is abstract: a row may pass its expiry at any step.  renewLease    *)
(* is left out, nothing in src/ outside the tests calls it.                *)
(***************************************************************************)
EXTENDS Naturals, FiniteSets

CONSTANTS
    Lease,          \* ids the sequence may hand out, each used once
    MaxConcurrent   \* rows that may exist for the key

ASSUME LeaseAssumption == IsFiniteSet(Lease) /\ MaxConcurrent \in Nat \ {0}

VARIABLE leases     \* what is in the table under each id

LeaseState == {"none", "live", "expired"}

LeaseTypeOK == leases \in [Lease -> LeaseState]

LeaseInit == leases = [l \in Lease |-> "none"]

Live == {l \in Lease : leases[l] = "live"}
Rows == {l \in Lease : leases[l] # "none"}

\* DELETE ... WHERE expires_at <= now()
Pruned == [l \in Lease |-> IF leases[l] = "expired" THEN "none" ELSE leases[l]]

\* Mutant of AcquireLease: one row too many.
AcquireLeaseOffByOne(l) ==
    /\ leases[l] = "none"
    /\ Cardinality(Live) <= MaxConcurrent
    /\ leases' = [Pruned EXCEPT ![l] = "live"]

\* acquireLease that finds a free slot once the stale rows are gone.
AcquireLease(l) ==
    /\ leases[l] = "none"
    /\ Cardinality(Live) < MaxConcurrent
    /\ leases' = [Pruned EXCEPT ![l] = "live"]

\* acquireLease that finds every slot taken; the stale rows are gone all the same.
RefuseLease ==
    /\ Cardinality(Live) >= MaxConcurrent
    /\ leases' = Pruned

\* DELETE ... WHERE id = l; a row that was pruned is not missed.
ReleaseLease(l) == leases' = [leases EXCEPT ![l] = "none"]

\* now() passes the row's expires_at.
ExpireLease(l) ==
    /\ leases[l] = "live"
    /\ leases' = [leases EXCEPT ![l] = "expired"]

LeaseNext ==
    \/ \E l \in Lease : AcquireLease(l) \/ ReleaseLease(l) \/ ExpireLease(l)
    \/ RefuseLease

LeaseSpec == LeaseInit /\ [][LeaseNext]_leases

\* However acquisitions, releases and expiries interleave, the table never
\* holds more rows than maxConcurrent, stale ones included.
LeasesCapped == Cardinality(Rows) <= MaxConcurrent
================================================================================
