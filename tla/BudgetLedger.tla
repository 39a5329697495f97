------------------------------ MODULE BudgetLedger ------------------------------
(***************************************************************************)
(* core/enrichment/budget.ts: a daily cap on what calls to one paid        *)
(* resolver may cost.  A caller reserves an estimate, calls, and commits   *)
(* what the call cost or rolls back; what nobody settles is reclaimed when *)
(* its time is over.  Each transaction locks the rows it reads, so that it *)
(* is one step; callers interleave between transactions.  One scope and    *)
(* one resolver; dollars are counted in whole units.                       *)
(***************************************************************************)
EXTENDS Naturals, FiniteSets

CONSTANTS
    Spender,            \* processes that call the resolver, or sweep
    MaxReservations,    \* bound: reservations ever made
    Estimates, Costs,   \* what a call is thought to cost, and what it costs
    Caps, NoCap,        \* the caps that callers give; none
    MaxDay              \* bound: days

ASSUME BudgetAssumption ==
    /\ Estimates \subseteq Nat /\ Costs \subseteq Nat
    /\ NoCap \notin Nat /\ Caps \subseteq Nat \union {NoCap}
    /\ MaxReservations \in Nat /\ MaxDay \in Nat \ {0}

Reservation == 1..MaxReservations
Day == 1..MaxDay

VARIABLES
    budget,         \* budget_ledger: a row for each day
    reservation,    \* budget_reservations
    spender,        \* the call each process is about
    today,
    spent,          \* history: what the calls of a day have really cost
    uncovered       \* history: days on which a call cost more than it had reserved, or was
                    \* not settled while its reservation stood

budgetVars == <<budget, reservation, spender, today, spent, uncovered>>

NoDay == [there |-> FALSE, reserved |-> 0, committed |-> 0, cap |-> NoCap]
NotMade == [status |-> "none", day |-> 1, estimate |-> 0, expired |-> FALSE]
NoCall == [pc |-> "idle", day |-> 1, estimate |-> 0, cap |-> NoCap, todo |-> {}, id |-> 0, cost |-> 0]

Idle == [c \in Spender |-> NoCall]

BudgetInit ==
    /\ budget = [d \in Day |-> NoDay]
    /\ reservation = [r \in Reservation |-> NotMade]
    /\ spender = Idle
    /\ today = 1
    /\ spent = [d \in Day |-> 0] /\ uncovered = {}

Held(r) == reservation[r].status = "held"
Expired == {r \in Reservation : Held(r) /\ reservation[r].expired}
Minus(n, k) == IF n > k THEN n - k ELSE 0

\* A reservation whose call has been paid and that nobody has settled.
Unsettled(r) == \E c \in Spender : spender[c].pc = "paid" /\ spender[c].id = r

Turns(c, pc) == spender' = [spender EXCEPT ![c].pc = pc]
Leaves(c) == spender' = [spender EXCEPT ![c] = NoCall]

-----------------------------------------------------------------------------
\* reserve: the day is taken from the clock, and what has expired on it is looked up.
StartReserve(c, estimate, cap) ==
    /\ spender[c].pc = "idle"
    /\ spender' = [spender EXCEPT ![c] =
         [NoCall EXCEPT !.pc = "reclaim", !.day = today, !.estimate = estimate, !.cap = cap,
                        !.todo = {r \in Expired : reservation[r].day = today}]]
    /\ UNCHANGED <<budget, reservation, today, spent, uncovered>>

\* The transaction of rollback, in which a reservation that is settled is left alone.
Undo(r) ==
    IF Held(r)
    THEN /\ reservation' = [reservation EXCEPT ![r].status = "rolled_back"]
         /\ budget' = [budget EXCEPT ![reservation[r].day].reserved = Minus(@, reservation[r].estimate)]
    ELSE UNCHANGED <<reservation, budget>>

\* reclaimExpiredRow and cleanupExpired: one after the other.
Reclaim(c) ==
    \E r \in spender[c].todo :
        /\ Undo(r)
        /\ spender' = [spender EXCEPT ![c].todo = @ \ {r}]
        /\ uncovered' = IF Held(r) /\ Unsettled(r) THEN uncovered \union {reservation[r].day} ELSE uncovered
        /\ UNCHANGED <<today, spent>>

\* One that cannot be rolled back is passed over; a sweep ends with it.
ReclaimFails(c) ==
    \E r \in spender[c].todo :
        /\ IF spender[c].pc = "sweep" THEN Leaves(c) ELSE spender' = [spender EXCEPT ![c].todo = @ \ {r}]
        /\ UNCHANGED <<budget, reservation, today, spent, uncovered>>

\* Mutant of Fits: only what is committed counts.
FitsCommitted(row, estimate, cap) == cap = NoCap \/ row.committed + estimate <= cap
Fits(row, estimate, cap) == cap = NoCap \/ row.committed + row.reserved + estimate <= cap

\* The transaction of reserve.  A row of the day is there from now on, with the cap of the
\* first who asked; a cap given later replaces it if the estimate fits.
Reserve(c) ==
    LET call == spender[c]
        row == IF budget[call.day].there THEN budget[call.day]
               ELSE [NoDay EXCEPT !.there = TRUE, !.cap = call.cap]
        cap == IF call.cap # NoCap THEN call.cap ELSE row.cap
        fits == Fits(row, call.estimate, cap)
        r == CHOOSE s \in Reservation :
               reservation[s].status = "none" /\ (s = 1 \/ reservation[s - 1].status # "none")
    IN  /\ call.pc = "reclaim" /\ call.todo = {}
        /\ \E s \in Reservation : reservation[s].status = "none"
        /\ budget' = [budget EXCEPT ![call.day] =
             IF fits THEN [row EXCEPT !.reserved = @ + call.estimate, !.cap = cap] ELSE row]
        /\ IF fits
           THEN /\ reservation' = [reservation EXCEPT ![r] =
                     [status |-> "held", day |-> call.day, estimate |-> call.estimate, expired |-> FALSE]]
                /\ spender' = [spender EXCEPT ![c] =
                     [NoCall EXCEPT !.pc = "held", !.day = call.day, !.id = r]]
           ELSE UNCHANGED reservation /\ Leaves(c)
        /\ UNCHANGED <<today, spent, uncovered>>

\* The paid call itself: it succeeds for some price, or fails.
Pays(c, cost) ==
    LET r == spender[c].id IN
    /\ spender[c].pc = "held"
    /\ spender' = [spender EXCEPT ![c].pc = "paid", ![c].cost = cost]
    /\ spent' = [spent EXCEPT ![spender[c].day] = @ + cost]
    /\ uncovered' = IF cost > reservation[r].estimate \/ ~Held(r)
                    THEN uncovered \union {spender[c].day} ELSE uncovered
    /\ UNCHANGED <<budget, reservation, today>>

CallFails(c) ==
    /\ spender[c].pc = "held" /\ Turns(c, "failed")
    /\ UNCHANGED <<budget, reservation, today, spent, uncovered>>

\* The transaction of commit.  A cost above what the cap leaves throws inside it, so that
\* nothing of it stays: the reservation is held as before.
commit(c) ==
    LET r == spender[c].id
        res == reservation[r]
        row == budget[res.day]
        room == Minus(row.cap, row.committed + Minus(row.reserved, res.estimate))
    IN  /\ spender[c].pc = "paid" /\ Leaves(c)
        /\ IF Held(r) /\ (row.cap = NoCap \/ spender[c].cost <= room)
           THEN /\ reservation' = [reservation EXCEPT ![r].status = "committed"]
                /\ budget' = [budget EXCEPT ![res.day].reserved = Minus(@, res.estimate),
                                            ![res.day].committed = @ + spender[c].cost]
           ELSE UNCHANGED <<reservation, budget>>
        /\ UNCHANGED <<today, spent, uncovered>>

rollback(c) ==
    /\ spender[c].pc = "failed" /\ Leaves(c)
    /\ Undo(spender[c].id)
    /\ UNCHANGED <<today, spent, uncovered>>

cleanupExpired(c) ==
    /\ spender[c].pc = "idle" /\ Expired # {}
    /\ spender' = [spender EXCEPT ![c] = [NoCall EXCEPT !.pc = "sweep", !.todo = Expired]]
    /\ UNCHANGED <<budget, reservation, today, spent, uncovered>>

SweepEnds(c) ==
    /\ spender[c].pc = "sweep" /\ spender[c].todo = {} /\ Leaves(c)
    /\ UNCHANGED <<budget, reservation, today, spent, uncovered>>

\* The process dies, or a transaction of its own fails.
SpenderDies(c) ==
    /\ spender[c].pc # "idle" /\ Leaves(c)
    /\ uncovered' = IF spender[c].pc = "paid" THEN uncovered \union {spender[c].day} ELSE uncovered
    /\ UNCHANGED <<budget, reservation, today, spent>>

ReservationExpires(r) ==
    /\ Held(r) /\ ~reservation[r].expired
    /\ reservation' = [reservation EXCEPT ![r].expired = TRUE]
    /\ UNCHANGED <<budget, spender, today, spent, uncovered>>

Midnight ==
    /\ today < MaxDay /\ today' = today + 1
    /\ UNCHANGED <<budget, reservation, spender, spent, uncovered>>

BudgetNext ==
    \/ \E c \in Spender :
         \/ \E estimate \in Estimates, cap \in Caps : StartReserve(c, estimate, cap)
         \/ Reclaim(c) \/ ReclaimFails(c) \/ Reserve(c)
         \/ \E cost \in Costs : Pays(c, cost)
         \/ CallFails(c) \/ commit(c) \/ rollback(c)
         \/ cleanupExpired(c) \/ SweepEnds(c) \/ SpenderDies(c)
    \/ \E r \in Reservation : ReservationExpires(r)
    \/ Midnight

BudgetSpec == BudgetInit /\ [][BudgetNext]_budgetVars

\* The header's "never an over-spend", for what the ledger can know: on a day on which every
\* call cost at most its estimate and was settled while its reservation stood, the calls have
\* not cost more than the cap of the day, whoever raced with whom, whatever was reclaimed and
\* on whichever side of midnight it was settled.
NeverOverspent ==
    \A d \in Day \ uncovered : budget[d].cap = NoCap \/ spent[d] <= budget[d].cap
================================================================================
