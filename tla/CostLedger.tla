------------------------------ MODULE CostLedger ------------------------------
(* The cost ledger: an admitted episode reserves its budget against the      *)
(* global limit and, when one is configured, its tenant's; the transaction   *)
(* that ends the episode moves the reservation to what was spent.  Every     *)
(* action is one transaction; one that fails leaves nothing behind.          *)
(* EpisodeLedger has the lifecycles in full; here they are kept as far as    *)
(* they decide what is reserved and settled.                                 *)
EXTENDS Integers, FiniteSets, FiniteSetsExt, Functions, TLC

CONSTANTS
    Episodes,      \* episodes that may be admitted
    Tenants,       \* the tenants they belong to
    Global,        \* the scope of the global limit
    Amounts,       \* budgets an episode may be admitted with, 0: unestimated
    Unset,         \* a setting left out of the configuration
    NoLimit,       \* a scope without a limit row
    NoReservation, \* an episode that was not admitted
    Configured,    \* the limits the database holds at the first start
    Settings       \* the deployments to check, by name

VARIABLES
    limit,       \* cost_limits: [Scopes -> row or NoLimit]
    reservation, \* cost_reservations: [Episodes -> row or NoReservation]
    life,        \* lifecycle of the episode
    configured,  \* configurations applied, and the switch of the last one
    setting      \* the deployment, chosen once

vars == <<limit, reservation, life, configured>>

\* The parameters of the chosen setting.
Costs == Settings[setting].costs
Ceilings == Settings[setting].ceilings
MaxConfigured == Settings[setting].maxConfigured

Scopes == Tenants \cup {Global}

ScopesOf(tenant) == {scope \in {Global, tenant} : limit[scope] # NoLimit}

--------------------------------------------------------------------------------
(* An unestimated episode is refused wherever a ceiling or a switch is set.  *)
requireNoActiveCostControl(tenant) ==
    \A scope \in ScopesOf(tenant) : limit[scope].max = 0 /\ ~limit[scope].kill

ReserveAvailable(scope, amount) ==
    /\ ~limit[scope].kill
    /\ limit[scope].max = 0 \/ limit[scope].max >= limit[scope].spent + limit[scope].reserved + amount

CanReserve(tenant, amount) ==
    /\ limit[Global] # NoLimit
    /\ amount = 0 => requireNoActiveCostControl(tenant)
    /\ \A scope \in ScopesOf(tenant) : ReserveAvailable(scope, amount)

(* counted, the limits that hold the amount, is not a column: it remembers   *)
(* which rows there were when the reservation was made.                      *)
InsertReservation(e, tenant, amount) ==
    reservation' = [reservation EXCEPT ![e] =
        [tenant |-> tenant, reserved |-> amount, actual |-> 0, status |-> "reserved", counted |-> ScopesOf(tenant)]]

Reserve(e, tenant, amount) ==
    /\ CanReserve(tenant, amount)
    /\ InsertReservation(e, tenant, amount)
    /\ limit' = [scope \in Scopes |->
           IF scope \in ScopesOf(tenant) THEN [limit[scope] EXCEPT !.reserved = @ + amount] ELSE limit[scope]]

(* Fault: the amount is taken off the row whether or not the row holds it.   *)
SettleUnclamped(row, reserved, actual) ==
    [row EXCEPT !.reserved = @ - reserved,
                !.spent = @ + actual,
                !.kill = @ \/ (row.max > 0 /\ row.spent + actual >= row.max)]

SettleLimit(row, reserved, actual) ==
    [row EXCEPT !.reserved = Max({0, @ - reserved}),
                !.spent = @ + actual,
                !.kill = @ \/ (row.max > 0 /\ row.spent + actual >= row.max)]

RecordSettlement(e, actual) ==
    reservation' = [reservation EXCEPT ![e].actual = actual, ![e].status = "settled"]

NeedsSettlement(e) == reservation[e].status = "reserved"

(* A settled reservation takes only a repeat of its cost.                    *)
Settle(e, actual) ==
    /\ reservation[e] # NoReservation
    /\ \/ /\ NeedsSettlement(e)
          /\ RecordSettlement(e, actual)
          /\ limit' = [scope \in Scopes |->
                 IF scope \in ScopesOf(reservation[e].tenant)
                 THEN SettleLimit(limit[scope], reservation[e].reserved, actual) ELSE limit[scope]]
       \/ /\ reservation[e].status = "settled"
          /\ reservation[e].actual = actual
          /\ UNCHANGED <<reservation, limit>>

--------------------------------------------------------------------------------
(* Admission reserves and admits in one transaction.                         *)
Persist(e, tenant, amount) ==
    /\ life[e] = "new"
    /\ Reserve(e, tenant, amount)
    /\ life' = [life EXCEPT ![e] = "admitted"]
    /\ UNCHANGED configured

(* A refused reservation rolls back and the work is skipped.                 *)
SkipCostRejected(e, tenant, amount) ==
    /\ life[e] = "new"
    /\ limit[Global] # NoLimit
    /\ ~CanReserve(tenant, amount)
    /\ life' = [life EXCEPT ![e] = "skipped"]
    /\ UNCHANGED <<limit, reservation, configured>>

ClaimEpisode(e) ==
    /\ life[e] = "admitted"
    /\ life' = [life EXCEPT ![e] = "running"]
    /\ UNCHANGED <<limit, reservation, configured>>

(* A claim that finds the Situation moved on once too often, or its snapshot *)
(* invalid, abandons the episode.                                            *)
QuarantineStale(e) ==
    /\ life[e] = "admitted"
    /\ life' = [life EXCEPT ![e] = "ended"]
    /\ UNCHANGED <<limit, reservation, configured>>

(* A claim under a killed or unbound epoch abandons and settles nothing      *)
(* spent.                                                                    *)
QuarantineRefusedEpoch(e) ==
    /\ life[e] = "admitted"
    /\ Settle(e, 0)
    /\ life' = [life EXCEPT ![e] = "ended"]
    /\ UNCHANGED configured

(* A usable outcome, governed or abandoned by a kill, settles its cost.      *)
ConcludeAttempt(e, actual) ==
    /\ life[e] = "running"
    /\ Settle(e, actual)
    /\ life' = [life EXCEPT ![e] = "ended"]
    /\ UNCHANGED configured

(* A failed attempt is retried, its reservation kept, until the budget of    *)
(* attempts is spent; a restart also requeues a running attempt.             *)
RetainForRetry(e) ==
    /\ life[e] = "running"
    /\ life' = [life EXCEPT ![e] = "admitted"]
    /\ UNCHANGED <<limit, reservation, configured>>

ConcludeFailed(e) ==
    /\ life[e] \in {"running", "cancelling"}
    /\ Settle(e, 0)
    /\ life' = [life EXCEPT ![e] = "ended"]
    /\ UNCHANGED configured

(* A newer version supersedes the episode; its attempt, if any, is cancelled *)
(* and settles when it ends or is recovered.                                 *)
Supersede(e) ==
    /\ life[e] \in {"admitted", "running"}
    /\ life' = [life EXCEPT ![e] = IF @ = "running" THEN "cancelling" ELSE "ended"]
    /\ UNCHANGED <<limit, reservation, configured>>

--------------------------------------------------------------------------------
(* An operator's configuration, applied at a start.                          *)
valueOr(value, fallback) == IF value = Unset THEN fallback ELSE value

WriteLimit(row, max, kill) ==
    IF row = NoLimit THEN [max |-> max, kill |-> kill, reserved |-> 0, spent |-> 0]
    ELSE [row EXCEPT !.max = max, !.kill = kill]

applyGlobalCeiling(global, kill) ==
    IF global = Unset /\ kill = Unset THEN limit[Global]
    ELSE WriteLimit(limit[Global], valueOr(global, limit[Global].max), valueOr(kill, limit[Global].kill))

applyTenantCeiling(tenant, ceiling, kill) ==
    IF ceiling = Unset THEN limit[tenant]
    ELSE WriteLimit(limit[tenant], ceiling, valueOr(kill, FALSE))

ApplyCeilings(global, tenant, ceiling, kill) ==
    /\ configured.count < MaxConfigured
    /\ limit' = [limit EXCEPT ![Global] = applyGlobalCeiling(global, kill),
                              ![tenant] = applyTenantCeiling(tenant, ceiling, kill)]
    /\ configured' = [count |-> configured.count + 1, kill |-> kill]
    /\ UNCHANGED <<reservation, life>>

--------------------------------------------------------------------------------
Init ==
    /\ setting \in DOMAIN Settings
    /\ limit \in Configured
    /\ reservation = [e \in Episodes |-> NoReservation]
    /\ life = [e \in Episodes |-> "new"]
    /\ configured = [count |-> 0, kill |-> Unset]

Step ==
    \/ \E e \in Episodes :
          \/ \E tenant \in Tenants, amount \in Amounts : Persist(e, tenant, amount) \/ SkipCostRejected(e, tenant, amount)
          \/ ClaimEpisode(e)
          \/ QuarantineStale(e)
          \/ QuarantineRefusedEpoch(e)
          \/ \E actual \in Costs : ConcludeAttempt(e, actual)
          \/ RetainForRetry(e)
          \/ ConcludeFailed(e)
          \/ Supersede(e)
    \/ \E tenant \in Tenants, global, ceiling \in Ceilings \cup {Unset}, kill \in BOOLEAN \cup {Unset} :
          ApplyCeilings(global, tenant, ceiling, kill)

Next == Step /\ UNCHANGED setting

Spec == Init /\ [][Next]_<<vars, setting>>

--------------------------------------------------------------------------------

Of(scope) == {e \in Episodes : reservation[e] # NoReservation /\ scope \in {Global, reservation[e].tenant}}
Held(scope) == MapThenSumSet(LAMBDA e : reservation[e].reserved,
                             {e \in Of(scope) : reservation[e].status = "reserved"})
Spent(scope) == MapThenSumSet(LAMBDA e : reservation[e].actual, Of(scope))

\* Reservations made before the scope had a row, and what they may cost its sums.
Earlier(scope) == {e \in Of(scope) : scope \notin reservation[e].counted}
EarlierReserved(scope) == MapThenSumSet(LAMBDA e : reservation[e].reserved, Earlier(scope))
EarlierSpent(scope) == MapThenSumSet(LAMBDA e : reservation[e].actual, Earlier(scope))

(* A limit row is the sum of the reservations behind it, through every order *)
(* of admission, retry, settlement and configuration.  A row an operator     *)
(* creates late is settled against reservations it never held: it then       *)
(* misses no more than those, never falls below nothing and never holds or   *)
(* spends for anybody twice (SettleLimit, ReserveAvailable, WriteLimit).     *)
LimitsBalance ==
    \A scope \in {s \in Scopes : limit[s] # NoLimit} :
        /\ limit[scope].reserved \in Max({0, Held(scope) - EarlierReserved(scope)})..Held(scope)
        /\ limit[scope].spent \in Spent(scope) - EarlierSpent(scope)..Spent(scope)
================================================================================
