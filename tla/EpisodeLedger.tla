---------------------------- MODULE EpisodeLedger ----------------------------
(***************************************************************************)
(* The episode ledger and the code that drives it: the scheduler queue, the *)
(* admission of items as episodes, the fenced worker attempts a runner      *)
(* starts and finishes, supersession, restart recovery, and the drain and   *)
(* kill controls of an owner epoch.                                         *)
(*                                                                          *)
(* Every SQLite write transaction is one step; SQLite serialises writers.   *)
(* What a process reads before a transaction is kept in adm (the admission  *)
(* loop) and work (a runner that executes an attempt), so another process   *)
(* may act in between.  A transaction that fails rolls back and leaves the  *)
(* ledger as it was.                                                        *)
(*                                                                          *)
(* An episode is named by its scheduler item: episodes.scheduler_item_id is *)
(* unique.  The owner lease is OwnerFence, which RuntimeOwner implements.   *)
(***************************************************************************)
EXTENDS OwnerFence, Naturals, FiniteSets, Sequences, TLC

CONSTANTS
    Runtimes,           \* epochs of runtime processes; the others are operator commands
    Runners,            \* goroutines that call RunOnce
    RunnerOf,           \* the process a runner belongs to
    Items,              \* scheduler items, and the episodes admitted from them
    SituationOf,        \* the Situation of an item
    TriggerOf,          \* the trigger that queued an item
    Reconsiderations,   \* the items of kind reconsider
    Attempts,           \* attempt ids; their number bounds a behaviour
    NoAttempt,          \* current_attempt_id IS NULL
    NoItem,             \* the admission loop has polled nothing
    MaxAttempts,        \* maxEpisodeAttempts, 3 in the code
    MaxRebinds          \* maxStaleRebinds, 3 in the code

ASSUME RuntimesAssumption == Runtimes \subseteq Epochs
ASSUME RunnersAssumption == RunnerOf \in [Runners -> Runtimes]
ASSUME ItemsAssumption == NoItem \notin Items /\ Reconsiderations \subseteq Items
ASSUME AttemptsAssumption == NoAttempt \notin Attempts
ASSUME BudgetAssumption == MaxAttempts \in Nat \ {0} /\ MaxRebinds \in Nat

VARIABLES
    proc,       \* a process is new, up or down
    control,    \* epoch_control.state of a runtime epoch
    item,       \* scheduler_items.status
    fresh,      \* items bound, like their episodes, to the live Situation version
    ep,         \* the episodes row of an item
    order,      \* episodes in the order of accepted_at
    att,        \* episode_attempts rows
    decided,    \* attempts whose Decision was accepted, per episode
    cost,       \* cost_reservations.status, and whether the actual cost was zero
    adm,        \* what the admission loop of a process holds between transactions
    work        \* the attempt a runner is executing

ledgerVars == <<item, fresh, ep, order, att, decided, cost>>
vars == <<owner, valid, retired, proc, control, ledgerVars, adm, work>>

LiveLifecycles == {"admitted", "running"}
ClosedLifecycles == {"concluded", "superseded", "abandoned"}
UnfinishedStatuses == {"dispatched", "running", "cancelling"}
FailureStatuses == {"failed", "timed_out", "cancelled"}
TerminalStatuses == FailureStatuses \cup {"produced", "declined", "abandoned"}

NoClaim == [ep |-> NoItem, att |-> NoAttempt, fence |-> 0]
NoEpisode == [life |-> "absent", cur |-> NoAttempt, fence |-> 0, epoch |-> NoEpoch, rebinds |-> 0]
NoRow == [st |-> "absent", ep |-> NoItem, fence |-> 0, owner |-> NoEpoch]

Lifecycles == {"absent"} \cup LiveLifecycles \cup ClosedLifecycles
Episodes == [life : Lifecycles, cur : Attempts \cup {NoAttempt}, fence : Nat,
             epoch : Runtimes \cup {NoEpoch}, rebinds : Nat]
Rows == [st : {"absent"} \cup UnfinishedStatuses \cup TerminalStatuses,
         ep : Items \cup {NoItem}, fence : Nat, owner : Runtimes \cup {NoEpoch}]
Claims == [ep : Items \cup {NoItem}, att : Attempts \cup {NoAttempt}, fence : Nat]
Polls == [item : Items \cup {NoItem}, step : {"idle", "admit", "skip"}]
Idle == [item |-> NoItem, step |-> "idle"]

\* Every variable holds a value its columns and Go types admit.
TypeOK ==
    /\ OwnerTypeOK
    /\ proc \in [Runtimes -> {"new", "up", "down"}]
    /\ control \in [Runtimes -> {"none", "draining", "killed"}]
    /\ item \in [Items -> {"absent", "pending", "admitted", "coalesced", "expired"}]
    /\ fresh \subseteq Items
    /\ ep \in [Items -> Episodes]
    /\ order \in Seq(Items)
    /\ att \in [Attempts -> Rows]
    /\ decided \in [Items -> SUBSET Attempts]
    /\ cost \in [Items -> {"none", "reserved", "released", "spent"}]
    /\ adm \in [Runtimes -> Polls]
    /\ work \in [Runners -> Claims]

Init ==
    /\ OwnerInit
    /\ proc = [p \in Runtimes |-> "new"]
    /\ control = [p \in Runtimes |-> "none"]
    /\ item = [i \in Items |-> "absent"]
    /\ fresh = {}
    /\ ep = [i \in Items |-> NoEpisode]
    /\ order = <<>>
    /\ att = [a \in Attempts |-> NoRow]
    /\ decided = [i \in Items |-> {}]
    /\ cost = [i \in Items |-> "none"]
    /\ adm = [p \in Runtimes |-> Idle]
    /\ work = [r \in Runners |-> NoClaim]

Live(e) == ep[e].life \in LiveLifecycles
Closed(e) == ep[e].life \in ClosedLifecycles
Unfinished(a) == att[a].st \in UnfinishedStatuses
AttemptsOf(e) == {a \in Attempts : att[a].st # "absent" /\ att[a].ep = e}
Killed(e) == ep[e].epoch \in Runtimes /\ control[ep[e].epoch] = "killed"

\* Fault: the index is missing.
MayBeLiveUnindexed(e) == TRUE

\* The unique index one_live_episode_per_situation lets e become live.
MayBeLive(e) == \A f \in Items \ {e} : SituationOf[f] = SituationOf[e] => ~Live(f)

\* Settle accepts a reservation, or a settlement with the same actual cost.
MaySettle(e, actual) == cost[e] \in {"reserved", actual}
----------------------------------------------------------------------------
(* Processes and the owner lease. *)

\* Faults: recovery forgets running attempts, or rewrites finished ones.
OrphansNotRunning(p) ==
    {a \in Attempts : att[a].st \in {"dispatched", "cancelling"} /\ att[a].owner # p}
OrphansAnyStatus(p) == {a \in Attempts : att[a].st # "absent" /\ att[a].owner # p}

\* Unfinished attempts of older epochs that the recovery of epoch p abandons.
OrphansOf(p) == {a \in Attempts : Unfinished(a) /\ att[a].owner # p}

\* Episodes the recovery of epoch p ends because their attempt was being cancelled.
CancelledBy(p) == {att[a].ep : a \in {b \in OrphansOf(p) : att[b].st = "cancelling"}}

\* RecoverUnfinishedAttempts, inside the transaction that claims the lease.
RecoverUnfinishedAttempts(p) ==
    /\ \A e \in CancelledBy(p) : MaySettle(e, "released")
    /\ att' = [a \in Attempts |->
                 IF a \in OrphansOf(p) THEN [att[a] EXCEPT !.st = "abandoned"] ELSE att[a]]
    /\ ep' = [e \in Items |->
                IF e \in CancelledBy(p) /\ ~Closed(e)
                THEN [ep[e] EXCEPT !.life = "abandoned"] ELSE ep[e]]
    /\ cost' = [e \in Items |-> IF e \in CancelledBy(p) THEN "released" ELSE cost[e]]

\* A runtime process claims the lease, recovers what older owners left, serves.
Start(p) ==
    /\ proc[p] = "new"
    /\ Take(p)
    /\ RecoverUnfinishedAttempts(p)
    /\ proc' = [proc EXCEPT ![p] = "up"]
    /\ UNCHANGED <<control, item, fresh, order, decided, adm, work>>

\* The heartbeat prolongs the lease of the process that still owns it.
Renew(p) ==
    /\ proc[p] = "up"
    /\ owner = p
    /\ Take(p)
    /\ UNCHANGED <<proc, control, ledgerVars, adm, work>>

\* An operator command claims the lease for one change and recovers nothing.
OperatorClaim(o) ==
    /\ o \notin Runtimes
    /\ Take(o)
    /\ UNCHANGED <<proc, control, ledgerVars, adm, work>>

\* The lease expires, or its owner releases it.
LeaseEnds ==
    /\ Lapse
    /\ UNCHANGED <<proc, control, ledgerVars, adm, work>>

\* A process dies; what its loops held in memory is gone.
Crash(p) ==
    /\ proc[p] = "up"
    /\ proc' = [proc EXCEPT ![p] = "down"]
    /\ adm' = [adm EXCEPT ![p] = Idle]
    /\ work' = [r \in Runners |-> IF RunnerOf[r] = p THEN NoClaim ELSE work[r]]
    /\ UNCHANGED <<owner, valid, retired, control, ledgerVars>>

\* Drain refuses new admission under the epoch; it never rewrites a kill.
Drain(p) ==
    /\ proc[p] = "up"
    /\ control[p] = "none"
    /\ control' = [control EXCEPT ![p] = "draining"]
    /\ UNCHANGED <<owner, valid, retired, proc, ledgerVars, adm, work>>

\* Admitted episodes of the epoch that hold a reservation and never started.
UnstartedReserved(p) ==
    {e \in Items : /\ ep[e].epoch = p
                   /\ ep[e].life = "admitted"
                   /\ ep[e].cur = NoAttempt
                   /\ cost[e] = "reserved"}

\* Kill supersedes the epoch's live episodes and releases the unstarted ones.
Kill(p) ==
    /\ proc[p] = "up"
    /\ control' = [control EXCEPT ![p] = "killed"]
    /\ ep' = [e \in Items |->
                IF ep[e].epoch = p /\ Live(e) THEN [ep[e] EXCEPT !.life = "superseded"] ELSE ep[e]]
    /\ cost' = [e \in Items |-> IF e \in UnstartedReserved(p) THEN "released" ELSE cost[e]]
    /\ UNCHANGED <<owner, valid, retired, proc, item, fresh, order, att, decided, adm, work>>
----------------------------------------------------------------------------
(* The scheduler queue and admission. *)

\* A Situation version is published and its triggers are evaluated in the same
\* transaction: new items queue at most one per trigger.
NewItems(s, new) ==
    /\ new \subseteq {i \in Items : item[i] = "absent" /\ SituationOf[i] = s}
    /\ \A i, j \in new : TriggerOf[i] = TriggerOf[j] => i = j

\* Items of a trigger that a new item of the same trigger coalesces.
CoalescedBy(new) ==
    {i \in Items : /\ item[i] \in {"pending", "admitted"}
                   /\ \E n \in new \ Reconsiderations :
                        /\ TriggerOf[n] = TriggerOf[i]
                        /\ SituationOf[n] = SituationOf[i]}

\* Items whose live episodes SupersedeCoalesced supersedes.
SupersededBy(s, new) ==
    {i \in Items : /\ new \ Reconsiderations # {}
                   /\ SituationOf[i] = s
                   /\ item[i] = "coalesced" \/ i \in CoalescedBy(new)}

\* The engine publishes a version of Situation s and cognition queues new.
Publish(p, s, new) ==
    /\ proc[p] = "up"
    /\ Holds(p)
    /\ NewItems(s, new)
    /\ fresh' = {i \in fresh : SituationOf[i] # s} \cup new
    /\ item' = [i \in Items |-> IF i \in new THEN "pending"
                                ELSE IF i \in CoalescedBy(new) THEN "coalesced" ELSE item[i]]
    /\ ep' = [i \in Items |->
                IF i \in SupersededBy(s, new) /\ Live(i)
                THEN [ep[i] EXCEPT !.life = "superseded"] ELSE ep[i]]
    /\ att' = [a \in Attempts |->
                 IF /\ att[a].st \in {"dispatched", "running"}
                    /\ att[a].ep \in SupersededBy(s, new)
                    /\ ep'[att[a].ep].life = "superseded"
                 THEN [att[a] EXCEPT !.st = "cancelling"] ELSE att[a]]
    /\ UNCHANGED <<owner, valid, retired, proc, control, order, decided, cost, adm, work>>

\* The admission loop checks the drain state and polls the queue, outside any
\* transaction.
Poll(p) ==
    /\ proc[p] = "up"
    /\ adm[p] = Idle
    /\ control[p] = "none"
    /\ \E i \in Items : /\ item[i] = "pending"
                        /\ adm' = [adm EXCEPT ![p] = [item |-> i, step |-> "admit"]]
    /\ UNCHANGED <<owner, valid, retired, proc, control, ledgerVars, work>>

\* Reserve the cost, insert the episode, mark the item admitted.
Admit(p) ==
    LET i == adm[p].item IN
    /\ adm[p].step = "admit"
    /\ Holds(p)
    /\ item[i] = "pending"
    /\ cost[i] = "none"
    /\ MayBeLive(i)
    /\ cost' = [cost EXCEPT ![i] = "reserved"]
    /\ ep' = [ep EXCEPT ![i] = [NoEpisode EXCEPT !.life = "admitted", !.epoch = p]]
    /\ item' = [item EXCEPT ![i] = "admitted"]
    /\ order' = Append(order, i)
    /\ adm' = [adm EXCEPT ![p] = Idle]
    /\ UNCHANGED <<owner, valid, retired, proc, control, fresh, att, decided, work>>

\* The admission transaction refuses the item for good and rolls back: a
\* reconsideration met the live episode of its Situation, or the cost ceiling
\* or the fixture rule refused it.
RefuseAdmission(p) ==
    /\ adm[p].step = "admit"
    /\ Holds(p)
    /\ adm' = [adm EXCEPT ![p].step = "skip"]
    /\ UNCHANGED <<owner, valid, retired, proc, control, ledgerVars, work>>

\* A second transaction takes the refused item off the queue.
SkipItem(p) ==
    /\ adm[p].step = "skip"
    /\ Holds(p)
    /\ item[adm[p].item] = "pending"
    /\ item' = [item EXCEPT ![adm[p].item] = "coalesced"]
    /\ adm' = [adm EXCEPT ![p] = Idle]
    /\ UNCHANGED <<owner, valid, retired, proc, control, fresh, ep, order, att, decided, cost, work>>

\* The item waits behind the live episode of its Situation, or the transaction
\* failed: the owner lost the lease, or the item is no longer pending.
GiveUpAdmission(p) ==
    /\ adm[p] # Idle
    /\ \/ ~Holds(p)
       \/ item[adm[p].item] # "pending"
       \/ adm[p].step = "admit" /\ ~MayBeLive(adm[p].item)
    /\ adm' = [adm EXCEPT ![p] = Idle]
    /\ UNCHANGED <<owner, valid, retired, proc, control, ledgerVars, work>>

\* A pending item that outlived expires_at, or cannot be read, leaves the queue.
ExpireItem(p, i) ==
    /\ proc[p] = "up"
    /\ adm[p] = Idle
    /\ Holds(p)
    /\ item[i] = "pending"
    /\ item' = [item EXCEPT ![i] = "expired"]
    /\ UNCHANGED <<owner, valid, retired, proc, control, fresh, ep, order, att, decided, cost, adm, work>>
----------------------------------------------------------------------------
(* Claiming an episode: one transaction per RunOnce. *)

\* Fault: an episode retained for a retry is not selected again.
DispatchableOnce(e) == ep[e].life = "admitted"

\* Live episodes, and unstarted ones whose epoch was killed.
Dispatchable(e) ==
    \/ Live(e)
    \/ ep[e].life = "superseded" /\ ep[e].cur = NoAttempt /\ Killed(e)

\* NextDispatchableEpisode: the oldest one.
NextDispatchable(e) ==
    \E k \in DOMAIN order :
        /\ order[k] = e
        /\ Dispatchable(e)
        /\ \A j \in 1..(k - 1) : ~Dispatchable(order[j])

\* A runner without an attempt, of a running process, selects episode e.
Selects(r, e) ==
    /\ proc[RunnerOf[r]] = "up"
    /\ work[r] = NoClaim
    /\ NextDispatchable(e)

\* DispatchBinding: the snapshot is current, or may be bound to the live one.
MayBind(e) == e \in fresh \/ ep[e].rebinds < MaxRebinds
BoundRebinds(e) == IF e \in fresh THEN ep[e].rebinds ELSE ep[e].rebinds + 1

\* The re-bind budget is spent: the episode is abandoned, its cost is kept.
QuarantineStale(r, e) ==
    /\ Selects(r, e)
    /\ ~MayBind(e)
    /\ ep' = [ep EXCEPT ![e].life = "abandoned"]
    /\ UNCHANGED <<owner, valid, retired, proc, control, item, fresh, order, att, decided, cost, adm, work>>

\* The live snapshot fails validation: abandoned, and one re-bind is consumed.
QuarantineRebindFailure(r, e) ==
    /\ Selects(r, e)
    /\ e \notin fresh
    /\ MayBind(e)
    /\ ep' = [ep EXCEPT ![e].life = "abandoned", ![e].rebinds = BoundRebinds(e)]
    /\ UNCHANGED <<owner, valid, retired, proc, control, item, fresh, order, att, decided, cost, adm, work>>

\* The recorded epoch was killed: abandoned, and the reservation is released.
QuarantineRefusedEpoch(r, e) ==
    /\ Selects(r, e)
    /\ MayBind(e)
    /\ Killed(e)
    /\ MaySettle(e, "released")
    /\ fresh' = fresh \cup {e}
    /\ ep' = [ep EXCEPT ![e].life = "abandoned", ![e].rebinds = BoundRebinds(e)]
    /\ cost' = [cost EXCEPT ![e] = "released"]
    /\ UNCHANGED <<owner, valid, retired, proc, control, item, order, att, decided, adm, work>>

\* Fault: the last attempt may still be unfinished.
StartableAnyPrior(e) == Live(e)

\* requireStartableEpisode: a live episode whose last attempt is terminal.
Startable(e) == Live(e) /\ \A a \in Attempts : Unfinished(a) => ep[e].cur # a

\* The episode is fenced to a new attempt a, which starts running.
StartAttempt(r, e, a) ==
    LET p == RunnerOf[r]
        next == ep[e].fence + 1 IN
    /\ Selects(r, e)
    /\ MayBind(e)
    /\ ~Killed(e)
    /\ Holds(p)
    /\ Startable(e)
    /\ att[a] = NoRow
    /\ att' = [att EXCEPT ![a] = [st |-> "running", ep |-> e, fence |-> next, owner |-> p]]
    /\ ep' = [ep EXCEPT ![e].life = "running", ![e].cur = a, ![e].fence = next,
                        ![e].rebinds = BoundRebinds(e)]
    /\ fresh' = fresh \cup {e}
    /\ work' = [work EXCEPT ![r] = [ep |-> e, att |-> a, fence |-> next]]
    /\ UNCHANGED <<owner, valid, retired, proc, control, item, order, decided, cost, adm>>
----------------------------------------------------------------------------
(* Recording the result of an executed attempt: one transaction, after an   *)
(* execution during which everything else may happen.                       *)

CanTransitionAttempt(from, to) ==
    \/ from = "dispatched" /\ to \in FailureStatuses \cup {"running", "cancelling", "abandoned"}
    \/ from = "running" /\ to \in TerminalStatuses \cup {"cancelling"}
    \/ from = "cancelling" /\ to \in FailureStatuses \cup {"abandoned"}

\* Fault: the owner lease is not asserted with the result.
MayTransitionUnowned(c, p, to) ==
    /\ ep[c.ep].cur = c.att
    /\ ep[c.ep].fence = c.fence
    /\ \/ ~Closed(c.ep) /\ att[c.att].owner = p
       \/ Closed(c.ep) /\ to \in {"cancelling", "cancelled", "abandoned"}
    /\ CanTransitionAttempt(att[c.att].st, to)

\* TransitionAttempt accepts the worker identity c under epoch p: it is the
\* current attempt and fence, p holds the lease, and the episode is open; on a
\* closed one only a cancellation may be acknowledged.
MayTransition(c, p, to) ==
    /\ ep[c.ep].cur = c.att
    /\ ep[c.ep].fence = c.fence
    /\ Holds(p)
    /\ \/ ~Closed(c.ep) /\ att[c.att].owner = p
       \/ Closed(c.ep) /\ to \in {"cancelling", "cancelled", "abandoned"}
    /\ CanTransitionAttempt(att[c.att].st, to)

\* CountFailedAttempts, after attempt a became a failure.
FailedAttempts(e, a) == {b \in AttemptsOf(e) : att[b].st \in FailureStatuses} \cup {a}
ShouldRetry(e, a) ==
    ep[e].life # "superseded" /\ Cardinality(FailedAttempts(e, a)) < MaxAttempts

\* The execution failed: the episode keeps running for another attempt, or
\* ends and releases its reservation.
RecordFailure(r, status) ==
    LET c == work[r] IN
    /\ c # NoClaim
    /\ MayTransition(c, RunnerOf[r], status)
    /\ att' = [att EXCEPT ![c.att].st = status]
    /\ \/ /\ ShouldRetry(c.ep, c.att)
          /\ MayBeLive(c.ep)
          /\ ep' = [ep EXCEPT ![c.ep].life = "running"]
          /\ UNCHANGED cost
       \/ /\ ~ShouldRetry(c.ep, c.att)
          /\ MaySettle(c.ep, "released")
          /\ ep' = IF ep[c.ep].life = "superseded" THEN ep ELSE [ep EXCEPT ![c.ep].life = "concluded"]
          /\ cost' = [cost EXCEPT ![c.ep] = "released"]
    /\ work' = [work EXCEPT ![r] = NoClaim]
    /\ UNCHANGED <<owner, valid, retired, proc, control, item, fresh, order, decided, adm>>

\* Fault: the episode is not concluded with its attempt.
RecordWithoutConcluding(r, status, actual) ==
    LET c == work[r] IN
    /\ c # NoClaim
    /\ ~Killed(c.ep)
    /\ MayTransition(c, RunnerOf[r], status)
    /\ MaySettle(c.ep, actual)
    /\ att' = [att EXCEPT ![c.att].st = status]
    /\ decided' = IF status = "produced" THEN [decided EXCEPT ![c.ep] = @ \cup {c.att}] ELSE decided
    /\ cost' = [cost EXCEPT ![c.ep] = actual]
    /\ work' = [work EXCEPT ![r] = NoClaim]
    /\ UNCHANGED <<owner, valid, retired, proc, control, item, fresh, ep, order, adm>>

\* The worker returned an outcome: status is produced when it carries a valid
\* Decision, failed when the Decision is invalid.  The actual cost is settled
\* and the episode concluded.
RecordOutcome(r, status, actual) ==
    LET c == work[r] IN
    /\ c # NoClaim
    /\ ~Killed(c.ep)
    /\ MayTransition(c, RunnerOf[r], status)
    /\ MaySettle(c.ep, actual)
    /\ att' = [att EXCEPT ![c.att].st = status]
    /\ decided' = IF status = "produced" THEN [decided EXCEPT ![c.ep] = @ \cup {c.att}] ELSE decided
    /\ cost' = [cost EXCEPT ![c.ep] = actual]
    /\ ep' = [ep EXCEPT ![c.ep].life = "concluded"]
    /\ work' = [work EXCEPT ![r] = NoClaim]
    /\ UNCHANGED <<owner, valid, retired, proc, control, item, fresh, order, adm>>

\* The worker returned an outcome after its epoch was killed.
AbandonAfterExecute(r, actual) ==
    LET c == work[r] IN
    /\ c # NoClaim
    /\ Killed(c.ep)
    /\ MayTransition(c, RunnerOf[r], "abandoned")
    /\ MaySettle(c.ep, actual)
    /\ att' = [att EXCEPT ![c.att].st = "abandoned"]
    /\ cost' = [cost EXCEPT ![c.ep] = actual]
    /\ ep' = [ep EXCEPT ![c.ep].life = "abandoned"]
    /\ work' = [work EXCEPT ![r] = NoClaim]
    /\ UNCHANGED <<owner, valid, retired, proc, control, item, fresh, order, decided, adm>>

OutcomeStatuses == FailureStatuses \cup {"produced", "declined"}
Actuals == {"released", "spent"}

\* The result is refused and its transaction rolls back.
RefuseResult(r) ==
    LET c == work[r] IN
    /\ c # NoClaim
    /\ \/ ~MayBeLive(c.ep)
       \/ \E s \in OutcomeStatuses : ~MayTransition(c, RunnerOf[r], s)
    /\ work' = [work EXCEPT ![r] = NoClaim]
    /\ UNCHANGED <<owner, valid, retired, proc, control, ledgerVars, adm>>
----------------------------------------------------------------------------
AdmissionLoop(p) == Poll(p) \/ Admit(p) \/ RefuseAdmission(p) \/ SkipItem(p) \/ GiveUpAdmission(p)

Serve(p) ==
    \/ Start(p) \/ Renew(p) \/ Drain(p) \/ Kill(p) \/ AdmissionLoop(p)
    \/ \E i \in Items : ExpireItem(p, i) \/ \E new \in SUBSET Items : Publish(p, SituationOf[i], new)

ClaimEpisode(r) ==
    \E e \in Items :
        \/ QuarantineStale(r, e) \/ QuarantineRebindFailure(r, e) \/ QuarantineRefusedEpoch(r, e)
        \/ \E a \in Attempts : StartAttempt(r, e, a)

RecordExecution(r) ==
    \/ \E s \in FailureStatuses : RecordFailure(r, s)
    \/ \E s \in OutcomeStatuses, actual \in Actuals : RecordOutcome(r, s, actual)
    \/ \E actual \in Actuals : AbandonAfterExecute(r, actual)
    \/ RefuseResult(r)

\* What a process does while it neither dies nor loses the lease.
Work ==
    \/ \E p \in Runtimes : Serve(p)
    \/ \E r \in Runners : ClaimEpisode(r) \/ RecordExecution(r)

Next ==
    \/ Work
    \/ \E p \in Runtimes : Crash(p)
    \/ \E o \in Epochs : OperatorClaim(o)
    \/ LeaseEnds

Spec == Init /\ [][Next]_vars

\* The pipeline loop of a running process polls the queue and claims episodes on
\* every round, and an execution ends at its wall-time budget at the latest.
Fairness ==
    /\ \A p \in Runtimes : WF_vars(AdmissionLoop(p))
    /\ \A r \in Runners : WF_vars(ClaimEpisode(r)) /\ WF_vars(RecordExecution(r))

\* Behaviours in which no process dies and no lease ends.
UndisturbedSpec == Init /\ [][Work]_vars /\ Fairness
----------------------------------------------------------------------------
(* Properties. *)

\* An attempt that is not finished is the current attempt of its episode and
\* carries its fence, so no episode ever has two of them (CheckIdentity and
\* CheckPriorAttemptTerminal in the ledger's fence rules).
AttemptFencing ==
    \A a \in Attempts : Unfinished(a) =>
        /\ att[a].ep \in Items
        /\ ep[att[a].ep].cur = a
        /\ ep[att[a].ep].fence = att[a].fence

\* While the lease row names a runtime process, every unfinished attempt is its
\* own: ClaimAndRecover abandoned the attempts of all earlier owners, and none
\* of them can start or revive one afterwards, not even while the lease has
\* run out and before its owner renews it.
RecoveryComplete ==
    owner \in Runtimes => \A a \in Attempts : Unfinished(a) => att[a].owner = owner

\* An episode has at most one accepted Decision.  It comes from the current
\* attempt, which ended produced, and the episode is concluded for good
\* (concludeAttempt writes all three in one transaction).
OneDecision ==
    \A e \in Items : decided[e] # {} =>
        /\ decided[e] = {ep[e].cur}
        /\ att[ep[e].cur].st = "produced"
        /\ ep[e].life = "concluded"

\* A Decision is only accepted from a runner whose process holds the lease at
\* that moment, for an episode that is still live under an epoch that was not
\* killed: a late result of a superseded, abandoned or displaced attempt never
\* reaches governance.
DecisionGate ==
    [][\A e \in Items : decided'[e] # decided[e] =>
         /\ Live(e)
         /\ ~Killed(e)
         /\ \E r \in Runners : /\ work[r].ep = e
                               /\ work[r].att = ep[e].cur
                               /\ Holds(RunnerOf[r])]_vars

\* A reservation stays open exactly while it may still be needed: an episode
\* with an unfinished attempt holds its reservation, so recovery can always
\* release it, and a concluded episode has settled it.
ReservationHeld ==
    \A e \in Items :
        /\ ep[e].life = "concluded" => cost[e] \in Actuals
        /\ (\E a \in AttemptsOf(e) : Unfinished(a)) => cost[e] = "reserved"

\* A terminal attempt is never changed again and a settled reservation never
\* gets another amount (CanTransitionAttempt, NeedsSettlement).
SettledOnce ==
    [][/\ \A a \in Attempts : att[a].st \in TerminalStatuses => att'[a] = att[a]
       /\ \A e \in Items : cost[e] \in Actuals => cost'[e] = cost[e]]_vars

\* No Situation has two live episodes, retries and reconsiderations included
\* (one_live_episode_per_situation).
OneLiveEpisode ==
    \A e, f \in Items : Live(e) /\ Live(f) /\ SituationOf[e] = SituationOf[f] => e = f

\* The retry and re-bind budgets of an episode hold across restarts
\* (maxEpisodeAttempts, maxStaleRebinds).
BudgetsHold ==
    \A e \in Items :
        /\ Cardinality({a \in AttemptsOf(e) : att[a].st \in FailureStatuses}) <= MaxAttempts
        /\ ep[e].rebinds <= MaxRebinds

\* Without a crash or a lost lease, every live episode is finished one way or
\* another: retries, re-binds and the order of accepted_at never let one wait
\* for ever behind another (claimEpisodeInTx, retryOrConcludeFailedEpisode).
\* A model with too few attempt ids for all retries says nothing once the last
\* id is used.
EpisodesFinish == \A e \in Items : Live(e) ~> (~Live(e) \/ \A a \in Attempts : att[a] # NoRow)

\* Drain: "new episodes are refused at admission".  An episode only appears
\* under an epoch that is neither draining nor killed.
DrainRefusesAdmission ==
    [][\A e \in Items : ep[e].life = "absent" /\ ep'[e].life # "absent" =>
         control[ep'[e].epoch] = "none"]_vars

\* "Closed reports whether the episode lifecycle is terminal": a closed episode
\* never becomes live again.
ClosedIsTerminal ==
    [][\A e \in Items : Closed(e) => ep'[e].life \notin LiveLifecycles]_vars

-----------------------------------------------------------------------------
(* Instances for TLC.  All items belong to one Situation and one trigger,   *)
(* so a second item coalesces the first one.                                *)

\* One runner in each of two processes, or every runner in one process.
MCRunnerOf == [w \in Runners |-> IF w = "w1" THEN "r1" ELSE "r2"]
MCOneProcess == [w \in Runners |-> "r1"]

MCSituationOf == [i \in Items |-> "s1"]
MCTriggerOf == [i \in Items |-> "t1"]

AttemptSymmetry == Permutations(Attempts)
=============================================================================
