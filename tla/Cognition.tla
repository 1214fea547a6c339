----------------------------- MODULE Cognition -----------------------------
(* The cognitive scheduler: what happens to a Situation version once the   *)
(* engine publishes it.  In the publishing transaction every declared      *)
(* trigger is evaluated against the version and the one reasoned about     *)
(* before it; an admitted evaluation replaces the trigger's open work and  *)
(* queues a scheduler item with a time window; a corrected version queues  *)
(* one reconsideration for every succeeded command it invalidates.  The    *)
(* admission loop takes items from the queue.  Restricted expressions are  *)
(* abstracted to comparisons of the version's severity, and commands,      *)
(* approvals and episodes to what the scheduler reads or changes of them.  *)
EXTENDS Integers, FiniteSets, FiniteSetsExt, Sequences, SequencesExt

CONSTANTS
    Settings  \* the deployments to check, by name

VARIABLES
    versions,   \* situation_versions: [SituationKeys -> Seq(Shapes)]
    reasoned,   \* situations.last_reasoned_version
    material,   \* situations.last_material_version
    evals,      \* trigger_evaluations, by trigger id
    items,      \* scheduler_items, by trigger id
    episodes,   \* the episode of an admitted item
    recons,     \* reconsiderations: <<situation, superseded version, command>>
    commands,   \* intents with their commands
    asked,      \* pending approvals: <<situation, version>>
    told,       \* situation.superseded notifications: <<trigger id, replacement>>
    now,        \* the clock
    runtime,    \* the process: [mode, halts so far]
    setting     \* the deployment, chosen once

vars == <<versions, reasoned, material, evals, items, episodes, recons, commands, asked, told, now, runtime>>
queueVars == <<evals, items, episodes, asked, told>>

\* The parameters of the chosen setting.
SituationKeys == Settings[setting].situations
Triggers == Settings[setting].triggers
Shapes == Settings[setting].shapes
Reconsiders == Settings[setting].reconsiders
CommandIDs == Settings[setting].commands
Unreadable == Settings[setting].unreadable
AuditKeys == Settings[setting].auditKeys
Asks == Settings[setting].asks
globalCapacity == Settings[setting].capacity
MaxVersions == Settings[setting].maxVersions
LastEvent == Settings[setting].lastEvent
MaxTime == Settings[setting].maxTime
MaxHalts == Settings[setting].maxHalts

NoTime == 0
completenessRank == [uncertain |-> 0, provisional |-> 1, on_time |-> 2, corrected |-> 3, final_by_policy |-> 4]

TriggerID(s, v, tr) == [kind |-> "trigger", sit |-> s, v |-> v, name |-> tr.name]
ReconsiderationTriggerID(s, prev, c) == [kind |-> "reconsider", sit |-> s, v |-> prev, name |-> c]
AuditTriggerID(s, v, key) == [kind |-> "audit", sit |-> s, v |-> v, name |-> key]

Put(f, x, r) == [y \in DOMAIN f \cup {x} |-> IF y = x THEN r ELSE f[y]]

----------------------------------------------------------------------------
(* Trigger rules. *)

NoVersion == [none |-> TRUE]
First(prev) == prev = NoVersion
HasPreviousVersion(v) == v > 0

\* The version a new one is compared with: the last one that was evaluated.
lastReasonedVersion(s) ==
    IF HasPreviousVersion(reasoned[s]) THEN versions[s][reasoned[s]] ELSE NoVersion

\* The delta of two versions: the facts are the severity they are read from.
changeDelta(cur, prev) ==
    [phase_changed |-> cur.phase # prev.phase,
     facts_changed |-> cur.severity # prev.severity,
     severity_change |-> cur.severity - prev.severity]
firstVersionDelta(cur) ==
    [phase_changed |-> TRUE, facts_changed |-> TRUE, severity_change |-> cur.severity]
buildDelta(cur, prev) == IF First(prev) THEN firstVersionDelta(cur) ELSE changeDelta(cur, prev)

\* A trigger without a materialDelta expression accepts every change.
materialDelta(tr, delta) ==
    CASE tr.materialDelta = "" -> TRUE
      [] tr.materialDelta = "phase" -> delta.phase_changed
      [] tr.materialDelta = "facts" -> delta.facts_changed
      [] tr.materialDelta = "rise" -> delta.severity_change > 0

completenessMet(tr, completeness) ==
    \/ tr.completeness \in {"", "any"}
    \/ completenessRank[completeness] >= completenessRank[tr.completeness]

evalWhen(tr, cur) == cur.severity >= tr.when
evalScore(cur) == cur.severity

thresholdVerdict(tr, score) ==
    IF score < tr.threshold THEN [outcome |-> "ignored", reason |-> "below threshold"]
    ELSE [outcome |-> "admitted", reason |-> "meets threshold"]

\* Condition, completeness, material delta and threshold, in that order.
judgeTrigger(tr, cur, delta) ==
    CASE ~evalWhen(tr, cur) -> [outcome |-> "ignored", reason |-> "condition false"]
      [] evalWhen(tr, cur) /\ ~completenessMet(tr, cur.completeness) ->
            [outcome |-> "ignored", reason |-> "completeness"]
      [] /\ evalWhen(tr, cur) /\ completenessMet(tr, cur.completeness)
         /\ ~materialDelta(tr, delta) -> [outcome |-> "ignored", reason |-> "material delta false"]
      [] OTHER -> thresholdVerdict(tr, evalScore(cur))

Evaluate(s, v, tr, cur, prev) ==
    LET verdict == judgeTrigger(tr, cur, buildDelta(cur, prev))
    IN  [outcome |-> verdict.outcome, reasons |-> {verdict.reason}, version |-> v, at |-> now]

endsOccurrence(phase) == phase = "resolved"

\* A spec without triggers treats every version as material.
anyTriggerDeclaresMaterial(cur, prev) ==
    \/ Triggers = <<>>
    \/ \E t \in DOMAIN Triggers : materialDelta(Triggers[t], buildDelta(cur, prev))

Material(cur, prev) ==
    \/ First(prev)
    \/ endsOccurrence(cur.phase)
    \/ endsOccurrence(prev.phase)
    \/ anyTriggerDeclaresMaterial(cur, prev)

----------------------------------------------------------------------------
(* Timing and capacity.  q is the state of the queue within a transaction: *)
(* evals, items, episodes, asked and told as the steps so far left them.   *)

\* When the trigger last had work that neither waits nor was replaced.
LatestAdmittedTime(q, id) ==
    Max({NoTime} \cup
        {q.evals[e].at : e \in {x \in DOMAIN q.evals :
            /\ x.sit = id.sit /\ x.name = id.name /\ x # id
            /\ q.evals[x].outcome = "admitted"
            /\ ~(x \in DOMAIN q.items /\ q.items[x].status \in {"pending", "coalesced"})}})

latestAdmission(q, id, tr) == IF tr.cooldown = 0 THEN NoTime ELSE LatestAdmittedTime(q, id)

notBefore(tr, latest) ==
    LET debounced == IF tr.debounce > 0 THEN now + tr.debounce ELSE NoTime
        cooled == IF tr.cooldown > 0 /\ latest # NoTime THEN latest + tr.cooldown ELSE NoTime
    IN  Max({debounced, cooled})

mayStartAt(nb) == IF nb > now THEN nb ELSE now

ApplyTiming(q, id, tr) ==
    LET nb == notBefore(tr, latestAdmission(q, id, tr))
    IN  [notBefore |-> nb, expires |-> mayStartAt(nb) + tr.expiresAfter]

PendingIn(q) == {i \in DOMAIN q.items : q.items[i].status = "pending"}
CountPending(q) == Cardinality(PendingIn(q))
CountPendingSameTrigger(q, id) == Cardinality({i \in PendingIn(q) : i.sit = id.sit /\ i.name = id.name})

CapacityExhausted(pending, sameTrigger) == pending >= globalCapacity /\ sameTrigger = 0

capacityExhausted(q, id) == CapacityExhausted(CountPending(q), CountPendingSameTrigger(q, id))

----------------------------------------------------------------------------
(* Replacing a trigger's open work. *)

\* The items CoalesceTriggerItems takes out of the queue.
CoalesceTriggerWork(q, id) ==
    {i \in DOMAIN q.items : /\ i.sit = id.sit /\ i.name = id.name
                            /\ q.evals[i].outcome = "admitted"
                            /\ q.items[i].status \in {"pending", "admitted"}}

Coalesce(q, ids) ==
    [q EXCEPT !.items = [i \in DOMAIN q.items |->
        IF i \in ids THEN [q.items[i] EXCEPT !.status = "coalesced"] ELSE q.items[i]]]

\* Live episodes of every coalesced item of the situation are superseded.
SupersedeCoalesced(q, s) ==
    [q EXCEPT !.episodes = [i \in DOMAIN q.episodes |->
        IF i.sit = s /\ q.items[i].status = "coalesced" /\ q.episodes[i] = "live"
        THEN "superseded" ELSE q.episodes[i]]]

Supersedes(replacement, old) == old < replacement

announceSuperseded(q, ids, v) ==
    [q EXCEPT !.told = @ \cup {<<i, v>> : i \in {x \in ids : Supersedes(v, q.items[x].version)}}]

WithdrawSuperseded(q, s, v) == [q EXCEPT !.asked = {a \in @ : ~(a[1] = s /\ a[2] < v)}]

supersedePending(q, id, v) ==
    LET replaced == CoalesceTriggerWork(q, id)
    IN  WithdrawSuperseded(
            announceSuperseded(SupersedeCoalesced(Coalesce(q, replaced), id.sit), replaced, v),
            id.sit, v)

----------------------------------------------------------------------------
(* Admission to the queue. *)

NewSchedulerItem(kind, v, window) ==
    [status |-> "pending", kind |-> kind, version |-> v, created |-> now,
     notBefore |-> window.notBefore, expires |-> window.expires]

UpsertEvaluation(f, id, eval) == Put(f, id, eval)
saveEvaluation(q, id, eval) == [q EXCEPT !.evals = UpsertEvaluation(@, id, eval)]
insertItem(q, id, item) == [q EXCEPT !.items = Put(@, id, item)]

Defer(eval) == [eval EXCEPT !.outcome = "deferred", !.reasons = @ \cup {"global capacity exhausted"}]

deferEvaluation(q, id, eval) == saveEvaluation(q, id, Defer(eval))

\* The item's window is fixed before the trigger's earlier work is replaced.
enqueueOrDefer(q, id, eval, tr) ==
    LET item == NewSchedulerItem("standard", eval.version, ApplyTiming(q, id, tr))
    IN  IF capacityExhausted(q, id) THEN deferEvaluation(q, id, eval)
        ELSE insertItem(supersedePending(q, id, eval.version), id, item)

Admit(q, id, eval, tr) ==
    LET saved == saveEvaluation(q, id, eval)
    IN  IF eval.outcome = "admitted" THEN enqueueOrDefer(saved, id, eval, tr) ELSE saved

evaluateTriggers(q, s, v, cur, prev) ==
    FoldLeft(LAMBDA acc, tr : Admit(acc, TriggerID(s, v, tr), Evaluate(s, v, tr, cur, prev), tr),
             q, Triggers)

----------------------------------------------------------------------------
(* Reconsideration of corrected evidence. *)

ShouldReconsider(v, cur) == cur.completeness = "corrected" /\ v > 1 /\ Reconsiders

defaultExpiresAfter == 2
ReconsiderationExpiry == [notBefore |-> NoTime, expires |-> now + defaultExpiresAfter]

\* Succeeded commands of the latest version with an approved intent.
InvalidatedCommands(s, prev) ==
    LET approved == {c \in CommandIDs : commands[c].sit = s /\ commands[c].version \in 1..prev}
        latest == Max({0} \cup {commands[c].version : c \in approved})
    IN  {c \in approved : commands[c].version = latest /\ commands[c].status = "succeeded"}

ReconsiderationExists(s, prev, c) == <<s, prev, c>> \in recons

ReconsiderationEvaluation(v, c) ==
    IF c \in Unreadable
    THEN [outcome |-> "rejected", reasons |-> {"prior documents unavailable"}, version |-> v, at |-> now]
    ELSE [outcome |-> "admitted", reasons |-> {"action invalidated"}, version |-> v, at |-> now]

\* One invalidated command: the reconsideration, its evaluation and its item,
\* or a rejected evaluation when the prior documents cannot be read.
admitReconsideration(q, s, v, c) ==
    LET id == ReconsiderationTriggerID(s, v - 1, c)
        saved == saveEvaluation(q, id, ReconsiderationEvaluation(v, c))
    IN  IF c \in Unreadable THEN saved
        ELSE insertItem(saved, id, NewSchedulerItem("reconsider", v, ReconsiderationExpiry))

Admissible(s, v, cur) ==
    IF ShouldReconsider(v, cur)
    THEN {c \in InvalidatedCommands(s, v - 1) : ~ReconsiderationExists(s, v - 1, c)} ELSE {}

admitInvalidated(q, s, v, cur) ==
    FoldSet(LAMBDA c, acc : admitReconsideration(acc, s, v, c), q, Admissible(s, v, cur))

----------------------------------------------------------------------------
(* One transaction per published version. *)

markVersion(s, v, cur, prev) ==
    /\ material' = [material EXCEPT ![s] = IF Material(cur, prev) THEN v ELSE @]
    /\ reasoned' = [reasoned EXCEPT ![s] = v]

Process(s, cur) ==
    LET v == Len(versions[s]) + 1
        prev == lastReasonedVersion(s)
        start == [evals |-> evals, items |-> items, episodes |-> episodes, asked |-> asked, told |-> told]
        done == admitInvalidated(evaluateTriggers(start, s, v, cur, prev), s, v, cur)
    IN  /\ v <= MaxVersions
        /\ now <= LastEvent
        /\ versions' = [versions EXCEPT ![s] = Append(@, cur)]
        /\ evals' = done.evals
        /\ items' = done.items
        /\ episodes' = done.episodes
        /\ asked' = done.asked
        /\ told' = done.told
        /\ recons' = recons \cup {<<s, v - 1, c>> : c \in Admissible(s, v, cur) \ Unreadable}
        /\ markVersion(s, v, cur, prev)
        /\ UNCHANGED <<commands, now, runtime>>

\* The playbook asks the model again about a version whose episode has ended.
\* The item bypasses the capacity and has a window like a reconsideration's.
QueueAudit(i, key) ==
    LET id == AuditTriggerID(i.sit, items[i].version, key)
        eval == [outcome |-> "admitted", reasons |-> {"audit"}, version |-> items[i].version, at |-> now]
    IN  /\ i \in DOMAIN episodes /\ episodes[i] = "ended"
        /\ id \notin DOMAIN items
        /\ evals' = Put(evals, id, eval)
        /\ items' = Put(items, id, NewSchedulerItem("standard", items[i].version, ReconsiderationExpiry))
        /\ UNCHANGED <<versions, reasoned, material, episodes, recons, commands, asked, told, now, runtime>>

\* Old evaluations that were ignored are removed, unless something cites them.
Prune(before) ==
    /\ before <= now
    /\ LET pruned == {e \in DOMAIN evals : /\ evals[e].outcome = "ignored" /\ evals[e].at < before
                                           /\ e \notin DOMAIN items}
       IN  /\ pruned # {}
           /\ evals' = [e \in DOMAIN evals \ pruned |-> evals[e]]
    /\ UNCHANGED <<versions, reasoned, material, items, episodes, recons, commands, asked, told, now, runtime>>

----------------------------------------------------------------------------
(* The admission loop. *)

Pending == {i \in DOMAIN items : items[i].status = "pending"}
Stale(i) == items[i].expires <= now

(* Fault: an item with a window is never found to be stale. *)
staleUnlessDelayed == {i \in Pending : Stale(i) /\ items[i].notBefore = NoTime}

staleExpiries == {i \in Pending : Stale(i)}
admitAt(i) == Max({items[i].notBefore, items[i].created})
DueItems == {i \in Pending : admitAt(i) < items[i].expires /\ admitAt(i) <= now}

compareQueueOrder(a, b) ==
    \/ items[a].notBefore < items[b].notBefore
    \/ items[a].notBefore = items[b].notBefore /\ items[a].created < items[b].created

\* Ties are broken by the item id, a digest: any of them may come first.
firstAdmittable(i) ==
    LET admittable == {j \in DueItems : ~Stale(j)}
    IN  i \in admittable /\ \A j \in admittable : ~compareQueueOrder(j, i)

LiveEpisode(s) == \E j \in DOMAIN episodes : j.sit = s /\ episodes[j] = "live"
SetItem(i, status) == items' = [items EXCEPT ![i].status = status]
addReason(i, reason) == evals' = [evals EXCEPT ![i].reasons = @ \cup {reason}]

\* A pass looks at the epoch before it polls: a draining one neither expires
\* nor admits.
draining == runtime.mode = "draining"

Expire(i) ==
    /\ ~draining
    /\ i \in staleExpiries
    /\ SetItem(i, "expired")
    /\ addReason(i, "scheduler item expired")
    /\ UNCHANGED <<versions, reasoned, material, episodes, recons, commands, asked, told, now, runtime>>

\* The loop expires what it can no longer admit before it admits anything.
\* An item of a situation with a live episode waits, and the queue with it.
admitOrSkip(i) ==
    /\ ~draining
    /\ staleExpiries = {}
    /\ firstAdmittable(i)

AdmitItem(i) ==
    /\ admitOrSkip(i)
    /\ ~LiveEpisode(i.sit)
    /\ SetItem(i, "admitted")
    /\ episodes' = Put(episodes, i, "live")
    /\ UNCHANGED <<versions, reasoned, material, evals, recons, commands, asked, told, now, runtime>>

skipCostRejected(i) ==
    /\ admitOrSkip(i)
    /\ ~LiveEpisode(i.sit)
    /\ SetItem(i, "coalesced")
    /\ addReason(i, "rejected by cost control")
    /\ UNCHANGED <<versions, reasoned, material, episodes, recons, commands, asked, told, now, runtime>>

\* A reconsideration does not wait for the situation's live episode.
skipLiveReconsideration(i) ==
    /\ admitOrSkip(i)
    /\ items[i].kind = "reconsider"
    /\ LiveEpisode(i.sit)
    /\ SetItem(i, "coalesced")
    /\ UNCHANGED <<versions, reasoned, material, evals, episodes, recons, commands, asked, told, now, runtime>>

Halts(mode) ==
    /\ runtime.halts < MaxHalts
    /\ runtime' = [mode |-> mode, halts |-> runtime.halts + 1]
    /\ UNCHANGED <<versions, reasoned, material, queueVars, recons, commands, now>>

\* Any other error of an admission rolls it back and fails the batch, and the
\* process with it: the item stays in the queue.
AdmissionFails(i) == admitOrSkip(i) /\ Halts("stopped")

\* An operator drains the epoch of the process.
Drain == runtime.mode = "serving" /\ Halts("draining")

\* The next process serves an epoch of its own.
Restart ==
    /\ runtime.mode # "serving"
    /\ runtime' = [runtime EXCEPT !.mode = "serving"]
    /\ UNCHANGED <<versions, reasoned, material, queueVars, recons, commands, now>>

----------------------------------------------------------------------------
(* What the rest of the runtime does meanwhile. *)

EndEpisode(i) ==
    /\ i \in DOMAIN episodes /\ episodes[i] = "live"
    /\ episodes' = [episodes EXCEPT ![i] = "ended"]
    /\ UNCHANGED <<versions, reasoned, material, evals, items, recons, commands, asked, told, now, runtime>>

\* Policy approves, or asks an operator about, an intent whose version no
\* material version follows.
Approve(c, s, v) ==
    /\ commands[c].status = "absent"
    /\ v \in 1..Len(versions[s])
    /\ material[s] <= v
    /\ commands' = [commands EXCEPT ![c] = [sit |-> s, version |-> v, status |-> "dispatched"]]
    /\ UNCHANGED <<versions, reasoned, material, evals, items, episodes, recons, asked, told, now, runtime>>

Succeed(c) ==
    /\ commands[c].status = "dispatched"
    /\ commands' = [commands EXCEPT ![c].status = "succeeded"]
    /\ UNCHANGED <<versions, reasoned, material, evals, items, episodes, recons, asked, told, now, runtime>>

RequireApproval(s, v) ==
    /\ Asks
    /\ v \in 1..Len(versions[s])
    /\ material[s] <= v
    /\ <<s, v>> \notin asked
    /\ asked' = asked \cup {<<s, v>>}
    /\ UNCHANGED <<versions, reasoned, material, evals, items, episodes, recons, commands, told, now, runtime>>

Tick ==
    /\ now < MaxTime
    /\ now' = now + 1
    /\ UNCHANGED <<versions, reasoned, material, queueVars, recons, commands, runtime>>

----------------------------------------------------------------------------
Empty == [i \in {} |-> {}]

Init ==
    /\ setting \in DOMAIN Settings
    /\ versions = [s \in SituationKeys |-> <<>>]
    /\ reasoned = [s \in SituationKeys |-> 0]
    /\ material = [s \in SituationKeys |-> 0]
    /\ evals = Empty /\ items = Empty /\ episodes = Empty
    /\ recons = {} /\ asked = {} /\ told = {}
    /\ commands = [c \in CommandIDs |-> [sit |-> "none", version |-> 0, status |-> "absent"]]
    /\ now = 1
    /\ runtime = [mode |-> "serving", halts |-> 0]

AdmissionLoop ==
    \E i \in DOMAIN items : Expire(i) \/ AdmitItem(i) \/ skipCostRejected(i) \/ skipLiveReconsideration(i)

Serves ==
    \/ \E s \in SituationKeys, cur \in Shapes : Process(s, cur)
    \/ \E i \in DOMAIN episodes, key \in AuditKeys : QueueAudit(i, key)
    \/ \E before \in 1..MaxTime : Prune(before)
    \/ AdmissionLoop
    \/ \E i \in DOMAIN items : AdmissionFails(i)
    \/ \E i \in DOMAIN episodes : EndEpisode(i)
    \/ \E c \in CommandIDs, s \in SituationKeys, v \in 1..MaxVersions : Approve(c, s, v)
    \/ \E c \in CommandIDs : Succeed(c)
    \/ \E s \in SituationKeys, v \in 1..MaxVersions : RequireApproval(s, v)
    \/ Drain

Step ==
    \/ runtime.mode # "stopped" /\ Serves
    \/ Restart
    \/ Tick

Next == Step /\ UNCHANGED setting

Spec == Init /\ [][Next]_<<vars, setting>>

\* The pipeline polls the queue after every batch and on a timer, the clock
\* runs, and an episode ends by its wall-time budget at the latest.
Fairness ==
    /\ WF_vars(Tick)
    /\ WF_vars(runtime.mode # "stopped" /\ AdmissionLoop)
    /\ WF_vars(runtime.mode # "stopped" /\ \E i \in DOMAIN episodes : EndEpisode(i))

----------------------------------------------------------------------------
(* Properties. *)

\* The admission loop: while a process serves that is not draining, again and
\* again nothing waits in the queue whose expiry the clock reaches, so every
\* such item leaves it, even one behind an item that waits for a live episode
\* or one whose admission failed an earlier process (an item that left is
\* never pending again).  A draining epoch leaves its queue to the next one.
QueueDrains ==
    []<>(\/ runtime.mode # "serving"
         \/ \A i \in DOMAIN items : items[i].status = "pending" => items[i].expires > MaxTime)

============================================================================
