---------------------------- MODULE StreamEngine ----------------------------
(***************************************************************************)
(* The stream engine: it reads the event log in order and applies each      *)
(* record exactly once, in one transaction with the operator state, the     *)
(* Situations, the timers and the checkpoint; it fires due timers between   *)
(* records, keeps Situations and operator state in memory, and rebuilds     *)
(* both after a rollback and after a restart.                               *)
(*                                                                          *)
(* One action is one transaction, or one read between transactions.  What a *)
(* process read earlier is in work; what it keeps in memory is in active    *)
(* and cache.  The log is read one record at a time: it only grows, so the  *)
(* batches of a hundred the code reads hold the same records.               *)
(***************************************************************************)
EXTENDS OwnerFence, EngineRules

CONSTANTS
    Entities,       \* entity ids
    PartitionOf,    \* the partition of an entity
    MaxCachedSamples, \* samples kept in the operator state cache
    MaxLog          \* bound on the log in every setting

ASSUME StreamEngineAssumption ==
    /\ DOMAIN PartitionOf = Entities
    /\ MaxLog \in Nat
    /\ \A s \in Settings :
        /\ s.epochs \subseteq Epochs
        /\ {s.maxLog, s.maxTime, s.maxCited} \subseteq Nat /\ s.maxLog <= MaxLog
        /\ \A shape \in s.shapes : shape.ent \in Entities /\ shape.at >= s.maxOutOfOrderness

VARIABLES
    now,            \* the clock
    log,            \* event_log of the tenant
    checkpoint,     \* partition_checkpoints
    inbox,          \* event_inbox: applied positions and when
    lateEvents,     \* event_time_dispositions
    applyFailures,  \* apply_failures
    operators,      \* operator_state with operator_window_samples
    timers,         \* timers
    unopened,       \* unopened_situations
    situations,     \* situations
    versions,       \* situation_versions
    lineage,        \* lineage_sets
    cited,          \* situation versions other tables refer to
    work,           \* where a process is in its run
    active,         \* the Situations a process holds in memory
    cache,          \* the operator states a process holds in memory
    changes         \* history: how often a record changed operator state

fenceVars == <<owner, valid, retired>>
streamVars == <<checkpoint, inbox, lateEvents, applyFailures>>
stateVars == <<operators, timers, unopened, situations, versions, lineage>>
memoryVars == <<active, cache>>
vars == <<fenceVars, now, log, streamVars, stateVars, cited, work, memoryVars, changes>>

EventShapes == setting.shapes    \* what events carry: [ent, type, source, boot, valid, value, at]
PruneTimes == setting.pruneTimes \* cutoffs an operator prunes history at
MaxCited == setting.maxCited     \* bound on the versions other tables refer to
MaxTime == setting.maxTime       \* bound on the clock

Partitions == {PartitionOf[e] : e \in Entities}

Stages == {"down", "claimed", "idle", "reading", "before", "apply", "after", "stopped"}

\* Stages in which the process runs its engine.
Running == Stages \ {"down", "claimed", "stopped"}

Idle == [stage |-> "idle", pos |-> 0, placed |-> Nothing, now |-> 0, todo |-> {}]

Positions == 1..Len(log)

Applied == {i.pos : i \in inbox}

---------------------------------------------------------------------------
(* Reading what is stored *)

\* A restored Situation takes its phase and runtime state from its row, and
\* its previous phase and completeness from its current version.
RestoreSituation(e) ==
    IF unopened[e] # Nothing THEN unopened[e]
    ELSE IF situations[e] = Nothing THEN Nothing
    ELSE LET v == CHOOSE v \in versions[e] : v.version = situations[e].version
         IN [situations[e] EXCEPT !.previous = v.previous, !.complete = v.complete]

RestoreSituations == [e \in Entities |-> RestoreSituation(e)]

NoCache == [e \in Entities |-> Nothing]

AppliedThrough == Max({checkpoint[q].pos : q \in Partitions} \cup {0})

DueTimers(q, at) == {t \in timers : PartitionOf[t.ent] = q /\ t.status = "pending" /\ t.due <= at}

DueTimerPartitions(at) == {q \in Partitions : DueTimers(q, at) # {}}

---------------------------------------------------------------------------
(* Writing within a transaction.  A draft carries what the transaction would *)
(* leave in the tables of one entity.                                        *)

VersionRow(sit, at) ==
    [version |-> sit.version, phase |-> sit.phase, previous |-> sit.previous, complete |-> sit.complete,
     occurrence |-> sit.occurrence, horizon |-> sit.latest, evidence |-> Range(sit.evidence), created |-> at]

Draft(e, sit) ==
    [sit |-> sit, situation |-> situations[e], unopened |-> unopened[e], versions |-> versions[e],
     lineage |-> {}, failed |-> FALSE]

\* Lineage, current row and version row of a published version.
SaveSituationVersion(draft, sit) ==
    [draft EXCEPT !.situation = sit, !.unopened = Nothing,
                  !.versions = @ \cup {VersionRow(sit, now)}, !.lineage = @ \cup {Range(sit.evidence)}]

SaveFeatureResult(draft, result) ==
    LET noted == [draft EXCEPT !.sit = result.sit, !.failed = result.failed]
    IN IF result.published /\ ~result.failed THEN SaveSituationVersion(noted, result.sit) ELSE noted

ApplyOneFeature(draft, feature) ==
    IF draft.failed THEN draft ELSE SaveFeatureResult(draft, ApplyFeature(draft.sit, feature))

\* The runtime state as of the last feature, published or not.  The row of an
\* open Situation keeps the completeness of its version.
SaveCurrentSituationState(draft) ==
    IF draft.sit = Nothing THEN draft
    ELSE IF draft.sit.version = 0 THEN [draft EXCEPT !.unopened = draft.sit]
    ELSE [draft EXCEPT !.situation = draft.sit]

ApplyAndSaveFeatures(e, sit, features) ==
    IF features = <<>> THEN Draft(e, sit)
    ELSE SaveCurrentSituationState(FoldInOrder(ApplyOneFeature, Draft(e, sit), features))

RecordLineage(sets) ==
    lineage \cup {[evidence |-> s, created |-> now] : s \in sets \ {l.evidence : l \in lineage}}

\* The earlier timer of the state key is cancelled; one with the same due time
\* becomes pending again unless it fired.
ArmHeartbeatTimer(stored, e, t) ==
    LET cancelled == {IF s.ent = e /\ s.op = t.op /\ s.boot = t.boot /\ s.status = "pending"
                      THEN [s EXCEPT !.status = "cancelled"] ELSE s : s \in stored}
        same == {s \in cancelled : s.ent = e /\ s.op = t.op /\ s.boot = t.boot /\ s.due = t.due}
    IN IF same = {}
       THEN cancelled \cup {[ent |-> e, op |-> t.op, boot |-> t.boot, due |-> t.due, expected |-> t.expected,
                             status |-> "pending", created |-> now]}
       ELSE {IF s \in same /\ s.status # "fired"
             THEN [s EXCEPT !.status = "pending", !.expected = t.expected] ELSE s : s \in cancelled}

ScheduleHeartbeatTimers(e, st) ==
    FoldSet(LAMBDA t, stored : ArmHeartbeatTimer(stored, e, t), timers, HeartbeatTimers(st))

\* The cache keeps the new state, alone when the others would make it too big.
Remember(states, e, st) ==
    LET others == FoldSet(LAMBDA x, n : n + IF states[x] = Nothing THEN 0 ELSE SampleCount(states[x]), 0,
                          Entities \ {e})
    IN IF others + SampleCount(st) > MaxCachedSamples THEN [NoCache EXCEPT ![e] = st] ELSE [states EXCEPT ![e] = st]

WriteDraft(e, draft) ==
    /\ situations' = [situations EXCEPT ![e] = draft.situation]
    /\ unopened' = [unopened EXCEPT ![e] = draft.unopened]
    /\ versions' = [versions EXCEPT ![e] = draft.versions]
    /\ lineage' = RecordLineage(draft.lineage)

---------------------------------------------------------------------------
(* The clock, the log and the owner *)

Tick ==
    /\ now < MaxTime
    /\ now' = now + 1
    /\ UNCHANGED <<fenceVars, log, streamVars, stateVars, cited, work, memoryVars, changes>>

\* The event log appends under its own fence; positions follow commit order.
AppendEvent(shape) ==
    /\ Len(log) < setting.maxLog
    /\ log' = Append(log, [ent |-> shape.ent, type |-> shape.type, source |-> shape.source, boot |-> shape.boot,
                           valid |-> shape.valid, value |-> shape.value, at |-> shape.at,
                           id |-> Len(log) + 1, ingested |-> now])
    /\ changes' = Append(changes, 0)
    /\ UNCHANGED <<fenceVars, now, streamVars, stateVars, cited, work, memoryVars>>

\* The runtime claims its lease before it builds its engine.
Claim(p) ==
    /\ work[p].stage = "down"
    /\ Take(p)
    /\ work' = [work EXCEPT ![p].stage = "claimed"]
    /\ UNCHANGED <<now, log, streamVars, stateVars, cited, memoryVars, changes>>

LeaseEnds ==
    /\ Lapse
    /\ UNCHANGED <<now, log, streamVars, stateVars, cited, work, memoryVars, changes>>

Build(p) ==
    /\ work[p].stage = "claimed"
    /\ work' = [work EXCEPT ![p] = Idle]
    /\ active' = [active EXCEPT ![p] = RestoreSituations]
    /\ UNCHANGED <<fenceVars, now, log, streamVars, stateVars, cited, cache, changes>>

Crash(p) ==
    /\ work[p].stage \in Running \cup {"claimed"}
    /\ work' = [work EXCEPT ![p] = [Idle EXCEPT !.stage = "stopped"]]
    /\ active' = [active EXCEPT ![p] = NoCache]
    /\ cache' = [cache EXCEPT ![p] = NoCache]
    /\ UNCHANGED <<fenceVars, now, log, streamVars, stateVars, cited, changes>>

---------------------------------------------------------------------------
(* A run over the log *)

BeginRun(p) ==
    /\ work[p].stage = "idle"
    /\ work' = [work EXCEPT ![p] = [Idle EXCEPT !.stage = "reading", !.pos = AppliedThrough]]
    /\ UNCHANGED <<fenceVars, now, log, streamVars, stateVars, cited, memoryVars, changes>>

\* The next record is placed in time against the checkpoint of its partition,
\* and the partitions with due timers are listed.
PrepareRecord(p) ==
    LET record == log[work[p].pos + 1]
    IN /\ work[p].stage = "reading"
       /\ work[p].pos < Len(log)
       /\ work' = [work EXCEPT ![p] =
                    [stage |-> "before", pos |-> work[p].pos,
                     placed |-> PlaceInTime(record, checkpoint[PartitionOf[record.ent]]),
                     now |-> now, todo |-> DueTimerPartitions(now)]]
       /\ UNCHANGED <<fenceVars, now, log, streamVars, stateVars, cited, memoryVars, changes>>

FinishGlobalRun(p) ==
    /\ work[p].stage = "reading"
    /\ work[p].pos = Len(log)
    /\ work' = [work EXCEPT ![p].stage = "after", ![p].now = now, ![p].todo = DueTimerPartitions(now)]
    /\ UNCHANGED <<fenceVars, now, log, streamVars, stateVars, cited, memoryVars, changes>>

TimersDone(p) ==
    /\ work[p].stage \in {"before", "after"}
    /\ work[p].todo = {}
    /\ work' = [work EXCEPT ![p] = IF @.stage = "before" THEN [@ EXCEPT !.stage = "apply"] ELSE Idle]
    /\ UNCHANGED <<fenceVars, now, log, streamVars, stateVars, cited, memoryVars, changes>>

\* Fault: the memory is left as the failed transaction had it.
RestoreAfterRollbackKept(p, dirty) ==
    /\ active' = [active EXCEPT ![p] = dirty]
    /\ UNCHANGED cache

\* Whatever the failed transaction did in memory is dropped and read again.
RestoreAfterRollback(p, dirty) ==
    /\ active' = [active EXCEPT ![p] = RestoreSituations]
    /\ cache' = [cache EXCEPT ![p] = NoCache]

---------------------------------------------------------------------------
(* Timers *)

TimerKey(t) == <<t.ent, t.op, t.boot>>

\* Boot fencing retires a timer of another boot.
InactiveTimers(due) == {t \in due : ~IsActiveBoot(operators[t.ent], t.boot)}

\* Missed heartbeats of an entity that a due timer was waiting for.
MatchTimerFeatures(e, due, at) ==
    {f \in ApplyHeartbeatTimer(operators[e], at) :
        \E t \in due : TimerKey(t) = <<e, f.output, f.boot>> /\ <<t.expected>> = f.inputs}

MatchedTimers(due, at) ==
    InactiveTimers(due) \cup
    {t \in due : \E f \in MatchTimerFeatures(t.ent, due, at) : TimerKey(t) = <<t.ent, f.output, f.boot>>}

AcknowledgeTimers(due) == {IF t \in due THEN [t EXCEPT !.status = "fired"] ELSE t : t \in timers}

\* A set in an order of which nothing is known.
SomeOrder(S) == CHOOSE s \in [1..Cardinality(S) -> S] : IsInjective(s)

TimerDrafts(p, q) ==
    [e \in Entities |->
        IF PartitionOf[e] # q THEN Draft(e, active[p][e])
        ELSE ApplyAndSaveFeatures(e, active[p][e], SomeOrder(MatchTimerFeatures(e, DueTimers(q, work[p].now), work[p].now)))]

NextPartition(p) == CHOOSE q \in work[p].todo : TRUE

\* Every due timer must fire or belong to a fenced boot.
FireDueTimers(p) ==
    LET q == NextPartition(p)
        due == DueTimers(q, work[p].now)
    IN /\ work[p].stage \in {"before", "after"} /\ work[p].todo # {}
       /\ Holds(p)
       /\ MatchedTimers(due, work[p].now) = due
       /\ \E drafts \in {TimerDrafts(p, q)} :
             /\ \A e \in Entities : ~drafts[e].failed
             /\ situations' = [e \in Entities |-> drafts[e].situation]
             /\ unopened' = [e \in Entities |-> drafts[e].unopened]
             /\ versions' = [e \in Entities |-> drafts[e].versions]
             /\ lineage' = RecordLineage(UNION {drafts[e].lineage : e \in Entities})
             /\ active' = [active EXCEPT ![p] = [e \in Entities |-> drafts[e].sit]]
       /\ timers' = AcknowledgeTimers(due)
       /\ work' = [work EXCEPT ![p].todo = @ \ {q}]
       /\ UNCHANGED <<fenceVars, now, log, streamVars, operators, cited, cache, changes>>

\* Timers whose firing fails every time are acknowledged without effect.
SetAsideDueTimers(p) ==
    LET q == NextPartition(p)
        due == DueTimers(q, work[p].now)
    IN /\ work[p].stage \in {"before", "after"} /\ work[p].todo # {}
       /\ Holds(p)
       /\ MatchedTimers(due, work[p].now) = due
       /\ \E drafts \in {TimerDrafts(p, q)} :
             /\ \E e \in Entities : drafts[e].failed
             /\ RestoreAfterRollback(p, [e \in Entities |-> drafts[e].sit])
       /\ timers' = AcknowledgeTimers(due)
       /\ work' = [work EXCEPT ![p].todo = @ \ {q}]
       /\ UNCHANGED <<fenceVars, now, log, streamVars, operators, unopened, situations, versions, lineage,
                      cited, changes>>

\* The transaction does not commit: the lease is gone, a timer has no matching
\* state, or the database failed.  The run ends.
TimersFail(p) ==
    /\ work[p].stage \in {"before", "after"} /\ work[p].todo # {}
    /\ RestoreAfterRollback(p, [e \in Entities |-> TimerDrafts(p, NextPartition(p))[e].sit])
    /\ work' = [work EXCEPT ![p] = Idle]
    /\ UNCHANGED <<fenceVars, now, log, streamVars, stateVars, cited, changes>>

---------------------------------------------------------------------------
(* Records *)

Record(p) == log[work[p].pos + 1]

EntityOperatorState(p, e) == IF cache[p][e] # Nothing THEN cache[p][e] ELSE operators[e]

Operated(p) ==
    ApplyEventAt(EntityOperatorState(p, Record(p).ent), Record(p), work[p].placed.watermark, now)

RecordDraft(p, operated) == ApplyAndSaveFeatures(Record(p).ent, active[p][Record(p).ent], operated.features)

ChangingRecord(p) == ChangesState(work[p].placed.disposition)

\* Fault: the checkpoint is left where it was.
RecordAppliedInboxOnly(p) ==
    /\ inbox' = inbox \cup {[pos |-> Record(p).id, at |-> now]}
    /\ UNCHANGED checkpoint

\* Checkpoint and inbox row.
RecordApplied(p) ==
    /\ checkpoint' = [checkpoint EXCEPT ![PartitionOf[Record(p).ent]] =
                        [pos |-> Record(p).id, watermark |-> work[p].placed.watermark, sources |-> work[p].placed.sources]]
    /\ inbox' = inbox \cup {[pos |-> Record(p).id, at |-> now]}

RecordLateness(p) ==
    lateEvents' = IF work[p].placed.disposition = "on_time" THEN lateEvents
                  ELSE lateEvents \cup {<<Record(p).id, work[p].placed.disposition>>}

NextRecord(p) == [Idle EXCEPT !.stage = "reading", !.pos = work[p].pos + 1]

\* The whole effect of a record: operators, Situations, samples and timers.
ApplyRecord(p) ==
    LET e == Record(p).ent
    IN /\ work[p].stage = "apply"
       /\ Holds(p)
       /\ Record(p).id \notin Applied
       /\ ChangingRecord(p)
       /\ RecordLateness(p)
       /\ \E operated \in {Operated(p)} : \E draft \in {RecordDraft(p, operated)} :
             /\ ~draft.failed
             /\ WriteDraft(e, draft)
             /\ operators' = [operators EXCEPT ![e] = SaveOperatorState(@, operated.st)]
             /\ timers' = ScheduleHeartbeatTimers(e, operated.st)
             /\ active' = [active EXCEPT ![p][e] = draft.sit]
             /\ cache' = [cache EXCEPT ![p] = Remember(@, e, SamplesSaved(operated.st))]
       /\ RecordApplied(p)
       /\ changes' = [changes EXCEPT ![Record(p).id] = @ + 1]
       /\ work' = [work EXCEPT ![p] = NextRecord(p)]
       /\ UNCHANGED <<fenceVars, now, log, applyFailures, cited>>

\* A late record that may not change state is noted and passed.
PassRecord(p) ==
    /\ work[p].stage = "apply"
    /\ Holds(p)
    /\ Record(p).id \notin Applied
    /\ ~ChangingRecord(p)
    /\ RecordLateness(p)
    /\ RecordApplied(p)
    /\ work' = [work EXCEPT ![p] = NextRecord(p)]
    /\ UNCHANGED <<fenceVars, now, log, applyFailures, stateVars, cited, memoryVars, changes>>

\* A record whose rules fail every time, whatever the transaction, is rolled
\* back, noted and passed.
SetAsideFailedRecord(p) ==
    /\ work[p].stage = "apply"
    /\ Holds(p)
    /\ Record(p).id \notin Applied
    /\ ChangingRecord(p)
    /\ \E draft \in {RecordDraft(p, Operated(p))} :
          /\ draft.failed
          /\ RestoreAfterRollback(p, [active[p] EXCEPT ![Record(p).ent] = draft.sit])
    /\ applyFailures' = applyFailures \cup {Record(p).id}
    /\ RecordApplied(p)
    /\ work' = [work EXCEPT ![p] = NextRecord(p)]
    /\ UNCHANGED <<fenceVars, now, log, lateEvents, stateVars, cited, changes>>

\* The transaction does not commit.  On contention the record is tried again
\* with the same placement; otherwise the run ends.
ApplyFails(p) ==
    /\ work[p].stage = "apply"
    /\ RestoreAfterRollback(p, IF ChangingRecord(p)
                               THEN [active[p] EXCEPT ![Record(p).ent] = RecordDraft(p, Operated(p)).sit]
                               ELSE active[p])
    /\ work' \in {work, [work EXCEPT ![p] = Idle]}
    /\ UNCHANGED <<fenceVars, now, log, streamVars, stateVars, cited, changes>>

---------------------------------------------------------------------------
(* Retention *)

\* An evaluation, episode, decision or intent refers to the current version.
Cite(e) ==
    /\ situations[e] # Nothing
    /\ Cardinality(cited) < MaxCited
    /\ <<e, situations[e].version>> \notin cited
    /\ cited' = cited \cup {<<e, situations[e].version>>}
    /\ UNCHANGED <<fenceVars, now, log, streamVars, stateVars, work, memoryVars, changes>>

PrunedVersions(e, before) ==
    {v \in versions[e] : /\ v.created < before
                         /\ situations[e] # Nothing /\ v.version < situations[e].version
                         /\ <<e, v.version>> \notin cited}

\* Inbox, finished timers, superseded versions and lineage no version cites.
PruneHistory(before) ==
    LET kept == [e \in Entities |-> versions[e] \ PrunedVersions(e, before)]
    IN /\ inbox' = {i \in inbox : i.at >= before}
       /\ timers' = {t \in timers : t.status = "pending" \/ t.created >= before}
       /\ versions' = kept
       /\ lineage' = {l \in lineage : l.created >= before \/ \E e \in Entities : \E v \in kept[e] : v.evidence = l.evidence}
       /\ UNCHANGED <<fenceVars, now, log, checkpoint, lateEvents, applyFailures, operators, unopened, situations,
                      cited, work, memoryVars, changes>>

---------------------------------------------------------------------------
Init ==
    /\ setting \in Settings
    /\ OwnerInit
    /\ now = 0
    /\ log = <<>>
    /\ checkpoint = [q \in Partitions |-> NewCheckpoint]
    /\ inbox = {} /\ lateEvents = {} /\ applyFailures = {}
    /\ operators = [e \in Entities |-> NewOperatorState]
    /\ timers = {}
    /\ unopened = NoCache /\ situations = NoCache
    /\ versions = [e \in Entities |-> {}]
    /\ lineage = {} /\ cited = {}
    /\ work = [p \in Epochs |-> [Idle EXCEPT !.stage = "down"]]
    /\ active = [p \in Epochs |-> NoCache]
    /\ cache = [p \in Epochs |-> NoCache]
    /\ changes = <<>>

Step ==
    \/ Tick
    \/ LeaseEnds
    \/ \E shape \in EventShapes : AppendEvent(shape)
    \/ \E e \in Entities : Cite(e)
    \/ \E before \in PruneTimes \cap 1..now : PruneHistory(before)
    \/ \E p \in setting.epochs :
        \/ Claim(p) \/ Build(p) \/ Crash(p)
        \/ BeginRun(p) \/ PrepareRecord(p) \/ FinishGlobalRun(p) \/ TimersDone(p)
        \/ FireDueTimers(p) \/ SetAsideDueTimers(p) \/ TimersFail(p)
        \/ ApplyRecord(p) \/ PassRecord(p) \/ SetAsideFailedRecord(p) \/ ApplyFails(p)

Next == Step /\ UNCHANGED setting

Spec == Init /\ [][Next]_<<vars, setting>>

---------------------------------------------------------------------------
(* Properties *)

\* What a running owner has in memory is what a restart would read back
\* (restoreAfterRollback and New): every Situation field that decides later
\* versions, and every cached operator state with its samples.  The restored
\* completeness may lag behind, but never across the uncertain line that
\* decides whether a version is published.
MemoryMatchesStore ==
    \A p \in Epochs : Holds(p) /\ work[p].stage \in Running =>
        \A e \in Entities :
            LET stored == RestoreSituation(e)
            IN /\ cache[p][e] \in {Nothing, operators[e]}
               /\ active[p][e] = Nothing <=> stored = Nothing
               /\ stored # Nothing =>
                    /\ [stored EXCEPT !.complete = ""] = [active[p][e] EXCEPT !.complete = ""]
                    /\ stored.complete = "uncertain" <=> active[p][e].complete = "uncertain"

\* The engine applies every record once and in log order, across retries,
\* restarts, handovers and the pruning of its inbox: up to the applied
\* position each record changed state once, or was passed as late, or was set
\* aside, and beyond it none had any effect (applyRecordInTx).
RecordsAccountedOnce ==
    \A i \in Positions :
        LET passed == \E d \in Dispositions : <<i, d>> \in lateEvents /\ ~ChangesState(d)
        IN IF i > AppliedThrough THEN changes[i] = 0 /\ ~passed /\ i \notin applyFailures
           ELSE changes[i] + (IF passed THEN 1 ELSE 0) + (IF i \in applyFailures THEN 1 ELSE 0) = 1

---------------------------------------------------------------------------
(* Instances for TLC.  Operator "hot" is a window over the readings of input *)
(* "temp", operator "lost" the missing heartbeat of input "beat".            *)

TimeZero == -1

OwnPartition == [e \in Entities |-> IF e = "x" THEN 1 ELSE 2]

Hot(agg, size, emit) ==
    [name |-> "hot", kind |-> "aggregate", input |-> "temp", needsBoot |-> FALSE, agg |-> agg, size |-> size,
     slide |-> 0, emit |-> emit, duration |-> 0]

Lost(duration) ==
    [name |-> "lost", kind |-> "missing_heartbeat", input |-> "beat", needsBoot |-> FALSE, agg |-> "", size |-> 0,
     slide |-> 0, emit |-> "", duration |-> duration]

HotAndLost == <<Hot("latest", 2, "on_update"), Lost(1)>>

Views == [OperatorNames -> 0..2]

\* The Situation opens on any sign of trouble and closes when all is well.
Trouble == {v \in Views : \E o \in OperatorNames : v[o] > 0}

Calm == Views \ Trouble

Severe == {v \in Views : v["hot"] = 2}

Escalation == <<[from |-> "open", to |-> "severe", when |-> Severe, min |-> 1]>>

Shape(e, type, source, boot, value, at) ==
    [ent |-> e, type |-> type, source |-> source, boot |-> boot, valid |-> TRUE, value |-> value, at |-> at]

BootShapes ==
    {Shape("x", "beat", "s1", b, NoValue, 1) : b \in {"b1", "b2", NoBoot}} \cup {Shape("x", "temp", "s1", "b1", 1, 1)}

LifecycleShapes ==
    {Shape("x", "temp", "s1", NoBoot, r[1], r[2]) : r \in {<<1, 1>>, <<2, 1>>, <<0, 2>>, <<1, 2>>, <<2, 3>>, <<1, 4>>}}

TimeShapes ==
    {Shape("x", "temp", s, NoBoot, 1, t) : s \in {"s1", "s2"}, t \in {1, 4}} \cup {Shape("y", "temp", "s1", NoBoot, 1, 1)}

HistoryShapes ==
    {Shape("x", "temp", "s1", NoBoot, r[1], r[2]) : r \in {<<1, 1>>, <<0, 2>>, <<1, 3>>}}

LiveShapes == {Shape("x", "temp", "s1", NoBoot, 1, 1), Shape("x", "temp", "s1", NoBoot, 2, 2), Shape("x", "beat", "s1", NoBoot, NoValue, 1)}

\* A reading of 2 makes the rules fail.
FailOnTwo == {v \in Views : v["hot"] = 2}

Setting(shapes, maxTime) ==
    [epochs |-> {"r1"}, maxOutOfOrderness |-> 0, allowedLateness |-> 2, idleTimeout |-> NoTime,
     clockSkewTolerance |-> NoTime, failing |-> {}, shapes |-> shapes, pruneTimes |-> {}, maxCited |-> 0,
     maxLog |-> 3, maxTime |-> maxTime]

MCSettings ==
    {Setting(BootShapes, 1),
     Setting(LifecycleShapes, 0),
     [Setting(LifecycleShapes, 0) EXCEPT !.epochs = {"r1", "r2"}, !.maxLog = 2],
     [Setting(TimeShapes, 2) EXCEPT !.maxOutOfOrderness = 1, !.allowedLateness = 1, !.idleTimeout = 1,
                                    !.clockSkewTolerance = 4, !.maxLog = 2],
     [Setting(HistoryShapes, 1) EXCEPT !.pruneTimes = {1}, !.maxCited = 1],
     [Setting(LiveShapes, 2) EXCEPT !.failing = FailOnTwo, !.maxLog = 2]}
=============================================================================
