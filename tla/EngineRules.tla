---------------------------- MODULE EngineRules ----------------------------
(***************************************************************************)
(* The rules of the stream engine, without its transactions.                *)
(*                                                                          *)
(* How the engine places an event in time: the clock of every source that   *)
(* feeds a partition, the partition's watermark, and the verdict on an      *)
(* event that comes late or from a clock that runs ahead.                   *)
(*                                                                          *)
(* Times are natural numbers; the zero time of the code is NoTime.          *)
(*                                                                          *)
(* The stream operators over one entity: which device boot is heard, the    *)
(* samples of a window and when it emits, and the heartbeat whose absence   *)
(* is noticed by a timer.                                                   *)
(*                                                                          *)
(* The state of an entity has, for every operator and boot, a window or a   *)
(* heartbeat or neither: the boot is part of the durable state key.  A      *)
(* sample's number, a missing heartbeat (1) and a present one (0) are small *)
(* naturals; mean, rms and slope are floating point and are left out.       *)
(*                                                                          *)
(* What one feature does to a Situation: the reducers, its completeness,    *)
(* the phases and occurrences it goes through, and whether a new version is *)
(* published.                                                               *)
(*                                                                          *)
(* A CEL expression is the set of feature views on which it is true, the    *)
(* empty expression the empty set; on the views in Failing its evaluation   *)
(* is an error.  Severity is a function of the phase and confidence is      *)
(* constant, so both are left out.                                          *)
(***************************************************************************)
EXTENDS Integers, FiniteSets, FiniteSetsExt, Sequences

CONSTANTS
    Sources,            \* event sources
    NoTime,             \* time.Time{}, and a duration the spec leaves out
    Settings,           \* the settings an engine may run in, see setting below
    LatePolicy          \* spec.Time.LatePolicy

ASSUME EventTimeAssumption ==
    /\ NoTime < 0
    /\ \A s \in Settings :
        /\ s.maxOutOfOrderness \in Nat
        /\ {s.allowedLateness, s.idleTimeout, s.clockSkewTolerance} \subseteq Nat \cup {NoTime}

VARIABLE
    setting     \* spec.Time of the compiled specification, the views its expressions
                \* fail on, what the devices send, who runs it and how far

MaxOutOfOrderness == setting.maxOutOfOrderness
AllowedLateness == setting.allowedLateness        \* NoTime when empty
IdleTimeout == setting.idleTimeout                \* NoTime when empty
ClockSkewTolerance == setting.clockSkewTolerance  \* NoTime when empty
Failing == setting.failing

Late == {"corrected", "history_only", "dropped", "beyond_allowed_lateness", "clock_skew"}

Dispositions == Late \cup {"on_time"}

Later(a, b) == IF b > a THEN b ELSE a

OptionalDuration(d) == IF d = NoTime THEN 0 ELSE d

NoClock == [max |-> NoTime, ingested |-> NoTime]

NewCheckpoint == [pos |-> 0, watermark |-> NoTime, sources |-> [s \in Sources |-> NoClock]]

BeyondClockSkew(event) ==
    ClockSkewTolerance # NoTime /\ event.at > event.ingested + ClockSkewTolerance

LatePolicyDisposition ==
    CASE LatePolicy = "history_only" -> "history_only"
      [] LatePolicy \in {"correct", "correct_and_reconsider"} -> "corrected"
      [] OTHER -> "dropped"

ClassifyLateness(at, watermark) ==
    IF watermark = NoTime \/ at >= watermark THEN "on_time"
    ELSE IF watermark - at > OptionalDuration(AllowedLateness) THEN "beyond_allowed_lateness"
    ELSE LatePolicyDisposition

ChangesState(disposition) == disposition \in {"on_time", "corrected"}

AdvanceSource(sources, event) ==
    [sources EXCEPT ![event.source] =
        [max |-> Later(@.max, event.at), ingested |-> Later(@.ingested, event.ingested)]]

\* The sources heard of within the idle timeout.
ActiveSources(sources, at) ==
    {s \in Sources : /\ sources[s] # NoClock
                     /\ OptionalDuration(IdleTimeout) = 0 \/ sources[s].ingested >= at - IdleTimeout}

SlowestActiveSource(sources, at) == Min({sources[s].max : s \in ActiveSources(sources, at)})

WatermarkFor(at, previous) ==
    IF previous = NoTime THEN at - MaxOutOfOrderness ELSE Later(at - MaxOutOfOrderness, previous)

\* The clock of the partition after the event, and the event's disposition,
\* judged against the watermark before it.
PlaceInTime(event, checkpoint) ==
    IF BeyondClockSkew(event)
    THEN [watermark |-> checkpoint.watermark, sources |-> checkpoint.sources, disposition |-> "clock_skew"]
    ELSE LET sources == AdvanceSource(checkpoint.sources, event)
         IN [watermark |-> WatermarkFor(SlowestActiveSource(sources, event.ingested), checkpoint.watermark),
             sources |-> sources,
             disposition |-> ClassifyLateness(event.at, checkpoint.watermark)]

----------------------------------------------------------------------------
(* Operators *)

CONSTANTS
    Boots,          \* device boot ids
    NoBoot,         \* an event without boot identity
    Operators,      \* spec.Operators in order: [name, kind, input, needsBoot, agg, size, slide, emit, duration]
    MaxSeenBootIDs, \* boots remembered for an entity
    NoValue,        \* an event without the operator's field
    Nothing         \* no window, no heartbeat

\* The first element of the sequence is applied first.
FoldInOrder(op(_, _), base, seq) ==
    MapThenFoldSet(LAMBDA i, acc : op(acc, seq[i]), base, LAMBDA i : i, Max, DOMAIN seq)

BootKeys == Boots \cup {NoBoot}

OperatorNames == {Operators[i].name : i \in DOMAIN Operators}

Named(name) == CHOOSE op \in Range(Operators) : op.name = name

StateKeys == OperatorNames \X BootKeys

NewOperatorState ==
    [current |-> NoBoot, seen |-> {}, windows |-> [k \in StateKeys |-> Nothing],
     beats |-> [k \in StateKeys |-> Nothing]]

NewWindow(watermark) ==
    [samples |-> {}, lastEmit |-> NoTime, end |-> watermark, admitted |-> {}, expired |-> {}]

---------------------------------------------------------------------------
(* Boot admission *)

\* A full history cannot tell an evicted boot from a new one and refuses both.
AcceptsNewBoot(st, boot) == boot \notin st.seen /\ Cardinality(st.seen) < MaxSeenBootIDs

DiscardEntityState(st) ==
    [st EXCEPT !.windows = [k \in StateKeys |-> Nothing], !.beats = [k \in StateKeys |-> Nothing]]

AdmitBoot(st, boot) ==
    IF boot = NoBoot THEN [ok |-> st.current = NoBoot, st |-> st]
    ELSE IF st.current = boot THEN [ok |-> TRUE, st |-> st]
    ELSE IF ~AcceptsNewBoot(st, boot) THEN [ok |-> FALSE, st |-> st]
    ELSE [ok |-> TRUE, st |-> [DiscardEntityState(st) EXCEPT !.current = boot, !.seen = @ \cup {boot}]]

IsActiveBoot(st, boot) ==
    IF boot = NoBoot THEN st.current = NoBoot ELSE st.current \in {NoBoot, boot}

\* A numeric operator whose schema declares boot identity wants it.
OperatorAdmitsEvent(op, event) ==
    /\ event.valid
    /\ op.kind = "aggregate" /\ op.needsBoot => event.boot # NoBoot

---------------------------------------------------------------------------
(* Windows *)

\* compareSamples
Earlier(a, b) == a.at < b.at \/ (a.at = b.at /\ a.id < b.id)

eventIDs(samples) ==
    [i \in 1..Cardinality(samples) |->
        (CHOOSE s \in samples : Cardinality({r \in samples : Earlier(r, s)}) = i - 1).id]

ComputeAggregate(agg, samples) ==
    IF samples = {} THEN 0
    ELSE CASE agg = "count" -> Cardinality(samples)
           [] agg = "min" -> Min({s.value : s \in samples})
           [] agg = "max" -> Max({s.value : s \in samples})
           [] agg = "latest" -> (CHOOSE s \in samples : \A r \in samples \ {s} : Earlier(r, s)).value

IsLateWindowCorrection(size, at, watermark, lastEmit) ==
    /\ LatePolicy \in {"correct", "correct_and_reconsider"}
    /\ lastEmit # NoTime /\ at < watermark /\ at < lastEmit /\ at >= lastEmit - size
    /\ AllowedLateness # NoTime /\ watermark - at <= AllowedLateness

\* The new sample, without the ones the window left behind.  A sample that
\* expires before it was saved is neither inserted nor deleted.
AddSample(w, sample, cutoff) ==
    LET expired == {s \in w.samples \cup {sample} : s.at < cutoff}
        admitted == w.admitted \cup {sample}
    IN [w EXCEPT !.samples = (@ \cup {sample}) \ expired,
                 !.admitted = admitted \ expired,
                 !.expired = @ \cup (expired \ admitted)]

WindowCloseDue(op, w, watermark) ==
    LET interval == IF op.slide > 0 THEN op.slide ELSE op.size
    IN w.end # NoTime /\ watermark - w.end >= interval

WindowEmissions(emit, corrected, closeDue, hasSamples) ==
    IF ~hasSamples THEN <<>>
    ELSE IF corrected THEN <<"corrected">>
    ELSE (IF emit \in {"on_update", "early_and_close"} THEN <<"provisional">> ELSE <<>>)
            \o (IF closeDue /\ emit # "on_update" THEN <<"final_by_policy">> ELSE <<>>)

WindowFeature(op, event, w, completeness) ==
    [output |-> op.name, boot |-> event.boot, value |-> ComputeAggregate(op.agg, w.samples),
     at |-> event.at, inputs |-> eventIDs(w.samples), completeness |-> completeness]

\* The features a window emits and its position afterwards.
EmitWindow(op, event, w, watermark, corrected) ==
    LET closeDue == WindowCloseDue(op, w, watermark)
        emissions == WindowEmissions(op.emit, corrected, closeDue, w.samples # {})
    IN [features |-> [i \in DOMAIN emissions |-> WindowFeature(op, event, w, emissions[i])],
        window |-> [w EXCEPT !.lastEmit = IF emissions = <<>> THEN @ ELSE watermark,
                             !.end = IF closeDue THEN watermark ELSE @]]

ApplyWindowOperator(op, st, event, watermark) ==
    LET key == <<op.name, event.boot>>
        old == IF st.windows[key] = Nothing THEN NewWindow(watermark) ELSE st.windows[key]
        sample == [id |-> event.id, at |-> event.at, value |-> event.value]
        emitted == EmitWindow(op, event, AddSample(old, sample, watermark - op.size), watermark,
                              IsLateWindowCorrection(op.size, event.at, watermark, old.lastEmit))
    IN IF event.value = NoValue THEN [st |-> st, features |-> <<>>]
       ELSE [st |-> [st EXCEPT !.windows[key] = emitted.window], features |-> emitted.features]

---------------------------------------------------------------------------
(* Heartbeats *)

\* An older event refreshes the processing time and leaves the latest event.
RecordHeartbeat(beat, event, now) ==
    IF beat = Nothing \/ Earlier([at |-> beat.last, id |-> beat.id], event)
    THEN [last |-> event.at, id |-> event.id, proc |-> now]
    ELSE [beat EXCEPT !.proc = now]

HeartbeatFeature(op, boot, beat, missing) ==
    [output |-> op.name, boot |-> boot, value |-> IF missing THEN 1 ELSE 0,
     at |-> IF missing THEN beat.last + op.duration ELSE beat.last,
     inputs |-> <<beat.id>>, completeness |-> IF missing THEN "uncertain" ELSE "on_time"]

ApplyHeartbeatOperator(op, st, event, watermark, now) ==
    LET key == <<op.name, event.boot>>
        beat == RecordHeartbeat(st.beats[key], event, now)
    IN [st |-> [st EXCEPT !.beats[key] = beat],
        features |-> <<HeartbeatFeature(op, event.boot, beat, watermark - beat.last >= op.duration)>>]

HeartbeatOverdue(op, beat, now) == beat # Nothing /\ now - beat.proc >= op.duration

\* The missed heartbeats of an entity at a timer, in order of state key.
ApplyHeartbeatTimer(st, now) ==
    LET overdue == {k \in StateKeys : /\ Named(k[1]).kind = "missing_heartbeat"
                                      /\ IsActiveBoot(st, k[2])
                                      /\ HeartbeatOverdue(Named(k[1]), st.beats[k], now)}
    IN {HeartbeatFeature(Named(k[1]), k[2], st.beats[k], TRUE) : k \in overdue}

---------------------------------------------------------------------------
(* One event through every operator of its input *)

ApplyOperator(op, st, event, watermark, now) ==
    IF op.kind = "missing_heartbeat" THEN ApplyHeartbeatOperator(op, st, event, watermark, now)
    ELSE ApplyWindowOperator(op, st, event, watermark)

\* The boot is admitted only for an operator that takes the event.
ApplyIfAdmitted(op, acc, event, watermark, now) ==
    LET boot == AdmitBoot(acc.st, event.boot)
        applied == ApplyOperator(op, boot.st, event, watermark, now)
    IN IF op.input # event.type \/ ~OperatorAdmitsEvent(op, event) THEN acc
       ELSE IF ~boot.ok THEN [acc EXCEPT !.st = boot.st]
       ELSE [st |-> applied.st, features |-> acc.features \o applied.features]

ApplyEventAt(st, event, watermark, now) ==
    FoldInOrder(LAMBDA acc, op : ApplyIfAdmitted(op, acc, event, watermark, now),
                [st |-> st, features |-> <<>>], Operators)

---------------------------------------------------------------------------
(* What is durable *)

\* Rows of samples follow the admitted and expired ones; a state key that is
\* gone takes its rows with it.
SaveWindow(stored, w) ==
    IF w = Nothing THEN Nothing
    ELSE [w EXCEPT !.samples = ((IF stored = Nothing THEN {} ELSE stored.samples) \ w.expired) \cup w.admitted,
                   !.admitted = {}, !.expired = {}]

SaveOperatorState(stored, st) ==
    [st EXCEPT !.windows = [k \in StateKeys |-> SaveWindow(stored.windows[k], st.windows[k])]]

\* The in-memory state after its samples were saved.
SamplesSaved(st) ==
    [st EXCEPT !.windows = [k \in StateKeys |->
        IF st.windows[k] = Nothing THEN Nothing
        ELSE [st.windows[k] EXCEPT !.admitted = {}, !.expired = {}]]]

SampleCount(st) ==
    FoldSet(LAMBDA k, n : n + Cardinality(st.windows[k].samples), 0,
                          {k \in StateKeys : st.windows[k] # Nothing})

\* One timer for every heartbeat of the entity.
HeartbeatTimers(st) ==
    {[op |-> k[1], boot |-> k[2], due |-> st.beats[k].proc + Named(k[1]).duration, expected |-> st.beats[k].id]
        : k \in {j \in StateKeys : st.beats[j] # Nothing}}

----------------------------------------------------------------------------
(* Situations *)

CONSTANTS
    InitialPhase,   \* spec.Situation.InitialPhase
    Transitions,    \* spec.Situation.Transitions in order: [from, to, when, min]
    OpenWhen,       \* spec.Situation.Occurrence.OpenWhen
    CloseWhen,      \* spec.Situation.Occurrence.CloseWhen
    Cooldown,       \* spec.Situation.Occurrence.ReopenCooldown, 0 when empty
    LatestInputs,   \* outputs reduced by latest_event_time
    UnionInputs,    \* outputs reduced by set_union
    EvidenceLimit   \* limit of the set_union reducers

PhaseResolved == "resolved"

NoFact == [value |-> 0, at |-> NoTime]

TransitionKeys == {<<Transitions[i].from, Transitions[i].to>> : i \in DOMAIN Transitions}

NoConditions == [k \in TransitionKeys |-> NoTime]

NewSituation(at) ==
    [version |-> 0, phase |-> InitialPhase, previous |-> "", complete |-> "provisional", occurrence |-> 0,
     first |-> at, latest |-> at, resolved |-> NoTime, facts |-> [o \in OperatorNames |-> NoFact],
     evidence |-> <<>>, inputs |-> [o \in OperatorNames |-> ""], starts |-> NoConditions]

---------------------------------------------------------------------------
(* Reducers *)

CompletenessRank == [uncertain |-> 0, provisional |-> 1, on_time |-> 2, corrected |-> 3, final_by_policy |-> 4]

WeakestCompleteness(values) == CHOOSE c \in values : \A d \in values : CompletenessRank[c] <= CompletenessRank[d]

RecordInputCompleteness(sit, feature) ==
    LET inputs == [sit.inputs EXCEPT ![feature.output] = feature.completeness]
    IN [sit EXCEPT !.inputs = inputs,
                   !.complete = WeakestCompleteness({inputs[o] : o \in OperatorNames} \ {""})]

\* Uncertainty began or ended, or a late sample corrected a value.
CompletenessMatters(before, after, feature) ==
    \/ (before.complete = "uncertain") # (after.complete = "uncertain")
    \/ feature.completeness = "corrected"

KeepLatestFact(fact, feature) ==
    IF fact = NoFact \/ feature.at > fact.at THEN [value |-> feature.value, at |-> feature.at] ELSE fact

KeepNewest(evidence) ==
    IF Len(evidence) > EvidenceLimit
    THEN SubSeq(evidence, Len(evidence) - EvidenceLimit + 1, Len(evidence)) ELSE evidence

\* A repeated event moves to the newest end.
AddEvidence(evidence, ids) ==
    KeepNewest(SelectSeq(evidence, LAMBDA e : e \notin Range(ids)) \o ids)

ApplyReducers(sit, feature) ==
    [sit EXCEPT !.facts[feature.output] =
                    IF feature.output \in LatestInputs THEN KeepLatestFact(@, feature) ELSE @,
                !.evidence = IF feature.output \in UnionInputs THEN AddEvidence(@, feature.inputs) ELSE @]

ApplyFeatureEvidence(sit, feature) ==
    [ApplyReducers(RecordInputCompleteness(sit, feature), feature) EXCEPT !.latest = Later(@, feature.at)]

\* What the expressions see: a missing output has its default.
CELFeatures(sit) == [o \in OperatorNames |-> IF o \in LatestInputs THEN sit.facts[o].value ELSE 0]

---------------------------------------------------------------------------
(* Phases and occurrences *)

EvalFails(expr, view) == expr # {} /\ view \in Failing

ClosesThroughTransitions == \E i \in DOMAIN Transitions : Transitions[i].to = PhaseResolved

NotYetOpened(sit) == sit.version = 0 /\ sit.phase = InitialPhase

OccurrenceOpen(sit) == ~NotYetOpened(sit) /\ sit.phase # PhaseResolved

EnterPhase(sit, to) ==
    IF sit.phase = to THEN sit
    ELSE [sit EXCEPT !.phase = to, !.starts = NoConditions,
                     !.resolved = IF to = PhaseResolved THEN sit.latest ELSE @]

CloseOccurrence(acc, view) ==
    IF ClosesThroughTransitions \/ ~OccurrenceOpen(acc.sit) THEN acc
    ELSE IF EvalFails(CloseWhen, view) THEN [acc EXCEPT !.failed = TRUE]
    ELSE IF view \notin CloseWhen THEN acc
    ELSE [acc EXCEPT !.sit = EnterPhase(@, PhaseResolved), !.changed = TRUE]

\* The transition is taken once its condition held for its minimum duration of
\* event time; a condition that does not hold forgets when it began.
ApplyTransition(acc, tr, view) ==
    LET key == <<tr.from, tr.to>>
        started == IF acc.sit.starts[key] = NoTime THEN [acc.sit EXCEPT !.starts[key] = acc.sit.latest] ELSE acc.sit
    IN IF acc.failed \/ tr.from # acc.sit.phase THEN acc
       ELSE IF EvalFails(tr.when, view) THEN [acc EXCEPT !.failed = TRUE]
       ELSE IF view \notin tr.when THEN [acc EXCEPT !.sit.starts[key] = NoTime]
       ELSE IF started.latest - started.starts[key] < tr.min THEN [acc EXCEPT !.sit = started]
       ELSE [acc EXCEPT !.sit = EnterPhase(started, tr.to), !.changed = @ \/ tr.to # tr.from]

ApplyTransitions(acc, view) ==
    FoldInOrder(LAMBDA a, tr : ApplyTransition(a, tr, view), acc, Transitions)

StartNextOccurrence(sit) ==
    [sit EXCEPT !.occurrence = sit.version + 1, !.phase = InitialPhase, !.first = sit.latest,
                !.resolved = NoTime, !.starts = NoConditions]

ReopenOccurrence(acc, view) ==
    IF acc.sit.latest - acc.sit.resolved < Cooldown THEN acc
    ELSE IF EvalFails(OpenWhen, view) THEN [acc EXCEPT !.failed = TRUE]
    ELSE IF view \notin OpenWhen THEN acc
    ELSE [acc EXCEPT !.sit = StartNextOccurrence(@), !.changed = TRUE]

OpenOccurrence(acc, view) ==
    IF acc.failed THEN acc
    ELSE IF NotYetOpened(acc.sit)
         THEN [acc EXCEPT !.failed = EvalFails(OpenWhen, view), !.changed = @ \/ view \in OpenWhen]
    ELSE IF acc.sit.phase = PhaseResolved THEN ReopenOccurrence(acc, view)
    ELSE acc

AdvanceLifecycle(sit, view) ==
    LET closed == CloseOccurrence([sit |-> sit, changed |-> FALSE, failed |-> FALSE], view)
    IN OpenOccurrence(ApplyTransitions(closed, view), view)

\* A published version counts up and names the phase before it.
Publish(sit, publishedPhase) ==
    [sit EXCEPT !.version = @ + 1, !.previous = IF sit.phase # publishedPhase THEN publishedPhase ELSE @]

\* The Situation after its lifecycle advanced, whether it published, and whether
\* the rules failed on it.
PublishIfChanged(sit, advanced, completenessChanged) ==
    LET published == advanced.changed \/ (completenessChanged /\ sit.version > 0)
    IN [sit |-> IF published THEN Publish(advanced.sit, sit.phase) ELSE advanced.sit,
        published |-> published, failed |-> advanced.failed]

Evaluate(sit, completenessChanged) ==
    PublishIfChanged(sit, AdvanceLifecycle(sit, CELFeatures(sit)), completenessChanged)

EvaluateEvidence(before, sit, feature) == Evaluate(sit, CompletenessMatters(before, sit, feature))

SituationForFeature(stored, feature) == IF stored = Nothing THEN NewSituation(feature.at) ELSE stored

ApplyFeature(stored, feature) ==
    LET before == SituationForFeature(stored, feature)
    IN EvaluateEvidence(before, ApplyFeatureEvidence(before, feature), feature)
=============================================================================
