------------------------------ MODULE RuleRouting ------------------------------
(* The playbook at work: an admission is routed to a rule, to the model or   *)
(* to an audit, in the admission's own transaction; a settle pass queues the *)
(* audits of rule-handled episodes and judges evaluations against stored     *)
(* decisions; circuits switch rules off until an operator closes them.       *)
(* Episode execution is reduced to claim and conclusion (EpisodeLedger has   *)
(* its leases and retries); the outcome of a settled case is a choice here.  *)
EXTENDS RuleReading, TLC

CONSTANTS
    Kinds,      \* the device kinds the rules are pinned to
    NoDigest,   \* no birth was seen or recorded
    Hour,       \* rateCapWindow, in units of event time
    CapWindow,  \* OutOfCapWindow
    MinMatches, \* outOfCapMinMatches
    NoRule,     \* an episode of the model
    NoDecision, \* an episode without a stored decision
    Settings    \* the deployments to check, by name

VARIABLES
    versions,   \* [SituationKeys -> sequence of stored versions]
    queue,      \* scheduler items: [situation, version, audit]
    episodes,   \* admitted episodes, in admission order
    fires,      \* rule_fires
    evals,      \* rule_evaluations
    circuits,   \* rule_circuits, "never" where there is no row
    kinds,      \* rule_kind_digests
    born,       \* the digests of the births this process has seen
    running,    \* whether the process runs
    stops,      \* how often it was stopped
    setting     \* the deployment, chosen once

vars == <<versions, queue, episodes, fires, evals, circuits, kinds, born, running, stops>>

\* The parameters of the chosen setting.
Rules == Settings[setting].rules
Book == Settings[setting].book
SituationKeys == Settings[setting].situations
Readings == Settings[setting].readings
Decisions == Settings[setting].decisions
Digests == Settings[setting].digests
Sampled == Settings[setting].sampled
MaxTime == Settings[setting].maxTime
MaxVersions == Settings[setting].maxVersions
MaxEpisodes == Settings[setting].maxEpisodes
MaxStops == Settings[setting].maxStops

NoItem == 0

Live(e) == episodes[e].state # "ended"
LatestTime(s) == IF versions[s] = <<>> THEN 0 ELSE Last(versions[s]).time

--------------------------------------------------------------------------------
(* Known kinds: this process's births over what earlier ones recorded.       *)
knownKinds == [k \in Kinds |-> IF born[k] # NoDigest THEN born[k] ELSE kinds[k]]

RecordKindDigests == kinds' = knownKinds

KindChanges(known) ==
    {r \in Rules : known[Book[r].pinned.kind] \notin {NoDigest, Book[r].pinned.digest}}

(* A circuit that is open keeps its first cause; a closed one opens again.   *)
OpenCircuit(rows, tripped, cause) ==
    [r \in Rules |->
        IF r \in tripped /\ rows[r].state # "open"
        THEN [state |-> "open", cause |-> cause]
        ELSE rows[r]]

IsOpen(rows, r) == rows[r].state = "open"

tripKindChanges(rows) == OpenCircuit(rows, KindChanges(knownKinds), "kind_changed")

--------------------------------------------------------------------------------

Matching(rows, reading) ==
    {r \in Rules : ~IsOpen(rows, r) /\ matches(Book[r].when, reading)}

InMode(rules, mode) == {r \in rules : Book[r].mode = mode}

(* Fault: the hour excludes its first instant.                               *)
FiresAfter(r, since) ==
    Cardinality({f \in fires : f.rule = r /\ f.time > since})

FiresSince(r, since) ==
    Cardinality({f \in fires : f.rule = r /\ f.time >= since})

RateCapped(r, time) == FiresSince(r, time - Hour) >= Book[r].rateCap

(* The one rule that answers: the only active match, inside its cap.         *)
answer(active, reading, time) ==
    LET sole == IF Cardinality(active) = 1 THEN active ELSE {}
        inside == {r \in sole : insideEnvelope(Book[r].cap, reading)}
        capped == {r \in inside : RateCapped(r, time)}
    IN  [fire |-> inside \ capped, capped |-> capped, outside |-> sole \ inside]

AuditDue(s, v, every) == every <= 1 \/ <<s, v>> \in Sampled

NewFire(e, item, time, r) ==
    [episode |-> e, rule |-> r, situation |-> item.situation, version |-> item.version,
     time |-> time, due |-> AuditDue(item.situation, item.version, Book[r].auditEvery),
     queued |-> FALSE]

NewShadowEvaluation(e, item, read, r) ==
    [kind |-> "shadow", fire |-> NoItem, episode |-> e, rule |-> r,
     situation |-> item.situation, version |-> item.version, time |-> read.time,
     inEnvelope |-> insideEnvelope(Book[r].envelope, read.reading),
     inCap |-> insideEnvelope(Book[r].cap, read.reading), verdict |-> "pending"]

NewAuditEvaluation(f) ==
    [kind |-> "audit", fire |-> f.episode, episode |-> NoItem, rule |-> f.rule,
     situation |-> f.situation, version |-> f.version, time |-> f.time,
     inEnvelope |-> TRUE, inCap |-> TRUE, verdict |-> "pending"]

RecordFire(rows) == fires' = fires \cup rows

RecordEvaluation(rows) == evals \cup rows

ShadowMatches(rows, r, since) ==
    {x \in rows : x.kind = "shadow" /\ x.rule = r /\ x.time >= since}

MostlyOutside(rows, r, since) ==
    LET recorded == ShadowMatches(rows, r, since)
        seen == Cardinality(recorded) + FiresSince(r, since)
        outside == Cardinality({x \in recorded : ~x.inCap})
    IN  seen >= MinMatches /\ 2 * outside > seen

(* An episode admitted for an item, bound to the rule that answers it or to  *)
(* the configured executor.                                                  *)
NewEpisode(item, rule, policy) ==
    [situation |-> item.situation, admitted |-> item.version, bound |-> item.version,
     rule |-> rule, policy |-> policy, state |-> "queued", decision |-> NoDecision]

Admissible(item) ==
    /\ running
    /\ Len(episodes) < MaxEpisodes
    /\ \A e \in DOMAIN episodes : Live(e) => episodes[e].situation # item.situation

(* An item of a pending audit is bound to its evaluation and dispatched in   *)
(* shadow, whatever the rules say of its snapshot.                           *)
routeAudit(item) ==
    /\ item.audit # NoItem
    /\ Admissible(item)
    /\ evals' = {IF x.kind = "audit" /\ x.fire = item.audit /\ x.verdict = "pending"
                 THEN [x EXCEPT !.episode = Len(episodes) + 1] ELSE x : x \in evals}
    /\ episodes' = Append(episodes, NewEpisode(item, NoRule, "shadow"))
    /\ queue' = queue \ {item}
    /\ UNCHANGED <<versions, fires, circuits, kinds, born, running, stops>>

routeByRules(item) ==
    LET e == Len(episodes) + 1
        read == versions[item.situation][item.version]
        tripped == tripKindChanges(circuits)
        found == Matching(tripped, read.reading)
        routing == answer(InMode(found, "active"), read.reading, read.time)
        recorded == RecordEvaluation({NewShadowEvaluation(e, item, read, r) :
                                          r \in InMode(found, "shadow") \cup routing.outside})
        drifted == {r \in routing.outside : MostlyOutside(recorded, r, read.time - CapWindow)}
        bound == IF routing.fire = {} THEN NoRule ELSE CHOOSE r \in routing.fire : TRUE
    IN  /\ item.audit = NoItem
        /\ Admissible(item)
        /\ RecordKindDigests
        /\ evals' = recorded
        /\ circuits' = OpenCircuit(OpenCircuit(tripped, drifted, "out_of_cap"),
                                   routing.capped, "rate_cap")
        /\ RecordFire({NewFire(e, item, read.time, r) : r \in routing.fire})
        /\ episodes' = Append(episodes, NewEpisode(item, bound, "active"))
        /\ queue' = queue \ {item}
        /\ UNCHANGED <<versions, born, running, stops>>

(* An item leaves the queue unadmitted: expired, superseded or too costly.   *)
DropItem(item) ==
    /\ running
    /\ queue' = queue \ {item}
    /\ UNCHANGED <<versions, episodes, fires, evals, circuits, kinds, born, running, stops>>

--------------------------------------------------------------------------------

(* A claim binds the episode to the situation's live version.  The request's *)
(* rule section, its executor and its dispatch policy stay as admitted.      *)
ClaimEpisode(e) ==
    /\ running
    /\ episodes[e].state = "queued"
    /\ episodes' = [episodes EXCEPT ![e].state = "running",
                                    ![e].bound = Len(versions[episodes[e].situation])]
    /\ UNCHANGED <<versions, queue, fires, evals, circuits, kinds, born, running, stops>>

Answers(e) ==
    IF episodes[e].rule = NoRule THEN Decisions ELSE {RuleDecision(Book[episodes[e].rule])}

(* An episode ends with an accepted decision or with none.                   *)
EndEpisode(e) ==
    /\ running
    /\ episodes[e].state = "running"
    /\ \E decision \in Answers(e) \cup {NoDecision} :
           episodes' = [episodes EXCEPT ![e].state = "ended", ![e].decision = decision]
    /\ UNCHANGED <<versions, queue, fires, evals, circuits, kinds, born, running, stops>>

--------------------------------------------------------------------------------

DueAudit(f) == f.due /\ ~f.queued /\ ~Live(f.episode)

AuditItem(f) == [situation |-> f.situation, version |-> f.version, audit |-> f.episode]

Judgeable(x) == x.verdict = "pending" /\ x.episode # NoItem /\ ~Live(x.episode)

judge(x) ==
    IF episodes[x.episode].decision = NoDecision
    THEN "inconclusive"
    ELSE Verdict(Book[x.rule], Observe(episodes[x.episode].decision))

SettledEvaluation(x) == IF Judgeable(x) THEN [x EXCEPT !.verdict = judge(x)] ELSE x

Disagreed(rows) ==
    {x.rule : x \in {y \in rows : y.kind = "audit" /\ Judgeable(y) /\ judge(y) = "disagree"}}

(* Cases of rule-handled episodes that turned out without effect.            *)
CaseRules == {f.rule : f \in {g \in fires : ~Live(g.episode)}}

(* One settle transaction: kind changes, due audits, verdicts, cases.        *)
Settle ==
    LET due == {f \in fires : DueAudit(f)}
        recorded == RecordEvaluation({NewAuditEvaluation(f) : f \in due})
        tripped == tripKindChanges(circuits)
    IN  /\ running
        /\ RecordKindDigests
        /\ queue' = queue \cup {AuditItem(f) : f \in due}
        /\ fires' = {[f EXCEPT !.queued = f.queued \/ DueAudit(f)] : f \in fires}
        /\ evals' = {SettledEvaluation(x) : x \in recorded}
        /\ \E ineffective \in SUBSET CaseRules :
               circuits' = OpenCircuit(OpenCircuit(tripped, Disagreed(recorded), "audit_disagreement"),
                                       ineffective, "no_effect")
        /\ UNCHANGED <<versions, episodes, born, running, stops>>

--------------------------------------------------------------------------------
(* The engine stores a version; event time never falls within a situation.   *)
NewVersion(s) ==
    /\ running
    /\ Len(versions[s]) < MaxVersions
    /\ \E time \in LatestTime(s)..MaxTime, reading \in Readings :
           versions' = [versions EXCEPT ![s] = Append(@, [time |-> time, reading |-> reading])]
    /\ UNCHANGED <<queue, episodes, fires, evals, circuits, kinds, born, running, stops>>

(* Cognition queues the latest version of a situation, in place of what the  *)
(* same trigger has waiting (supersedePending).                              *)
Trigger(s) ==
    LET item == [situation |-> s, version |-> Len(versions[s]), audit |-> NoItem]
    IN  /\ running
        /\ versions[s] # <<>>
        /\ Len(episodes) + Cardinality(queue) < MaxEpisodes
        /\ item \notin queue
        /\ \E superseded \in SUBSET {q \in queue : q.situation = s /\ q.audit = NoItem} :
               queue' = (queue \ superseded) \cup {item}
        /\ UNCHANGED <<versions, episodes, fires, evals, circuits, kinds, born, running, stops>>

(* A device of a kind is born; the host remembers the last digest.           *)
Birth(k) ==
    /\ running
    /\ \E d \in Digests :
           /\ d # born[k]
           /\ born' = [born EXCEPT ![k] = d]
    /\ UNCHANGED <<versions, queue, episodes, fires, evals, circuits, kinds, running, stops>>

(* The process stops: births it saw and no transaction recorded are gone.    *)
Stop ==
    /\ running
    /\ stops < MaxStops
    /\ running' = FALSE
    /\ stops' = stops + 1
    /\ born' = [k \in Kinds |-> NoDigest]
    /\ UNCHANGED <<versions, queue, episodes, fires, evals, circuits, kinds>>

(* An operator closes a circuit under the owner's fence, with the runtime    *)
(* stopped.                                                                  *)
CloseCircuit(r) ==
    /\ ~running
    /\ IsOpen(circuits, r)
    /\ circuits' = [circuits EXCEPT ![r] = [state |-> "closed", cause |-> @.cause]]
    /\ UNCHANGED <<versions, queue, episodes, fires, evals, kinds, born, running, stops>>

(* A later process finds the running episodes' attempts and runs them again. *)
Start ==
    /\ ~running
    /\ running' = TRUE
    /\ episodes' = [e \in DOMAIN episodes |->
                       IF episodes[e].state = "running"
                       THEN [episodes[e] EXCEPT !.state = "queued"] ELSE episodes[e]]
    /\ UNCHANGED <<versions, queue, fires, evals, circuits, kinds, born, stops>>

--------------------------------------------------------------------------------
Init ==
    /\ setting \in DOMAIN Settings
    /\ versions = [s \in SituationKeys |-> <<>>]
    /\ queue = {}
    /\ episodes = <<>>
    /\ fires = {}
    /\ evals = {}
    /\ circuits = [r \in Rules |-> [state |-> "never", cause |-> ""]]
    /\ kinds = [k \in Kinds |-> NoDigest]
    /\ born = [k \in Kinds |-> NoDigest]
    /\ running = TRUE
    /\ stops = 0

Step ==
    \/ \E s \in SituationKeys : NewVersion(s) \/ Trigger(s)
    \/ \E item \in queue : routeAudit(item) \/ routeByRules(item) \/ DropItem(item)
    \/ \E e \in DOMAIN episodes : ClaimEpisode(e) \/ EndEpisode(e)
    \/ Settle
    \/ \E k \in Kinds : Birth(k)
    \/ \E r \in Rules : CloseCircuit(r)
    \/ Stop
    \/ Start

Next == Step /\ UNCHANGED setting

Spec == Init /\ [][Next]_<<vars, setting>>

--------------------------------------------------------------------------------

(* A rule answers at most its hourly cap: however admissions are ordered,    *)
(* and although versions of different situations are admitted out of event   *)
(* time order, no closed hour of event time holds more fires of one rule     *)
(* than rate_cap_per_hour.                                                   *)
RateCapHolds ==
    \A r \in Rules : \A from \in 0..MaxTime :
        Cardinality({f \in fires : f.rule = r /\ f.time >= from /\ f.time <= from + Hour})
            <= Book[r].rateCap
================================================================================
