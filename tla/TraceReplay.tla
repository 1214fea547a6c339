---------------------------- MODULE TraceReplay ----------------------------
(* Replay of a trace file beside the live runtime whose database it is     *)
(* compared with.  The live runtime processes its trace, admits and        *)
(* supersedes episodes and keeps accepted decisions; a replay session      *)
(* rebuilds the Situations of its trace on a virtual clock in a database   *)
(* of its own, turns what is due at the end into episodes, and either      *)
(* verifies the recorded decisions or pairs the baseline with a candidate  *)
(* worker.  Every valid line publishes a version of its Situation; a       *)
(* snapshot digest is the lines the version was made from.  The live       *)
(* runtime is abstracted to what it leaves in its database, and may still  *)
(* be running while the replay reads it.                                   *)
EXTENDS Integers, FiniteSets, FiniteSetsExt, Sequences, SequencesExt

CONSTANTS
    Situations,   \* situation ids
    expiresAfter, \* how long its items stay useful
    Settings      \* the deployments to check, by name

VARIABLES
    live,      \* the live runtime: its trace, position and decisions
    saw,       \* history: the lines a live decision was really made on
    trace,     \* the trace file of the replay
    mode,      \* the replay's mode
    pc,        \* where the session is
    clk,       \* its virtual clock
    pos,       \* records of the isolated event log applied so far
    versions,  \* situation_versions of the isolated database
    items,     \* scheduler_items of the isolated database, by episode key
    worklist,  \* the replayed episodes
    entries,   \* what the session read of the source database
    shadow,    \* the trials: what was stored and what was reported
    setting    \* the deployment, chosen once

vars == <<live, saw, trace, mode, pc, clk, pos, versions, items, worklist, entries, shadow>>
liveVars == <<live, saw>>
sessionVars == <<trace, mode, pc, clk, pos, versions, items, worklist, entries, shadow>>

\* The parameters of the chosen setting.
Traces == Settings[setting].traces
Modes == Settings[setting].modes
Tampers == Settings[setting].tampers
debounce == Settings[setting].debounce

Put(f, x, r) == [y \in DOMAIN f \cup {x} |-> IF y = x THEN r ELSE f[y]]
Valid(lines) == SelectSeq(lines, LAMBDA l : l.valid)
EpisodeKey(s, v) == <<s, v>>
NoFacts == [s \in Situations |-> <<>>]

\* A version extends its Situation's facts by one line.
SnapshotDigest(vs, key) == SubSeq(vs[key[1]], 1, key[2])

----------------------------------------------------------------------------
(* The live runtime, as far as its database shows it. *)

LiveStart(t) == [trace |-> t, pos |-> 0, versions |-> NoFacts, status |-> <<>>, cited |-> <<>>, decisions |-> <<>>]

\* A firing version replaces the trigger's open items and their episodes.
LiveLine ==
    /\ live.pos < Len(live.trace)
    /\ LET line == live.trace[live.pos + 1]
           vs == [live.versions EXCEPT ![line.sit] = Append(@, line.id)]
           key == EpisodeKey(line.sit, Len(vs[line.sit]))
           replaced == [k \in DOMAIN live.status |->
                          IF k[1] = line.sit /\ live.status[k] \in {"pending", "admitted", "running"}
                          THEN "coalesced" ELSE live.status[k]]
       IN  live' = IF ~line.valid THEN [live EXCEPT !.pos = @ + 1]
                   ELSE IF ~line.fires THEN [live EXCEPT !.pos = @ + 1, !.versions = vs]
                   ELSE [live EXCEPT !.pos = @ + 1, !.versions = vs, !.status = Put(replaced, key, "pending")]
    /\ UNCHANGED <<saw, sessionVars>>

\* The admission loop takes the item whenever its clock lets it, or the item
\* expires.
LiveAdmit(k) ==
    /\ k \in DOMAIN live.status /\ live.status[k] = "pending"
    /\ \E status \in {"admitted", "expired"} : live' = [live EXCEPT !.status[k] = status]
    /\ UNCHANGED <<saw, sessionVars>>

\* Dispatch binds the episode to the Situation's latest version.
LiveClaim(k) ==
    /\ k \in DOMAIN live.status /\ live.status[k] = "admitted"
    /\ live' = [live EXCEPT !.status[k] = "running", !.cited = Put(@, k, Len(live.versions[k[1]]))]
    /\ UNCHANGED <<saw, sessionVars>>

\* The worker's decision cites the version, its snapshot and its own attempt.
LiveDecide(k) ==
    /\ k \in DOMAIN live.status /\ live.status[k] = "running"
    /\ LET cited == live.cited[k]
           facts == SnapshotDigest(live.versions, EpisodeKey(k[1], cited))
           row == [sealed |-> TRUE, sit |-> k[1], cited |-> cited, snapshot |-> facts, episode |-> k]
       IN  /\ live' = [live EXCEPT !.status[k] = "decided", !.decisions = Put(@, k, row)]
           /\ saw' = Put(saw, k, facts)
    /\ UNCHANGED sessionVars

\* The last attempt the retry budget allows fails; an earlier failure leaves
\* the episode running.
LiveFail(k) ==
    /\ k \in DOMAIN live.status /\ live.status[k] = "running"
    /\ live' = [live EXCEPT !.status[k] = "failed"]
    /\ UNCHANGED <<saw, sessionVars>>

\* A stored document is edited to cite what the replay has, or replaced by
\* another accepted one.
Tamper(k) ==
    /\ Tampers /\ k \in DOMAIN live.decisions /\ live.decisions[k].sealed
    /\ \/ \E v \in 1..Len(versions[k[1]]) :
            live' = [live EXCEPT !.decisions[k].sealed = FALSE, !.decisions[k].cited = v,
                                 !.decisions[k].snapshot = SnapshotDigest(versions, EpisodeKey(k[1], v))]
       \/ \E other \in DOMAIN live.decisions \ {k} :
            live' = [live EXCEPT !.decisions[k] = live.decisions[other]]
    /\ UNCHANGED <<saw, sessionVars>>

----------------------------------------------------------------------------
(* The session: its clock, its trace and its engine. *)

ProcessingTime(line) == line.at

\* The earliest time of a line that ingress accepts; the Unix origin without one.
traceEpoch(lines) ==
    IF Valid(lines) = <<>> THEN 0 ELSE Min({ProcessingTime(Valid(lines)[i]) : i \in DOMAIN Valid(lines)})

prepareReplayClock ==
    /\ pc = "prepare"
    /\ clk' = traceEpoch(trace)
    /\ pc' = "run"
    /\ UNCHANGED <<liveVars, trace, mode, pos, versions, items, worklist, entries, shadow>>

advanceToRecordTime(line) == IF ProcessingTime(line) > clk THEN ProcessingTime(line) ELSE clk

\* Trigger evaluation in the isolated database, where nothing is ever
\* admitted before the end of the trace.
queueItem(its, key, now) ==
    Put([k \in DOMAIN its |-> IF k[1] = key[1] /\ its[k].status = "pending"
                              THEN [its[k] EXCEPT !.status = "coalesced"] ELSE its[k]],
        key, [status |-> "pending", admitAt |-> now + debounce, expires |-> now + debounce + expiresAfter])

\* One record of the event log; quarantined lines never entered it.
runAllPartitions ==
    /\ pc = "run" /\ pos < Len(Valid(trace))
    /\ LET line == Valid(trace)[pos + 1]
           now == advanceToRecordTime(line)
           vs == [versions EXCEPT ![line.sit] = Append(@, line.id)]
           key == EpisodeKey(line.sit, Len(vs[line.sit]))
       IN  /\ clk' = now
           /\ versions' = vs
           /\ items' = IF line.fires THEN queueItem(items, key, now) ELSE items
    /\ pos' = pos + 1
    /\ UNCHANGED <<liveVars, trace, mode, pc, worklist, entries, shadow>>

DueItems == {k \in DOMAIN items : /\ items[k].status = "pending"
                                  /\ items[k].expires > items[k].admitAt
                                  /\ items[k].admitAt <= clk}

\* Everything due at the end of the trace becomes an episode, in one transaction.
materializeEpisodes ==
    /\ pc = "run" /\ pos = Len(Valid(trace))
    /\ worklist' = DueItems
    /\ items' = [k \in DOMAIN items |-> IF k \in DueItems THEN [items[k] EXCEPT !.status = "admitted"] ELSE items[k]]
    /\ pc' = mode
    /\ shadow' = [shadow EXCEPT !.todo = DueItems]
    /\ UNCHANGED <<liveVars, trace, mode, clk, pos, versions, entries>>

----------------------------------------------------------------------------
(* Recorded mode. *)

\* The accepted decisions of the source database, in one query.
recordedEntries ==
    /\ pc = "recorded"
    /\ entries' = live.decisions
    /\ pc' = "match"
    /\ UNCHANGED <<liveVars, trace, mode, clk, pos, versions, items, worklist, shadow>>

VerifyRecordedDocument(row) == row.sealed
IndexRecordedEntries(found) == \A k \in DOMAIN found : VerifyRecordedDocument(found[k])

\* The cited version is not older than the trigger's and exists in the replay.
RecordedCitation(row, k) == row.sit = k[1] /\ row.cited >= k[2]
RecordedSnapshotDigest(row) == row.cited <= Len(versions[row.sit])
ValidateRecordedSnapshot(row) == row.snapshot = SnapshotDigest(versions, EpisodeKey(row.sit, row.cited))
ValidateRecordedAttempt(row, k) == row.episode = k

(* Fault: the citation is compared, the snapshot is not. *)
validateCitationOnly(row, k) ==
    RecordedCitation(row, k) /\ RecordedSnapshotDigest(row) /\ ValidateRecordedAttempt(row, k)

validateRecordedDecision(row, k) ==
    /\ RecordedCitation(row, k)
    /\ RecordedSnapshotDigest(row)
    /\ ValidateRecordedSnapshot(row)
    /\ ValidateRecordedAttempt(row, k)

RequireExpectedRecordedKeys(found) == DOMAIN found \subseteq worklist

\* An empty worklist asks for an empty ledger, which is the same condition.
matchRecordedEpisodes ==
    /\ pc = "match"
    /\ pc' = IF /\ IndexRecordedEntries(entries)
                /\ \A k \in worklist : k \in DOMAIN entries /\ validateRecordedDecision(entries[k], k)
                /\ RequireExpectedRecordedKeys(entries)
             THEN "verified" ELSE "failed"
    /\ UNCHANGED <<liveVars, trace, mode, clk, pos, versions, items, worklist, entries, shadow>>

----------------------------------------------------------------------------
(* Shadow mode: one trial after the other. *)

Decisions == {"hold", "act"}
NoTrials == [todo |-> {}, stored |-> <<>>, reported |-> {}, findings |-> {}, calls |-> 0]

candidateFinding(sh, code, k) == [sh EXCEPT !.findings = @ \cup {<<code, k>>}]

\* Both executors were called; a candidate without a valid answer is a finding.
evaluateCandidate(sh, k, outcome) ==
    candidateFinding(sh, IF outcome = "invalid" THEN "shadow_candidate_invalid" ELSE "shadow_candidate_failed", k)

\* The comparison is stored under its key, then reported.
recordShadowComparison(sh, k, baseline, candidate) ==
    [sh EXCEPT !.stored = Put(@, k, <<baseline, candidate>>),
               !.reported = @ \cup {k},
               !.findings = IF baseline = candidate THEN @ ELSE @ \cup {<<"shadow_decision_diff", k>>}]

\* The worklist is sorted by Situation id, a digest: any order of Situations.
compareShadowEpisode(k, baseline, outcome) ==
    /\ pc = "shadow" /\ k \in shadow.todo
    /\ LET called == [shadow EXCEPT !.todo = @ \ {k}, !.calls = @ + 2]
       IN  shadow' = IF outcome \in Decisions THEN recordShadowComparison(called, k, baseline, outcome)
                     ELSE evaluateCandidate(called, k, outcome)
    /\ UNCHANGED <<liveVars, trace, mode, pc, clk, pos, versions, items, worklist, entries>>

applyPairedShadow ==
    /\ pc = "shadow" /\ shadow.todo = {}
    /\ pc' = "reported"
    /\ UNCHANGED <<liveVars, trace, mode, clk, pos, versions, items, worklist, entries, shadow>>

\* The baseline fails, a comparison cannot be stored or the caller's context
\* ends: the command fails, and what was stored stays in its database.
shadowFails ==
    /\ pc = "shadow" /\ shadow.todo # {}
    /\ pc' = "failed"
    /\ UNCHANGED <<liveVars, trace, mode, clk, pos, versions, items, worklist, entries, shadow>>

----------------------------------------------------------------------------
Init ==
    /\ setting \in DOMAIN Settings
    /\ \E t \in Traces : live = LiveStart(t)
    /\ saw = <<>>
    /\ trace \in Traces
    /\ mode \in Modes
    /\ pc = "prepare" /\ clk = 0 /\ pos = 0
    /\ versions = NoFacts
    /\ items = <<>> /\ worklist = {} /\ entries = <<>>
    /\ shadow = NoTrials

Step ==
    \/ LiveLine
    \/ \E k \in DOMAIN live.status : LiveAdmit(k) \/ LiveClaim(k) \/ LiveDecide(k) \/ LiveFail(k) \/ Tamper(k)
    \/ prepareReplayClock \/ runAllPartitions \/ materializeEpisodes
    \/ recordedEntries \/ matchRecordedEpisodes
    \/ \E k \in worklist, baseline \in Decisions, outcome \in Decisions \cup {"failed", "invalid"} :
            compareShadowEpisode(k, baseline, outcome)
    \/ applyPairedShadow \/ shadowFails

Next == Step /\ UNCHANGED setting

Spec == Init /\ [][Next]_<<vars, setting>>

----------------------------------------------------------------------------

(* A verified replay reproduced what the live workers saw: every accepted  *)
(* decision it read was really made on the facts the replay has for the    *)
(* version it cites, whatever the live runtime did since, and whatever     *)
(* became of the stored documents.                                         *)
VerifiedSawTheSame ==
    pc = "verified" =>
        \A k \in worklist : saw[k] = SnapshotDigest(versions, EpisodeKey(k[1], Len(saw[k])))
============================================================================
