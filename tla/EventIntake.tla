---- MODULE EventIntake ----
(* The way an event enters the durable log: the JSONL file source that polls an
   append-only trace and resumes from its checkpoint, the live source and the
   in-process feed that hand over one envelope at a time, the log that keeps
   one event per identifier, the quarantine of what was refused, and the
   operator commands that release and redrive it while the runtime is stopped. *)
EXTENDS Integers, Sequences, FiniteSets

CONSTANTS
    EventIDs,       \* identifiers of events
    Types,          \* event types
    Conforming,     \* the bodies that satisfy their type's schema
    RequireSchemas, \* BOOLEAN: an event needs a registered schema
    MaxAttempts,    \* deliveries of a refused payload the quarantine tolerates
    BatchSize,      \* envelopes appended in one transaction of the log
    MaxStops,       \* bound: restarts and failed transactions
    Settings        \* the deployments to check, by name

(* A line holds an envelope or it does not decode ("garbled"), is too long
   ("large") or is blank.  "valid": the envelope satisfies its contract. *)
Line == [kind : {"envelope", "garbled", "large", "blank"},
         id : EventIDs, type : Types, body : 0..3, valid : BOOLEAN]

IntakeAssumption ==
    /\ \A n \in DOMAIN Settings :
         Settings[n] \in [lines : SUBSET Line, fileSource : BOOLEAN, maxLines : Nat, maxRewrites : Nat]
    /\ RequireSchemas \in BOOLEAN
    /\ MaxAttempts \in Nat \ {0} /\ BatchSize \in Nat \ {0} /\ MaxStops \in Nat

VARIABLES
    log,         \* event_log: the envelopes in order of position
    quarantine,  \* event_quarantine, by event identifier
    gaps,        \* event_gaps
    schemas,     \* event_schemas: the types with an active schema
    file,        \* the trace
    position,    \* connector checkpoint: lines and bytes (here lines) consumed
    runtime,     \* "down" | "up" | "failed": the source stopped with an error
    run,         \* the replay in progress
    sent,        \* lines written or sent so far
    stops,       \* restarts and failures so far
    rewrites,    \* times the trace was replaced
    setting      \* the deployment, chosen once

logVars == <<log, quarantine, gaps>>
vars == <<log, quarantine, gaps, schemas, file, position, runtime, run, sent, stops, rewrites>>

\* The parameters of the chosen setting.
Lines == Settings[setting].lines
FileSource == Settings[setting].fileSource
MaxLines == Settings[setting].maxLines
MaxRewrites == Settings[setting].maxRewrites

IdleRun == [stage |-> "idle", start |-> 0, line |-> 0, offset |-> 0, pending |-> <<>>]

Init ==
    /\ setting \in DOMAIN Settings
    /\ log = <<>> /\ quarantine = <<>> /\ gaps = {} /\ schemas = {}
    /\ file = <<>> /\ position = [line |-> 0, offset |-> 0]
    /\ runtime = "down" /\ run = IdleRun
    /\ sent = 0 /\ stops = 0 /\ rewrites = 0

(***************************************************************************)
(* Admission of one line.                                                  *)
(***************************************************************************)

\* The envelope's type has an active schema; a process caches what it loaded,
\* which a registered version, being immutable, cannot outdate.
RegisteredSchema(env) == env.type \in schemas

CheckPayload(env) == env.body \in Conforming

ValidateSchema(env) == RequireSchemas => RegisteredSchema(env) /\ CheckPayload(env)

Admit(env) == env.valid /\ ValidateSchema(env)

\* Why a line is refused, or "" when it is admitted.
LineVerdict(l) ==
    CASE l.kind = "large"                        -> "line_too_large"
      [] l.kind = "garbled"                      -> "malformed_json"
      [] l.kind = "envelope" /\ ~l.valid         -> "envelope_invalid"
      [] l.kind = "envelope" /\ l.valid /\ ~ValidateSchema(l) -> "schema_invalid"
      [] OTHER                                   -> ""

\* A refused line is kept under the envelope's identifier when it decoded, and
\* under its connector and line number otherwise.
QuarantineID(l, n) == IF l.kind = "envelope" THEN <<"event", l.id>> ELSE <<"line", n>>

(***************************************************************************)
(* The log and its quarantine, as pure functions of the three tables.      *)
(***************************************************************************)

Tables == [log |-> log, quarantine |-> quarantine, gaps |-> gaps]

Row(payload, reason) ==
    [payload |-> payload, reason |-> reason, attempts |-> 1, status |-> "quarantined", redriven |-> FALSE]

ConflictingPayload(t, k, payload) == k \in DOMAIN t.quarantine /\ t.quarantine[k].payload # payload

\* Two payloads under one identifier: neither can be admitted any more.
RejectConflict(t, k, payload) ==
    [t EXCEPT !.quarantine[k].status = "rejected", !.quarantine[k].reason = "event_id_hash_conflict"]

\* A repeated payload is counted, and rejected once the count has reached its limit.
UpsertQuarantine(t, k, payload, reason) ==
    IF k \notin DOMAIN t.quarantine
    THEN [t EXCEPT !.quarantine =
            [j \in DOMAIN @ \cup {k} |-> IF j = k THEN Row(payload, reason) ELSE @[j]]]
    ELSE LET old == t.quarantine[k]
         IN [t EXCEPT !.quarantine[k] =
                [old EXCEPT !.reason = reason,
                            !.attempts = IF @ < MaxAttempts THEN @ + 1 ELSE @,
                            !.status = IF old.attempts >= MaxAttempts THEN "rejected" ELSE @]]

\* A rejected row leaves a gap in the log's record of its inputs.
RecordOverflow(t, k) ==
    IF t.quarantine[k].status = "rejected" THEN [t EXCEPT !.gaps = @ \cup {k}] ELSE t

PersistQuarantine(t, k, payload, reason) ==
    IF ConflictingPayload(t, k, payload)
    THEN RejectConflict(t, k, payload)
    ELSE RecordOverflow(UpsertQuarantine(t, k, payload, reason), k)

LoggedEvent(t, id) == {i \in 1..Len(t.log) : t.log[i].id = id}

\* Type, entity, time and payload digest: what makes two envelopes the same event.
SameEvent(a, b) == a.type = b.type /\ a.body = b.body

QuarantineConflictingDuplicate(t, env) ==
    IF \E i \in LoggedEvent(t, env.id) : SameEvent(t.log[i], env)
    THEN t
    ELSE PersistQuarantine(t, <<"event", env.id>>, env, "event_id_conflict")

\* The first envelope of an identifier is logged.  A repetition changes
\* nothing; another event under the same identifier is quarantined.
AppendOne(t, env) ==
    IF LoggedEvent(t, env.id) = {}
    THEN [t EXCEPT !.log = Append(@, env)]
    ELSE QuarantineConflictingDuplicate(t, env)

RECURSIVE AppendBatch(_, _)
AppendBatch(t, batch) ==
    IF batch = <<>> THEN t ELSE AppendBatch(AppendOne(t, Head(batch)), Tail(batch))

Write(t) == log' = t.log /\ quarantine' = t.quarantine /\ gaps' = t.gaps

(***************************************************************************)
(* The producer and the runtime's life.                                    *)
(***************************************************************************)

\* The producer appends whole lines to the trace.
AppendLine(l) ==
    /\ FileSource /\ sent < MaxLines
    /\ file' = Append(file, l)
    /\ sent' = sent + 1
    /\ UNCHANGED <<logVars, schemas, position, runtime, run, stops, rewrites>>

\* The trace is replaced by a shorter one, between two polls.
Shrink ==
    /\ FileSource /\ rewrites < MaxRewrites /\ file # <<>> /\ run.stage = "idle"
    /\ file' = Tail(file)
    /\ rewrites' = rewrites + 1
    /\ UNCHANGED <<logVars, schemas, position, runtime, run, sent, stops>>

\* Deploying a specification registers the schemas it declares, before serving.
RegisterEventSchema(t) ==
    /\ runtime = "down"
    /\ schemas' = schemas \cup {t}
    /\ schemas' # schemas
    /\ UNCHANGED <<logVars, file, position, runtime, run, sent, stops, rewrites>>

StartRuntime ==
    /\ runtime = "down"
    /\ runtime' = "up"
    /\ UNCHANGED <<logVars, schemas, file, position, run, sent, stops, rewrites>>

\* A stop or a crash between two transactions: the batch in memory is gone.
Stop ==
    /\ runtime # "down" /\ stops < MaxStops
    /\ runtime' = "down"
    /\ run' = IdleRun
    /\ stops' = stops + 1
    /\ UNCHANGED <<logVars, schemas, file, position, sent, rewrites>>

(***************************************************************************)
(* The file source.                                                        *)
(***************************************************************************)

\* The checkpoint is followed when the file still reaches it; a shorter file
\* is read from its top, passing over the lines counted before.
OpenTraceFrom ==
    /\ runtime = "up" /\ FileSource /\ run.stage = "idle"
    /\ LET resumed == position.offset > 0 /\ Len(file) >= position.offset
       IN run' = [IdleRun EXCEPT !.stage = "reading", !.start = position.line,
                                 !.line = IF resumed THEN position.line ELSE 0,
                                 !.offset = IF resumed THEN position.offset ELSE 0]
    /\ UNCHANGED <<logVars, schemas, file, position, runtime, sent, stops, rewrites>>

NextLine == file[run.offset + 1]

Reading == runtime = "up" /\ run.stage = "reading" /\ run.offset < Len(file)

Advance == [run EXCEPT !.line = @ + 1, !.offset = @ + 1]

\* A line already counted, or a blank one.
PassLine ==
    /\ Reading
    /\ run.line + 1 <= run.start \/ NextLine.kind = "blank"
    /\ run' = Advance
    /\ UNCHANGED <<logVars, schemas, file, position, runtime, sent, stops, rewrites>>

\* An admitted envelope joins the batch, which is appended when it is full.
BatchLine ==
    /\ Reading /\ run.line + 1 > run.start
    /\ NextLine.kind = "envelope" /\ LineVerdict(NextLine) = ""
    /\ LET pending == Append(run.pending, NextLine)
       IN IF Len(pending) >= BatchSize
          THEN Write(AppendBatch(Tables, pending)) /\ run' = [Advance EXCEPT !.pending = <<>>]
          ELSE UNCHANGED logVars /\ run' = [Advance EXCEPT !.pending = pending]
    /\ UNCHANGED <<schemas, file, position, runtime, sent, stops, rewrites>>

\* A refused line is quarantined in a transaction of its own.  A conflicting
\* payload ends the replay with an error: its checkpoint is not saved.
RefuseLine ==
    /\ Reading /\ run.line + 1 > run.start
    /\ LineVerdict(NextLine) # ""
    /\ LET k == QuarantineID(NextLine, run.line + 1)
       IN /\ Write(PersistQuarantine(Tables, k, NextLine, LineVerdict(NextLine)))
          /\ run' = IF ConflictingPayload(Tables, k, NextLine) THEN IdleRun ELSE Advance
    /\ UNCHANGED <<schemas, file, position, runtime, sent, stops, rewrites>>

AtEnd == runtime = "up" /\ run.stage = "reading" /\ run.offset >= Len(file)

\* Fault: the checkpoint is saved while the last batch is still in memory.
FlushTailLater ==
    /\ AtEnd
    /\ position' = [line |-> run.line, offset |-> run.offset]
    /\ run' = [run EXCEPT !.stage = "saving"]
    /\ UNCHANGED <<logVars, schemas, file, runtime, sent, stops, rewrites>>

\* The end of the file: the rest of the batch is appended.
FlushTail ==
    /\ AtEnd
    /\ Write(AppendBatch(Tables, run.pending))
    /\ run' = [run EXCEPT !.stage = "saving", !.pending = <<>>]
    /\ UNCHANGED <<schemas, file, position, runtime, sent, stops, rewrites>>

SavePosition ==
    /\ runtime = "up" /\ run.stage = "saving"
    /\ position' = [line |-> run.line, offset |-> run.offset]
    /\ run' = IdleRun
    /\ UNCHANGED <<logVars, schemas, file, runtime, sent, stops, rewrites>>

\* A transaction of the replay fails: the poll ends and the next one starts again.
FailReplay ==
    /\ runtime = "up" /\ run.stage # "idle" /\ stops < MaxStops
    /\ run' = IdleRun
    /\ stops' = stops + 1
    /\ UNCHANGED <<logVars, schemas, file, position, runtime, sent, rewrites>>

(***************************************************************************)
(* The live source and the in-process feed.                                *)
(***************************************************************************)

\* An admitted envelope goes to the sink, which appends it alone.
AcceptLive(l) ==
    /\ runtime = "up" /\ ~FileSource /\ sent < MaxLines
    /\ l.kind = "envelope" /\ LineVerdict(l) = ""
    /\ Write(AppendOne(Tables, l))
    /\ sent' = sent + 1
    /\ UNCHANGED <<schemas, file, position, runtime, run, stops, rewrites>>

\* A refused one is quarantined.  An error from the quarantine ends the source.
RejectLive(l) ==
    /\ runtime = "up" /\ ~FileSource /\ sent < MaxLines
    /\ LineVerdict(l) # ""
    /\ LET k == QuarantineID(l, sent + 1)
       IN /\ Write(PersistQuarantine(Tables, k, l, LineVerdict(l)))
          /\ runtime' = IF ConflictingPayload(Tables, k, l) THEN "failed" ELSE runtime
    /\ sent' = sent + 1
    /\ UNCHANGED <<schemas, file, position, run, stops, rewrites>>

(***************************************************************************)
(* The operator, with the runtime stopped.                                 *)
(***************************************************************************)

ReleaseQuarantine(k) ==
    /\ runtime = "down" /\ k \in DOMAIN quarantine
    /\ quarantine[k].status = "quarantined"
    /\ quarantine' = [quarantine EXCEPT ![k].status = "released"]
    /\ UNCHANGED <<log, gaps, schemas, file, position, runtime, run, sent, stops, rewrites>>

\* Only a released row that was not redriven has an envelope to admit; raw
\* bytes never become a valid envelope.
ReleasedEnvelope(k) ==
    /\ k \in DOMAIN quarantine
    /\ quarantine[k].status = "released" /\ ~quarantine[k].redriven
    /\ quarantine[k].payload.kind = "envelope"

MarkRedriven(t, k) ==
    IF t.quarantine[k].status = "released" THEN [t EXCEPT !.quarantine[k].redriven = TRUE] ELSE t

\* One transaction: the released envelope is admitted by today's schemas,
\* appended, and its row marked.  A failure leaves the row as it is.
RedriveQuarantine(k) ==
    /\ runtime = "down" /\ ReleasedEnvelope(k)
    /\ Admit(quarantine[k].payload)
    /\ Write(MarkRedriven(AppendOne(Tables, quarantine[k].payload), k))
    /\ UNCHANGED <<schemas, file, position, runtime, run, sent, stops, rewrites>>

Poll == OpenTraceFrom \/ PassLine \/ BatchLine \/ RefuseLine \/ FlushTail \/ SavePosition

Step ==
    \/ \E l \in Lines : AppendLine(l) \/ AcceptLive(l) \/ RejectLive(l)
    \/ Shrink \/ StartRuntime \/ Stop \/ FailReplay \/ Poll
    \/ \E t \in Types : RegisterEventSchema(t)
    \/ \E k \in DOMAIN quarantine : ReleaseQuarantine(k) \/ RedriveQuarantine(k)

Next == Step /\ UNCHANGED setting

Spec == Init /\ [][Next]_<<vars, setting>>

(***************************************************************************)
(* Properties.                                                             *)
(***************************************************************************)

\* What became of line n of the trace: it is in the log, or the quarantine
\* holds it, or it holds a row rejected over its identifier's conflict.
Accounted(n) ==
    LET l == file[n]
        k == QuarantineID(l, n)
    IN \/ l.kind = "blank"
       \/ \E i \in 1..Len(log) : l.kind = "envelope" /\ log[i].id = l.id /\ SameEvent(log[i], l)
       \/ k \in DOMAIN quarantine /\ (quarantine[k].payload = l \/ quarantine[k].status = "rejected")

\* A saved checkpoint passes no line that has no outcome: whatever stops,
\* failed transactions and repeated polls came before it, each line of an
\* append-only trace up to the checkpoint was logged or quarantined.
CheckpointLosesNothing ==
    rewrites = 0 => \A n \in 1..position.line : Accounted(n)
====
