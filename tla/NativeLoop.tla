----------------------------- MODULE NativeLoop -----------------------------
(***************************************************************************)
(* One native episode: the bounded model/tool loop of the in-process       *)
(* executor. A model call and a tool call are waits during which the       *)
(* attempt's context may end and events may be ingested; everything        *)
(* between two waits is one step. The model provider is external and may   *)
(* answer anything.                                                        *)
(***************************************************************************)
EXTENDS Integers, Sequences, FiniteSets, SequencesExt, FiniteSetsExt, TLC

CONSTANTS
    Tools,     \* the tools the executor was given
    Window,    \* evidence.DefaultReadWindow
    MaxRows,   \* evidence.DefaultReadMaxRows
    MaxBytes,  \* evidence.DefaultReadMaxBytes
    Envelope,  \* bytes of an evidence result without rows
    MaxRepair, \* Executor.maxRepair
    Settings   \* the deployments to check, by name

VARIABLES
    phase,         \* "idle", "ready", "calling", "tools", "reading", "waiting", "ended"
    req,           \* the request
    loop,          \* counters, usage, seen calls and observations of the loop
    pending,       \* the tool calls of the response still to run
    ending,        \* "none", "cancelled" or "expired"
    outcome,       \* the terminal outcome
    events,        \* the event log: a sequence of [entity, time, size]
    completed,     \* history: the usage of every completed model call
    setting        \* the deployment, chosen once

vars == <<phase, req, loop, pending, ending, outcome, events, completed>>

\* The parameters of the chosen setting.
Requests == Settings[setting].requests
Responses == Settings[setting].responses
Arguments == Settings[setting].arguments
Entities == Settings[setting].entities
Times == Settings[setting].times
EventSizes == Settings[setting].eventSizes
MaxLog == Settings[setting].maxLog
MaxCalls == Settings[setting].maxCalls

None == [absent |-> TRUE]
UsageMetrics == {"input_tokens", "output_tokens", "cost_microunits"}
ZeroUsage == [m \in UsageMetrics |-> 0]

NewLoop ==
    [modelCalls |-> 0, toolCalls |-> 0, retries |-> 0, repairs |-> 0, bytes |-> 0,
     usage |-> ZeroUsage, seen |-> {}, observations |-> <<>>]

-----------------------------------------------------------------------------
(* Budgets and usage. *)

Over(limit, amount) == limit > 0 /\ amount > limit

RequestBudget(r) == r.decodes /\ ~(r.budget.wallTime <= 0 /\ r.budget.modelCalls = 0)

AddUsage(a, b) == [m \in UsageMetrics |-> a[m] + b[m]]

HasUsageBudget(budget) == \E m \in UsageMetrics : budget.usage[m] > 0

ResponseUsageReported(response) == response.reported \/ response.usage # ZeroUsage

CheckUsage(used, budget) == \E m \in UsageMetrics : Over(budget.usage[m], used[m])

Outcome(status, reason, cost, decision) ==
    [status |-> status, identity |-> req.identity, reason |-> reason,
     cost |-> cost, decision |-> decision]

Failed(reason, l) == Outcome("failed", reason, l.usage["cost_microunits"], None)

ContextEndingOutcome(error, l) ==
    IF error = "cancelled"
      THEN Outcome("cancelled", "worker_cancelled", l.usage["cost_microunits"], None)
      ELSE Outcome("timed_out", "worker_deadline_exceeded", l.usage["cost_microunits"], None)

Conclude(value) == phase' = "ended" /\ outcome' = value /\ pending' = <<>>

-----------------------------------------------------------------------------
(* The evidence tool: a query narrows the scope of the episode. *)

requestedBound(asked, granted) == IF asked = 0 THEN granted ELSE asked

narrowWindow(query, from, until) ==
    [query EXCEPT !.from = Max({@, from}), !.until = Min({@, until})]

evidenceWindow(query, args) ==
    narrowWindow(query, requestedBound(args.from, query.from), requestedBound(args.until, query.until))

scopedQuery(args) ==
    evidenceWindow([from |-> req.horizon - Window, until |-> req.horizon,
                    rows |-> IF args.rows > 0 THEN Min({args.rows, MaxRows}) ELSE MaxRows,
                    bytes |-> IF args.bytes > 0 THEN Min({args.bytes, MaxBytes}) ELSE MaxBytes], args)

Queryable(args) ==
    /\ args.entity \in {"", req.entity}
    /\ req.horizon # 0
    /\ scopedQuery(args).from < scopedQuery(args).until

(* ReadEntityWindow: the events of the entity in the window, both ends
   included, in event-time then log order. *)
ReadEntityWindow(query) ==
    LET inWindow == {i \in 1..Len(events) : /\ events[i].entity = req.entity
                                            /\ events[i].time >= query.from
                                            /\ events[i].time <= query.until}
        earlier(i, j) == events[i].time < events[j].time \/ (events[i].time = events[j].time /\ i < j)
        ordered == SetToSortSeq(inWindow, earlier)
    IN  SubSeq(ordered, 1, Min({Len(ordered), query.rows}))

EncodedSize(rows) ==
    FoldSeq(LAMBDA i, sum : sum + events[i].size, Envelope, rows)
        + (IF rows = <<>> THEN 0 ELSE Len(rows) - 1)

(* boundedRows.add: rows are taken until one does not fit the byte budget. *)
boundedRows(rows, bytes) ==
    SubSeq(rows, 1, Max({0} \cup {n \in 1..Len(rows) : EncodedSize(SubSeq(rows, 1, n)) <= bytes}))

readRows(query) == boundedRows(ReadEntityWindow(query), query.bytes)

encodeEvidenceResult(rows) == [rows |-> ToSet(rows), bytes |-> EncodedSize(rows)]

-----------------------------------------------------------------------------

Init ==
    /\ setting \in DOMAIN Settings
    /\ phase = "idle"
    /\ req \in Requests
    /\ loop = NewLoop /\ pending = <<>> /\ ending = "none" /\ outcome = None
    /\ events = <<>> /\ completed = <<>>

Execute ==
    /\ phase = "idle"
    /\ IF RequestBudget(req)
         THEN phase' = "ready" /\ UNCHANGED <<outcome, pending>>
         ELSE Conclude(Outcome("error", "refused", 0, None))
    /\ UNCHANGED <<req, loop, ending, events, completed>>

(* step: the context, the call budget, then the model call. *)
step ==
    /\ phase = "ready" /\ loop.modelCalls < MaxCalls
    /\ IF ending # "none" THEN Conclude(ContextEndingOutcome(ending, loop)) /\ UNCHANGED loop
       ELSE IF req.budget.modelCalls > 0 /\ loop.modelCalls >= req.budget.modelCalls
         THEN Conclude(Failed("model_calls", loop)) /\ UNCHANGED loop
         ELSE /\ phase' = "calling"
              /\ loop' = [loop EXCEPT !.modelCalls = @ + 1]
              /\ UNCHANGED <<pending, outcome>>
    /\ UNCHANGED <<req, ending, events, completed>>

(* At the bound on calls only the context can end the loop. *)
stepEnds ==
    /\ phase = "ready" /\ loop.modelCalls >= MaxCalls /\ ending # "none"
    /\ Conclude(ContextEndingOutcome(ending, loop))
    /\ UNCHANGED <<req, loop, ending, events, completed>>

(* Fault: the context is looked at before a model call only, not after it. *)
AccountLate(l, response) ==
    IF HasUsageBudget(req.budget) /\ ~ResponseUsageReported(response) THEN Failed("telemetry", l)
    ELSE IF CheckUsage(l.usage, req.budget) THEN Failed("usage", l)
    ELSE None

account(l, response) ==
    IF HasUsageBudget(req.budget) /\ ~ResponseUsageReported(response) THEN Failed("telemetry", l)
    ELSE IF ending # "none" THEN ContextEndingOutcome(ending, l)
    ELSE IF CheckUsage(l.usage, req.budget) THEN Failed("usage", l)
    ELSE None

validateAllowedIntents(decision) == decision.intents \subseteq req.allowed

(* The identity stands for the episode, attempt, fence, situation, its version
   and the snapshot digest a decision names. *)
ValidateDecision(decision) ==
    /\ decision.decodes
    /\ decision.identity = req.identity
    /\ validateAllowedIntents(decision)

decide(l, decision) ==
    IF decision = None THEN Conclude(Failed("no_decision", l)) /\ loop' = l
    ELSE IF ValidateDecision(decision)
      THEN Conclude(Outcome("produced", "", l.usage["cost_microunits"], decision)) /\ loop' = l
    ELSE IF l.repairs >= MaxRepair THEN Conclude(Failed("decision_rejected", l)) /\ loop' = l
    ELSE /\ phase' = "ready" /\ loop' = [l EXCEPT !.repairs = @ + 1]
         /\ UNCHANGED <<pending, outcome>>

(* The tool-call budget is spent on a whole response or not at all. *)
runTools(l, calls) ==
    IF req.budget.toolCalls > 0 /\ Len(calls) > req.budget.toolCalls - l.toolCalls
      THEN Conclude(Failed("tool_calls", l)) /\ loop' = l
      ELSE phase' = "tools" /\ pending' = calls /\ loop' = l /\ UNCHANGED outcome

acceptResponse(response) ==
    LET l == [loop EXCEPT !.usage = AddUsage(@, response.usage)]
    IN  IF account(l, response) # None THEN Conclude(account(l, response)) /\ loop' = l
        ELSE IF response.calls # <<>> THEN runTools(l, response.calls)
        ELSE decide(l, response.decision)

ProviderAnswers(response) ==
    /\ phase = "calling"
    /\ acceptResponse(response)
    /\ completed' = Append(completed, response.usage)
    /\ UNCHANGED <<req, ending, events>>

retryProvider ==
    IF loop.retries < req.budget.retries
      THEN /\ phase' = "waiting" /\ loop' = [loop EXCEPT !.retries = @ + 1]
           /\ UNCHANGED <<pending, outcome>>
      ELSE /\ Conclude(Failed(IF req.budget.retries > 0 THEN "provider_retries" ELSE "provider_failed", loop))
           /\ UNCHANGED loop

(* The HTTP client's own timeout is a deadline error too, whether or not the
   attempt's context ended. *)
providerFailure(error) ==
    /\ phase = "calling"
    /\ error = "cancelled" => ending = "cancelled"
    /\ CASE error = "interrupt" -> Conclude(Failed("interrupt", loop)) /\ UNCHANGED loop
         [] error \in {"cancelled", "expired"} -> Conclude(ContextEndingOutcome(error, loop)) /\ UNCHANGED loop
         [] error = "fatal" -> Conclude(Failed("provider_failed", loop)) /\ UNCHANGED loop
         [] error = "retryable" -> retryProvider
    /\ UNCHANGED <<req, ending, events, completed>>

(* waitProviderRetry: the backoff, or the end of the context. *)
waitProviderRetry ==
    /\ phase = "waiting"
    /\ \/ phase' = "ready" /\ UNCHANGED <<pending, outcome>>
       \/ ending # "none" /\ Conclude(ContextEndingOutcome(ending, loop))
    /\ UNCHANGED <<req, loop, ending, events, completed>>

ToolsDone ==
    /\ phase = "tools" /\ pending = <<>>
    /\ phase' = "ready"
    /\ UNCHANGED <<req, loop, pending, ending, outcome, events, completed>>

admitToolCall(l, call) == [l EXCEPT !.seen = @ \cup {call}]

(* runTool up to the call itself. *)
runTool ==
    /\ phase = "tools" /\ pending # <<>>
    /\ LET call == Head(pending)
           l == [loop EXCEPT !.toolCalls = @ + 1]
       IN  IF ending # "none" THEN Conclude(ContextEndingOutcome(ending, l)) /\ loop' = l
           ELSE IF call.tool \notin Tools THEN Conclude(Failed("not_allowed", l)) /\ loop' = l
           ELSE IF call.args \notin DOMAIN Arguments
             THEN Conclude(Failed("arguments", l)) /\ loop' = l
           ELSE IF call \in loop.seen THEN Conclude(Failed("repeated", l)) /\ loop' = l
           ELSE /\ phase' = "reading"
                /\ loop' = admitToolCall(l, call)
                /\ UNCHANGED <<pending, outcome>>
    /\ UNCHANGED <<req, ending, events, completed>>

Observe(l, observation) ==
    /\ phase' = "tools" /\ pending' = Tail(pending)
    /\ loop' = [l EXCEPT !.observations = Append(@, observation)]
    /\ UNCHANGED outcome

recordToolFailure == Observe(loop, [rows |-> {}, bytes |-> 0, failed |-> TRUE])

recordToolResult(result) ==
    LET l == [loop EXCEPT !.bytes = @ + result.bytes]
    IN  IF Over(req.budget.resultBytes, result.bytes) THEN Conclude(Failed("oversized", loop)) /\ UNCHANGED loop
        ELSE IF Over(req.budget.totalBytes, l.bytes) THEN Conclude(Failed("total_bytes", l)) /\ loop' = l
        ELSE Observe(l, [rows |-> result.rows, bytes |-> result.bytes, failed |-> FALSE])

(* The tool reads the log as it is when the call is made; it may also fail. *)
ToolReturns(ok) ==
    /\ phase = "reading"
    /\ LET args == Arguments[Head(pending).args]
       IN  IF ok /\ Queryable(args)
             THEN recordToolResult(encodeEvidenceResult(readRows(scopedQuery(args))))
             ELSE recordToolFailure
    /\ UNCHANGED <<req, ending, events, completed>>

ToolInterrupted ==
    /\ phase = "reading"
    /\ Conclude(Failed("interrupt", loop))
    /\ UNCHANGED <<req, loop, ending, events, completed>>

(* Events arrive while the loop runs. *)
Ingest(entity, time, size) ==
    /\ phase \in {"ready", "calling", "reading"} /\ Len(events) < MaxLog
    /\ events' = Append(events, [entity |-> entity, time |-> time, size |-> size])
    /\ UNCHANGED <<phase, req, loop, pending, ending, outcome, completed>>

Running == phase \notin {"idle", "ended"}

(* executeBounded: the wall time, when the request has one. *)
WallTimePasses ==
    /\ Running /\ ending = "none" /\ req.budget.wallTime > 0
    /\ ending' = "expired"
    /\ UNCHANGED <<phase, req, loop, pending, outcome, events, completed>>

Cancel ==
    /\ Running /\ ending = "none"
    /\ ending' = "cancelled"
    /\ UNCHANGED <<phase, req, loop, pending, outcome, events, completed>>

Errors == {"interrupt", "cancelled", "expired", "fatal", "retryable"}

Step ==
    \/ Execute
    \/ step
    \/ stepEnds
    \/ \E r \in Responses : ProviderAnswers(r)
    \/ \E e \in Errors : providerFailure(e)
    \/ waitProviderRetry
    \/ ToolsDone
    \/ runTool
    \/ \E ok \in BOOLEAN : ToolReturns(ok)
    \/ ToolInterrupted
    \/ \E n \in Entities, t \in Times, b \in EventSizes : Ingest(n, t, b)
    \/ WallTimePasses
    \/ Cancel

Next == Step /\ UNCHANGED setting

Spec == Init /\ [][Next]_<<vars, setting>>

-----------------------------------------------------------------------------
(* Properties *)

Spent(metric) == FoldSeq(LAMBDA u, sum : sum + u[metric], 0, completed)

(* Whatever ends the loop, the outcome settles the cost of every model call
   that completed, one that answered after the context ended included; and an
   answer becomes the decision only while the attempt's context lives and the
   calls so far are within the usage budget (episodeLoop.account,
   ContextEndingOutcome). *)
CompletedCallsSettled ==
    phase = "ended" =>
        /\ outcome.cost = Spent("cost_microunits")
        /\ outcome.status = "produced" =>
              ending = "none" /\ \A m \in UsageMetrics : ~Over(req.budget.usage[m], Spent(m))
=============================================================================
