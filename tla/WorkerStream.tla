---------------------------- MODULE WorkerStream ----------------------------
(***************************************************************************)
(* One episode attempt on an out-of-process worker: the wall-time bound,   *)
(* the wire request and its evidence capability, the handshake, the event  *)
(* stream that is validated event by event, and the outcome made of it.    *)
(* The worker is external: it may send any event, stay silent, or break.   *)
(***************************************************************************)
EXTENDS Integers, Sequences, FiniteSets, SequencesExt, FiniteSetsExt, TLC

CONSTANTS
    Settings  \* the deployments to check, by name

VARIABLES
    phase,      \* "idle", "negotiating", "opening", "streaming", "ended"
    req,        \* the durable request of the attempt
    profile,    \* the executor's profile
    wire,       \* the request as the worker receives it
    handshake,  \* the accepted handshake
    stream,     \* the trusted view of the event stream
    ending,     \* "none", "cancelled" or "expired": how the context ended
    result,     \* the outcome or the classified error Execute returned
    log,        \* history: the events accepted so far
    setting     \* the deployment, chosen once

vars == <<phase, req, profile, wire, handshake, stream, ending, result, log>>

\* The parameters of the chosen setting.
Requests == Settings[setting].requests
Profiles == Settings[setting].profiles
Handshakes == Settings[setting].handshakes
Payloads == Settings[setting].payloads
Lags == Settings[setting].lags
Gaps == Settings[setting].gaps
Datings == Settings[setting].datings
Sizes == Settings[setting].sizes
MaxEvents == Settings[setting].maxEvents
MaxStreamBytes == Settings[setting].maxStreamBytes

None == [absent |-> TRUE]
NoUsage == [absent |-> TRUE]

UsageMetrics == {"input_tokens", "output_tokens", "cost_microunits"}
CountMetrics == {"model_calls", "tool_calls", "tool_result_bytes", "provider_retries"}
Metrics == UsageMetrics \cup CountMetrics \cup {"total_tool_result_bytes"}

Evidence == "evidence_tools"
Version == "1.0"

Over(limit, metric, amount) == limit[metric] > 0 /\ amount > limit[metric]

-----------------------------------------------------------------------------
(* The wire request. *)

decodes(digest) == digest \notin {"", "malformed"}

artifacts(payload) == payload.snapshot /\ payload.tools /\ payload.schema

provenance(r) == decodes(r.snapshot) /\ decodes(r.spec)

promptProvenance(r) ==
    /\ r.prompt # "" /\ r.objective # ""
    /\ decodes(r.payload.prompt)
    /\ decodes(r.payload.objective)

catalogProvenance(r) ==
    /\ r.payload.catalog # "malformed"
    /\ r.payload.prompt = r.prompt
    /\ r.payload.objective = r.objective

reconsiderationMessage(revision) ==
    revision # None /\ revision.prior /\ revision.correction /\ revision.evidence

reconsiderationShape(payload) ==
    payload.kind = "reconsider" => reconsiderationMessage(payload.reconsideration)

shape(payload) ==
    /\ payload.kind \in {"standard", "reconsider"}
    /\ payload.lane \in {"fast", "deep"}
    /\ reconsiderationShape(payload)
    /\ payload.risk \in {"R0", "R1", "R2", "R3", "R4"}

ValidateBudget(wallTime) == wallTime > 0

bindWallTimeBudget(r) == ValidateBudget(r.wallTime)

attachCatalogs(payload) == payload.intents > 0

WireRequest(r) ==
    /\ r.version > 0 /\ r.fence > 0
    /\ artifacts(r.payload)
    /\ provenance(r)
    /\ promptProvenance(r)
    /\ catalogProvenance(r)
    /\ shape(r.payload)
    /\ bindWallTimeBudget(r)
    /\ attachCatalogs(r.payload)

dispatchPolicyEnum(policy) == IF policy = "active" THEN "active" ELSE "shadow"

ValidateEvidenceConfig(p) ==
    \/ p.endpoint = ""
    \/ p.cleanPath /\ Evidence \in p.features /\ p.factory

(* Issue: the capability is scoped to the attempt and ends at the snapshot's
   event horizon; a request without a readable horizon gets none. *)
signAttemptScope(r, p) ==
    [attempt |-> r.attempt, fence |-> r.fence, from |-> r.horizon - p.window, until |-> r.horizon]

Issuable(r, p) == p.window > 0 /\ p.maxRows > 0 /\ r.horizon # 0

boundRequest(r) ==
    [attempt |-> r.attempt, fence |-> r.fence, limits |-> r.limits, size |-> r.size,
     prompt |-> r.payload.prompt, objective |-> r.payload.objective,
     kind |-> r.payload.kind, policy |-> dispatchPolicyEnum(r.policy), token |-> None]

bindExecutionScope(r, p) ==
    IF p.endpoint = ""
      THEN boundRequest(r)
      ELSE [boundRequest(r) EXCEPT !.token = signAttemptScope(r, p)]

-----------------------------------------------------------------------------
(* The handshake. *)

validateNegotiatedLimits(p, h, w) ==
    /\ p.features \subseteq h.features
    /\ h.maxRequest > 0 => w.size <= h.maxRequest

ValidateHandshake(p, h, w) ==
    /\ h.protocol = Version /\ h.contract = Version
    /\ p.name # "" => h.name = p.name
    /\ validateNegotiatedLimits(p, h, w)

-----------------------------------------------------------------------------
(* The trusted count of what the worker consumed. *)

ZeroUsage == [m \in UsageMetrics |-> 0]

budgetUsage ==
    [calls |-> [m \in CountMetrics |-> 0], perEvent |-> ZeroUsage, cumulative |-> ZeroUsage,
     hasCumulative |-> FALSE, reported |-> FALSE]

addPerEventUsage(u, x) ==
    [u EXCEPT !.reported = TRUE, !.perEvent = [m \in UsageMetrics |-> @[m] + x[m]]]

observeModel(u, e) ==
    IF e.kind = "model_started" THEN [u EXCEPT !.calls["model_calls"] = @ + 1]
    ELSE IF e.kind = "model_completed" /\ e.usage # NoUsage THEN addPerEventUsage(u, e.usage)
    ELSE u

modelExceeds(limit, u, e) ==
    e.kind = "model_started" /\ Over(limit, "model_calls", u.calls["model_calls"])

regresses(u, x) == u.hasCumulative /\ \E m \in UsageMetrics : x[m] < u.cumulative[m]

recordCumulativeUsage(u, x) ==
    [u EXCEPT !.reported = TRUE, !.cumulative = x, !.hasCumulative = TRUE]

observeBudgetUpdate(u, e) ==
    [u EXCEPT !.calls = [m \in CountMetrics |-> Max({@[m], e.used[m]})]]

observeBudgetEvent(u, e) ==
    IF e.kind # "budget" THEN u
    ELSE observeBudgetUpdate(IF e.usage # NoUsage THEN recordCumulativeUsage(u, e.usage) ELSE u, e)

checkUsageLimits(limit, x) == \E m \in UsageMetrics : Over(limit, m, x[m])

checkReportedToolLimits(limit, e) ==
    \/ Over(limit, "tool_result_bytes", e.used["tool_result_bytes"])
    \/ Over(limit, "provider_retries", e.used["provider_retries"])
    \/ e.usage # NoUsage /\ checkUsageLimits(limit, e.usage)

checkReportedBudget(limit, e) ==
    \/ Over(limit, "model_calls", e.used["model_calls"])
    \/ Over(limit, "tool_calls", e.used["tool_calls"])
    \/ checkReportedToolLimits(limit, e)

observeToolProgress(u, e) ==
    IF e.kind = "tool_progress" THEN [u EXCEPT !.calls["tool_result_bytes"] = @ + e.bytes] ELSE u

observeTools(u, e) ==
    IF e.kind = "tool_started" THEN [u EXCEPT !.calls["tool_calls"] = @ + 1]
    ELSE observeToolProgress(u, e)

toolProgressExceeds(limit, u, e) ==
    /\ e.kind = "tool_progress"
    /\ \E m \in {"tool_result_bytes", "total_tool_result_bytes"} :
           Over(limit, m, u.calls["tool_result_bytes"])

toolsExceed(limit, u, e) ==
    \/ e.kind = "tool_started" /\ Over(limit, "tool_calls", u.calls["tool_calls"])
    \/ toolProgressExceeds(limit, u, e)

usage(u) ==
    IF u.hasCumulative
      THEN [m \in UsageMetrics |-> Max({u.perEvent[m], u.cumulative[m]})]
      ELSE u.perEvent

checkUsage(limit, u) == checkUsageLimits(limit, usage(u))

observe(u, e) == observeTools(observeBudgetEvent(observeModel(u, e), e), e)

(* The error of observe, in the order the code meets it; "" is none. *)
observeError(limit, u, e) ==
    LET counted == observe(u, e) IN
    IF modelExceeds(limit, counted, e) THEN "budget"
    ELSE IF e.kind = "budget" /\ e.usage # NoUsage /\ regresses(u, e.usage) THEN "protocol"
    ELSE IF e.kind = "budget" /\ checkReportedBudget(limit, e) THEN "budget"
    ELSE IF toolsExceed(limit, counted, e) THEN "budget"
    ELSE IF checkUsage(limit, counted) THEN "budget"
    ELSE ""

hasUsageBudget(limit) == \E m \in UsageMetrics : limit[m] > 0

hasNumericBudget(limit) == \E m \in Metrics : limit[m] > 0

-----------------------------------------------------------------------------
(* The stream. *)

NewStream(maxEventBytes) ==
    [decision |-> None, terminal |-> None, sawStarted |-> FALSE, sawBudget |-> FALSE,
     next |-> 1, bytes |-> 0, events |-> 0, maxEventBytes |-> maxEventBytes, usage |-> budgetUsage]

admitSize(s, size) ==
    /\ s.maxEventBytes > 0 => size <= s.maxEventBytes
    /\ s.events < MaxEvents
    /\ size <= MaxStreamBytes /\ s.bytes <= MaxStreamBytes - size

checkStarted(s, e) ==
    /\ s.next = 1 => e.kind = "started"
    /\ e.kind = "started" => ~s.sawStarted

(* Fault: an event of an earlier attempt is as good as one of this attempt. *)
UnfencedOrder(s, e) ==
    e.sequence = s.next /\ s.terminal = None /\ e.dated /\ checkStarted(s, e)

checkOrder(s, e) ==
    /\ e.fence = req.fence /\ e.sequence = s.next
    /\ s.terminal = None
    /\ e.dated
    /\ checkStarted(s, e)

acceptDecision(s, e) ==
    e.kind = "decision" => s.decision = None /\ e.own /\ e.sealed

acceptPayload(s, e) ==
    [s EXCEPT !.sawBudget = @ \/ e.kind = "budget",
              !.next = @ + 1,
              !.decision = IF e.kind = "decision" THEN e ELSE @,
              !.terminal = IF e.kind = "terminal" THEN e ELSE @]

AcceptError(s, e) ==
    IF ~admitSize(s, e.size) \/ ~checkOrder(s, e) THEN "protocol"
    ELSE IF observeError(wire.limits, s.usage, e) # "" THEN observeError(wire.limits, s.usage, e)
    ELSE IF ~acceptDecision(s, e) THEN "protocol"
    ELSE ""

Accept(s, e) ==
    acceptPayload([s EXCEPT !.events = @ + 1, !.bytes = @ + e.size,
                            !.sawStarted = @ \/ e.kind = "started",
                            !.usage = observe(@, e)], e)

requireUsageTelemetry(s) ==
    IF ~hasUsageBudget(wire.limits) \/ s.usage.reported THEN ""
    ELSE IF wire.limits["cost_microunits"] > 0 THEN "protocol"
    ELSE "telemetry"

(* The terminal's usage is recorded before the outcome is settled. *)
settledUsage(s) ==
    IF s.terminal # None /\ s.terminal.usage # NoUsage
      THEN [s EXCEPT !.usage = recordCumulativeUsage(@, s.terminal.usage)]
      ELSE s

checkComplete(s) ==
    IF ~s.sawStarted \/ s.terminal = None THEN "protocol"
    ELSE IF hasNumericBudget(wire.limits) /\ ~s.sawBudget THEN "telemetry"
    ELSE IF s.terminal.usage # NoUsage /\ regresses(s.usage, s.terminal.usage) THEN "protocol"
    ELSE IF s.terminal.usage # NoUsage /\ checkUsage(wire.limits, settledUsage(s).usage) THEN "budget"
    ELSE requireUsageTelemetry(settledUsage(s))

bindTerminalOutcome(s) ==
    [status |-> s.terminal.status, attempt |-> req.attempt, fence |-> req.fence,
     decision |-> IF s.terminal.status = "produced" THEN s.decision.decision ELSE "",
     cost |-> usage(settledUsage(s).usage)["cost_microunits"], reason |-> ""]

OutcomeError(s) ==
    IF checkComplete(s) # "" THEN checkComplete(s)
    ELSE IF s.terminal.status = "unspecified" THEN "protocol"
    ELSE IF s.terminal.status = "produced" /\ s.decision = None THEN "protocol"
    ELSE ""

-----------------------------------------------------------------------------
(* What the runner makes of an execution error. *)

ExecutionFailureStatus(error) ==
    CASE error = "canceled" -> "cancelled"
      [] error = "deadline" -> "timed_out"
      [] OTHER -> "failed"

ExecutionFailureReason(error) ==
    CASE error = "budget" -> "budget_exhausted"
      [] error = "telemetry" -> "budget_telemetry_missing"
      [] error = "canceled" -> "worker_cancelled"
      [] error = "deadline" -> "worker_deadline_exceeded"
      [] OTHER -> "worker_execution_failed"

Failure(error) ==
    [status |-> ExecutionFailureStatus(error), attempt |-> req.attempt, fence |-> req.fence,
     decision |-> "", cost |-> 0, reason |-> ExecutionFailureReason(error)]

(* Execute returns: the attempt's context is cancelled with it, which ends the
   worker's stream. *)
Return(value) == phase' = "ended" /\ result' = value

-----------------------------------------------------------------------------

Init ==
    /\ setting \in DOMAIN Settings
    /\ phase = "idle"
    /\ req \in Requests
    /\ profile \in Profiles
    /\ wire = None /\ handshake = None /\ stream = None
    /\ ending = "none" /\ result = None /\ log = <<>>

(* Everything up to the first call is local: the budget, the evidence set-up,
   the wire request and its capability. *)
Bounded == ValidateBudget(req.wallTime)

Execute ==
    /\ phase = "idle"
    /\ IF /\ Bounded
          /\ ValidateEvidenceConfig(profile)
          /\ WireRequest(req)
          /\ profile.endpoint # "" => Issuable(req, profile)
         THEN /\ phase' = "negotiating"
              /\ wire' = bindExecutionScope(req, profile)
              /\ UNCHANGED result
         ELSE Return(Failure("protocol")) /\ UNCHANGED wire
    /\ UNCHANGED <<req, profile, handshake, stream, ending, log>>

negotiate(h) ==
    /\ phase = "negotiating"
    /\ IF ValidateHandshake(profile, h, wire)
         THEN phase' = "opening" /\ handshake' = h /\ UNCHANGED result
         ELSE Return(Failure("protocol")) /\ UNCHANGED handshake
    /\ UNCHANGED <<req, profile, wire, stream, ending, log>>

Open ==
    /\ phase = "opening"
    /\ phase' = "streaming"
    /\ stream' = NewStream(handshake.maxEvent)
    /\ UNCHANGED <<req, profile, wire, handshake, ending, result, log>>

EventOf(payload, lag, gap, dated, size) ==
    [kind |-> payload.kind, usage |-> payload.usage, used |-> payload.used, bytes |-> payload.bytes,
     decision |-> payload.decision, own |-> payload.own, sealed |-> payload.sealed,
     status |-> payload.status, fence |-> req.fence - lag, sequence |-> stream.next + gap,
     dated |-> dated, size |-> size]

(* An event may still be delivered after the context ended: it was received
   before. *)
Recv(e) ==
    /\ phase = "streaming"
    /\ IF AcceptError(stream, e) = ""
         THEN stream' = Accept(stream, e) /\ log' = Append(log, e) /\ UNCHANGED <<phase, result>>
         ELSE Return(Failure(AcceptError(stream, e))) /\ UNCHANGED <<stream, log>>
    /\ UNCHANGED <<req, profile, wire, handshake, ending>>

EndOfStream ==
    /\ phase = "streaming"
    /\ Return(IF OutcomeError(stream) = "" THEN bindTerminalOutcome(stream)
              ELSE Failure(OutcomeError(stream)))
    /\ UNCHANGED <<req, profile, wire, handshake, stream, ending, log>>

Waiting == phase \in {"negotiating", "opening", "streaming"}

(* AsContextError: a call that failed on the ended context is told apart from
   one the worker or the connection failed. *)
AsContextError ==
    CASE ending = "cancelled" -> "canceled"
      [] ending = "expired" -> "deadline"
      [] OTHER -> "transport"

CallEnds ==
    /\ Waiting /\ ending # "none"
    /\ Return(Failure(AsContextError))
    /\ UNCHANGED <<req, profile, wire, handshake, stream, ending, log>>

(* The worker or the connection fails the call, with any status. *)
CallFails ==
    /\ Waiting
    /\ \E error \in {"canceled", "deadline", "transport"} : Return(Failure(error))
    /\ UNCHANGED <<req, profile, wire, handshake, stream, ending, log>>

executeWithinBudget ==
    /\ Waiting /\ ending = "none"
    /\ ending' = "expired"
    /\ UNCHANGED <<phase, req, profile, wire, handshake, stream, result, log>>

(* The runner cancels an attempt whose episode was superseded. *)
Cancel ==
    /\ Waiting /\ ending = "none"
    /\ ending' = "cancelled"
    /\ UNCHANGED <<phase, req, profile, wire, handshake, stream, result, log>>

Step ==
    \/ Execute
    \/ \E h \in Handshakes : negotiate(h)
    \/ Open
    \/ \E p \in Payloads, lag \in Lags, gap \in Gaps, dated \in Datings, size \in Sizes :
           phase = "streaming" /\ Recv(EventOf(p, lag, gap, dated, size))
    \/ EndOfStream
    \/ CallEnds
    \/ CallFails
    \/ executeWithinBudget
    \/ Cancel

Next == Step /\ UNCHANGED setting

Spec == Init /\ [][Next]_<<vars, setting>>

-----------------------------------------------------------------------------
(* Properties *)

Answered == phase = "ended" /\ result.reason = ""

Events(kind) == {i \in 1..Len(log) : log[i].kind = kind}

(* What the worker was given is what the episode bound: the prompt and the
   objective of the episode, and a capability of this attempt that ends at the
   snapshot's horizon (catalogProvenance, signAttemptScope). *)
GivenAsBound ==
    /\ wire.prompt = req.prompt /\ wire.objective = req.objective
    /\ wire.token # None =>
           wire.token.fence = req.fence /\ wire.token.attempt = req.attempt /\ wire.token.until <= req.horizon

(* The stream kept to the budgets of the request, and the outcome costs at
   least what any of its events reported (observe, checkComplete). *)
WithinBudget ==
    /\ ~Over(req.limits, "model_calls", Cardinality(Events("model_started")))
    /\ ~Over(req.limits, "tool_calls", Cardinality(Events("tool_started")))
    /\ ~Over(req.limits, "cost_microunits", result.cost)
    /\ \A i \in 1..Len(log) : log[i].usage # NoUsage => log[i].usage["cost_microunits"] <= result.cost

(* An answer that counts comes of a stream that began with started, ran
   without gap or repetition under this attempt's fence, ended in its terminal,
   answered the request as the episode bound it and kept to its budgets. A
   produced decision is the only decision of such a stream; any other outcome
   carries none (WireRequest, Stream.checkOrder, acceptDecision, Outcome). *)
DecisionFromOneStream ==
    /\ Answered =>
           /\ log[1].kind = "started" /\ Events("terminal") = {Len(log)}
           /\ \A i \in 1..Len(log) : log[i].sequence = i /\ log[i].fence = req.fence
           /\ result.fence = req.fence /\ result.attempt = req.attempt
           /\ GivenAsBound /\ WithinBudget
    /\ phase = "ended" /\ result.decision # "" =>
           /\ Answered /\ log[Len(log)].status = "produced"
           /\ \E i \in 1..Len(log) :
                  Events("decision") = {i} /\ log[i].decision = result.decision
                                           /\ log[i].sealed /\ log[i].own
=============================================================================
