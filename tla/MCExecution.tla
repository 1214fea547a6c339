----------------------------- MODULE MCExecution -----------------------------
(****************************************************************************)
(* Execution for TLC: the evidence calls of a worker, the stream of events  *)
(* a worker answers with, and the native model loop. One component moves    *)
(* in a behaviour, the others rest where they begin, so that every          *)
(* component is checked over its own deployments and interleavings.         *)
(****************************************************************************)
EXTENDS EvidenceCalls, TLC

VARIABLES
    part,   \* the component that moves
    phase, req, profile, wire, handshake, stream, ending, result, log, workerSetting,
    nativePhase, nativeReq, loop, pending, nativeEnding, outcome, nativeEvents, completed,
    nativeSetting

-----------------------------------------------------------------------------
(* The deployments of WorkerStream.                                          *)

Usages == {"input_tokens", "output_tokens", "cost_microunits"}
Counts == {"model_calls", "tool_calls", "tool_result_bytes", "provider_retries"}
Limits == Usages \cup Counts \cup {"total_tool_result_bytes"}
Absent == [absent |-> TRUE]

NoLimits == [m \in Limits |-> 0]

SoundPayload ==
    [snapshot |-> TRUE, tools |-> TRUE, schema |-> TRUE, prompt |-> "p1", objective |-> "o1",
     catalog |-> "c1", kind |-> "standard", lane |-> "fast", risk |-> "R2",
     reconsideration |-> Absent, intents |-> 1]

Sound ==
    [attempt |-> "a2", fence |-> 2, version |-> 1, wallTime |-> 1, snapshot |-> "s1", spec |-> "v1",
     prompt |-> "p1", objective |-> "o1", horizon |-> 9, size |-> 2, policy |-> "active",
     limits |-> NoLimits, payload |-> SoundPayload]

Reconsiders(prior) ==
    [Sound EXCEPT !.payload.kind = "reconsider",
                  !.payload.reconsideration = [prior |-> prior, correction |-> TRUE, evidence |-> TRUE]]

Limited(metrics, n) ==
    [Sound EXCEPT !.limits = [m \in Limits |-> IF m \in metrics THEN n ELSE 0]]

BudgetRequests ==
    {Sound, Limited({"model_calls", "tool_calls"}, 1), Limited({"provider_retries"}, 1),
     Limited({"tool_result_bytes"}, 1), Limited({"input_tokens"}, 2), Limited({"cost_microunits"}, 2)}

(* Requests that cannot be bound to their episode, one defect each. *)
MixedRequests ==
    {Sound, Reconsiders(TRUE), Reconsiders(FALSE),
     [Sound EXCEPT !.payload.prompt = "p2"], [Sound EXCEPT !.payload.objective = "malformed"],
     [Sound EXCEPT !.wallTime = 0], [Sound EXCEPT !.payload.snapshot = FALSE],
     [Sound EXCEPT !.payload.intents = 0], [Sound EXCEPT !.payload.lane = "slow"],
     [Sound EXCEPT !.horizon = 0], [Sound EXCEPT !.size = 9], [Sound EXCEPT !.policy = "shadow"]}

Plain ==
    [name |-> "w", features |-> {}, endpoint |-> "", cleanPath |-> TRUE, factory |-> FALSE,
     window |-> 0, maxRows |-> 0]

WithEvidence ==
    [name |-> "w", features |-> {"evidence_tools"}, endpoint |-> "sock", cleanPath |-> TRUE, factory |-> TRUE,
     window |-> 5, maxRows |-> 1]

MixedProfiles ==
    {Plain, WithEvidence, [WithEvidence EXCEPT !.features = {}], [WithEvidence EXCEPT !.factory = FALSE],
     [Plain EXCEPT !.name = ""]}

Welcome ==
    [protocol |-> "1.0", contract |-> "1.0", name |-> "w", features |-> {"evidence_tools"},
     maxRequest |-> 4, maxEvent |-> 0]

MixedHandshakes ==
    {Welcome, [Welcome EXCEPT !.features = {}], [Welcome EXCEPT !.contract = "2.0"],
     [Welcome EXCEPT !.name = "x"], [Welcome EXCEPT !.maxEvent = 1]}

Nothing == [m \in Counts |-> 0]
UsageOf(input, cost) == "input_tokens" :> input @@ "cost_microunits" :> cost @@ "output_tokens" :> 0

Bare(kind) ==
    [kind |-> kind, usage |-> Absent, used |-> Nothing, bytes |-> 0, decision |-> "",
     own |-> TRUE, sealed |-> TRUE, status |-> ""]

Proposes(decision) == [Bare("decision") EXCEPT !.decision = decision]
Ends(status) == [Bare("terminal") EXCEPT !.status = status]
Reported(metric, n) == [Bare("budget") EXCEPT !.used = [@ EXCEPT ![metric] = n]]

BudgetPayloads ==
    {Bare("started"), Bare("model_started"), Bare("tool_started"), Bare("budget"), Ends("declined"),
     [Bare("model_completed") EXCEPT !.usage = UsageOf(2, 1)]}
    \cup {[Bare("budget") EXCEPT !.usage = UsageOf(i, i)] : i \in {0, 2}}
    \cup {[Ends("declined") EXCEPT !.usage = UsageOf(1, c)] : c \in {0, 3}}
    \cup {Reported("model_calls", 1), Reported("tool_calls", 2), Reported("provider_retries", 2),
          Reported("tool_result_bytes", 2)}
    \cup {[Bare("tool_progress") EXCEPT !.bytes = 1]}

EnvelopePayloads ==
    {Bare("started"), Bare("diagnostic"), Proposes("d1"), Proposes("d2"),
     [Proposes("d1") EXCEPT !.sealed = FALSE], [Proposes("d1") EXCEPT !.own = FALSE],
     Ends("produced"), Ends("declined"), Ends("cancelled"), Ends("unspecified")}

WorkerSettings ==
    [\* Usage and counters at their budgets.
     budgets   |-> [requests |-> BudgetRequests, profiles |-> {Plain}, handshakes |-> {Welcome},
                    payloads |-> BudgetPayloads, lags |-> {0}, gaps |-> {0}, datings |-> {TRUE}, sizes |-> {1},
                    maxEvents |-> 4, maxStreamBytes |-> 9],
     \* Requests, profiles and handshakes with a defect, and every envelope.
     envelopes |-> [requests |-> MixedRequests, profiles |-> MixedProfiles, handshakes |-> MixedHandshakes,
                    payloads |-> EnvelopePayloads, lags |-> {0, 1}, gaps |-> {-1, 0, 1}, datings |-> {TRUE, FALSE},
                    sizes |-> {1, 2}, maxEvents |-> 4, maxStreamBytes |-> 6]]

-----------------------------------------------------------------------------
(* The deployments of NativeLoop.                                            *)

Use(input, output, cost) == ("input_tokens" :> input) @@ ("output_tokens" :> output) @@ ("cost_microunits" :> cost)

Budget(wallTime, modelCalls, toolCalls, retries, resultBytes, totalBytes, usage) ==
    [wallTime |-> wallTime, modelCalls |-> modelCalls, toolCalls |-> toolCalls, retries |-> retries,
     resultBytes |-> resultBytes, totalBytes |-> totalBytes, usage |-> usage]

RequestOf(budget, decodes) ==
    [identity |-> "this", decodes |-> decodes, budget |-> budget, entity |-> "pump",
     horizon |-> 4, allowed |-> {"ticket"}]

Decision(identity, intents) == [identity |-> identity, decodes |-> TRUE, intents |-> intents]

NativeCall(tool, args) == [tool |-> tool, args |-> args]

AnyCalls ==
    {<<>>, <<NativeCall("evidence_get", "all")>>, <<NativeCall("evidence.get", "all")>>,
     <<NativeCall("evidence_get", "other"), NativeCall("evidence_get", "all")>>,
     <<NativeCall("evidence_get", "all"), NativeCall("evidence_get", "all")>>,
     <<NativeCall("shell", "all")>>, <<NativeCall("evidence_get", "broken")>>}

Asked(entity, from, until, limit, bytes) ==
    [entity |-> entity, from |-> from, until |-> until, rows |-> limit, bytes |-> bytes]

TwoQueries == ("all" :> Asked("", 0, 0, 0, 0)) @@ ("other" :> Asked("motor", 0, 0, 0, 0))

WideQueries ==
    ("all" :> Asked("", 0, 0, 0, 0)) @@ ("wide" :> Asked("pump", 1, 6, 9, 99))
        @@ ("narrow" :> Asked("pump", 3, 4, 1, 5)) @@ ("empty" :> Asked("pump", 4, 3, 0, 0))

LoopRequests ==
    {RequestOf(Budget(1, 3, 2, 1, 0, 0, Use(2, 0, 2)), TRUE),
     RequestOf(Budget(0, 3, 3, 0, 0, 3, Use(0, 0, 0)), TRUE),
     RequestOf(Budget(1, 0, 0, 1, 0, 0, Use(0, 1, 0)), TRUE),
     RequestOf(Budget(1, 1, 1, 1, 0, 0, Use(0, 0, 0)), FALSE)}

BudgetResponses ==
    {[calls |-> c, decision |-> Absent, reported |-> TRUE, usage |-> Use(1, 0, 1)] : c \in AnyCalls}
        \cup {[calls |-> <<>>, decision |-> d, reported |-> r, usage |-> u] :
                d \in {Decision("this", {"ticket"}), Decision("other", {"ticket"}), Decision("this", {"valve"})},
                r \in BOOLEAN, u \in {Use(0, 0, 0), Use(1, 1, 1)}}

EvidenceRequests == {RequestOf(Budget(1, 2, 2, 0, 7, 12, Use(0, 0, 0)), TRUE)}

EvidenceResponses ==
    {[calls |-> <<NativeCall("evidence_get", a)>>, decision |-> Absent, reported |-> TRUE, usage |-> Use(0, 0, 0)] :
        a \in DOMAIN WideQueries}
        \cup {[calls |-> <<>>, decision |-> Decision("this", {"ticket"}), reported |-> TRUE, usage |-> Use(0, 0, 0)]}

EndRequests ==
    {RequestOf(Budget(w, m, 0, 2, 0, 0, Use(0, 0, 0)), TRUE) : w \in {0, 1}, m \in {0, 2}}

EndResponses ==
    {[calls |-> c, decision |-> Absent, reported |-> TRUE, usage |-> Use(0, 0, 0)] :
        c \in {<<NativeCall("evidence_get", "all")>>, <<NativeCall("evidence.get", "all")>>}}
        \cup {[calls |-> <<>>, decision |-> Decision("other", {}), reported |-> TRUE, usage |-> Use(0, 0, 0)]}

NativeSettings ==
    [\* The model answers, fails, asks for tools and is cancelled in every order.
     budgets  |-> [requests |-> LoopRequests, responses |-> BudgetResponses, arguments |-> TwoQueries,
                   entities |-> {"pump"}, times |-> {3}, eventSizes |-> {1}, maxLog |-> 1, maxCalls |-> 4],
     \* Queries that ask for more than the scope, while events of two entities arrive.
     evidence |-> [requests |-> EvidenceRequests, responses |-> EvidenceResponses, arguments |-> WideQueries,
                   entities |-> {"pump", "motor"}, times |-> {1, 4, 5}, eventSizes |-> {3}, maxLog |-> 2, maxCalls |-> 3],
     \* A wall time or a call budget alone.
     ends     |-> [requests |-> EndRequests, responses |-> EndResponses, arguments |-> TwoQueries,
                   entities |-> {"pump"}, times |-> {3}, eventSizes |-> {1}, maxLog |-> 1, maxCalls |-> 4]]

-----------------------------------------------------------------------------
Worker == INSTANCE WorkerStream WITH
    Settings <- WorkerSettings, setting <- workerSetting

Native == INSTANCE NativeLoop WITH
    Tools <- {"evidence_get", "evidence.get"}, Window <- 2, MaxRows <- 2, MaxBytes <- 7, Envelope <-
    1, MaxRepair <- 1, Settings <- NativeSettings, phase <- nativePhase, req <- nativeReq, ending <-
    nativeEnding, events <- nativeEvents, setting <- nativeSetting

workerVars ==
    <<phase, req, profile, wire, handshake, stream, ending, result, log, workerSetting>>
nativeVars ==
    <<nativePhase, nativeReq, loop, pending, nativeEnding, outcome, nativeEvents, completed,
      nativeSetting>>
evidenceVars == <<vars, setting>>
all == <<part, evidenceVars, workerVars, nativeVars>>

(* A component that rests stays where one of its deployments begins.       *)
MCInit ==
    /\ part \in {"evidence", "worker", "native"}
    /\ part # "evidence" => setting = "repeat"
    /\ part # "worker" => workerSetting = "budgets" /\ req = Sound /\ profile = Plain
    /\ part # "native" => nativeSetting = "evidence"
    /\ Init /\ Worker!Init /\ Native!Init

MCNext ==
    \/ part = "evidence" /\ Next /\ UNCHANGED <<part, workerVars, nativeVars>>
    \/ part = "worker" /\ Worker!Next /\ UNCHANGED <<part, evidenceVars, nativeVars>>
    \/ part = "native" /\ Native!Next /\ UNCHANGED <<part, evidenceVars, workerVars>>

MCSpec == MCInit /\ [][MCNext]_all

-----------------------------------------------------------------------------
(* An answer comes of one whole stream of this attempt, to the request as    *)
(* bound and within its budgets, with at most one decision (WorkerStream).  *)
DecisionFromOneStream == Worker!DecisionFromOneStream

(* The outcome settles the cost of every model call that completed, and no  *)
(* answer after the context ended becomes a decision (NativeLoop).          *)
CompletedCallsSettled == Native!CompletedCallsSettled
=============================================================================
