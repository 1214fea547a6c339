------------------------------ MODULE MCIntake ------------------------------
(****************************************************************************)
(* Intake for TLC: the stream engine, the intake of events from a file or   *)
(* a socket, the trace of the simulator, the replay of a recorded trace and *)
(* the conversation with a plant node. One component moves in a behaviour,  *)
(* the others rest where they begin, so that every component is checked     *)
(* over its own deployments and interleavings.                              *)
(****************************************************************************)
EXTENDS StreamEngine, TLC

VARIABLES
    part,   \* the component that moves
    intakeLog, quarantine, gaps, schemas, file, position, runtime, run, sent, stops, rewrites,
    intakeSetting,
    trace, grammar, pending, simulatorLog, simulatorQuarantine, saved, outcome, simulatorStops,
    live, saw, replayTrace, mode, pc, clk, pos, replayVersions, items, worklist, entries, shadow,
    replaySetting,
    host, sessions, conv, queue, feeder, drained, held, recheck, reasoning, plantLog, conflicts, wire,
    seen, plantSetting

-----------------------------------------------------------------------------
(* The deployments of EventIntake.                                           *)

Env(id, body, ok) == [kind |-> "envelope", id |-> id, type |-> "t1", body |-> body, valid |-> ok]

Bare(kind) == [kind |-> kind, id |-> "a", type |-> "t1", body |-> 0, valid |-> FALSE]

IntakeSettings ==
    [\* Two events and a conflicting one, a breach of the schema, on a trace.
     trace |-> [lines |-> {Env("a", 1, TRUE), Env("a", 2, TRUE), Env("b", 3, TRUE), Bare("garbled"), Bare("blank")},
                fileSource |-> TRUE, maxLines |-> 3, maxRewrites |-> 1],
     \* The live source, with a breach of the contract and a line too long.
     live  |-> [lines |-> {Env("a", 1, TRUE), Env("a", 2, TRUE), Env("a", 3, TRUE), Env("b", 1, FALSE),
                           Bare("large")},
                fileSource |-> FALSE, maxLines |-> 5, maxRewrites |-> 0],
     \* A trace on which refused lines never share an identifier.
     calm  |-> [lines |-> {Env("a", 1, TRUE), Env("b", 3, TRUE), Bare("garbled")},
                fileSource |-> TRUE, maxLines |-> 3, maxRewrites |-> 0]]

-----------------------------------------------------------------------------
(* The deployments of SimulatorTrace.                                        *)

Control(type, ok, at) == [type |-> type, ok |-> ok, id |-> "", time |-> 0, at |-> at, conforms |-> TRUE]
Event(id, time, at, conforms) == [type |-> "event", ok |-> TRUE, id |-> id, time |-> time, at |-> at, conforms |-> conforms]

Config == Control("runtime_config", TRUE, 0)

\* Events that come again, under a taken identifier, before they happened or
\* against their schema, and records of every other type.
Records ==
    {Config, Control("runtime_config", FALSE, 0), Control("other", TRUE, 0), Control("blank", TRUE, 0),
     Control("model_activation", TRUE, 2), Control("trace_end", TRUE, 2), Control("trace_end", TRUE, 4),
     Event("a", 1, 1, TRUE), Event("a", 1, 2, TRUE), Event("b", 2, 2, TRUE), Event("a", 2, 3, TRUE),
     Event("c", 1, 3, FALSE), Event("b", 3, 2, TRUE)}

\* Every trace of up to three records, and with a configuration before them of
\* up to five.
Traces == UNION {[1..n -> Records] : n \in 0..3} \cup {<<Config>> \o t : t \in UNION {[1..n -> Records] : n \in 3..4}}

-----------------------------------------------------------------------------
(* The deployments of TraceReplay.                                           *)

TraceLine(id, s, at, fires) == [id |-> id, sit |-> s, at |-> at, fires |-> fires, valid |-> TRUE]
Broken(at) == [id |-> "broken", sit |-> "s1", at |-> at, fires |-> FALSE, valid |-> FALSE]

A == TraceLine("a", "s1", 2, TRUE)
B == TraceLine("b", "s1", 3, FALSE)
C == TraceLine("c", "s1", 1, TRUE)
D == TraceLine("d", "s2", 4, TRUE)

\* Two Situations, late, lost and changed lines, and quarantined ones.
ReplaySettings ==
    [recorded |-> [traces |-> {<<A, B, D>>, <<A, C, D>>, <<TraceLine("f", "s1", 2, TRUE), B, D>>},
                   modes |-> {"recorded"}, tampers |-> TRUE, debounce |-> 0],
     shadow   |-> [traces |-> {<<A, B, C, D>>, <<A, C, D>>, <<C, D, A>>, <<A, Broken(0), D>>, <<Broken(9)>>},
                   modes |-> {"shadow"}, tampers |-> FALSE, debounce |-> 1]]

-----------------------------------------------------------------------------
(* The deployments of PlantConversation.                                     *)

BoardsOf(devices) == {[board |-> "b1", environment |-> "simulated", members |-> devices]}
Entry(kind, digest) == [name |-> kind, declared |-> digest, digest |-> digest]
Node(devices, kinds) ==
    [min |-> 1, max |-> 1, contract |-> "c1", environment |-> "simulated", boards |-> BoardsOf(devices), kinds |-> kinds]

OneDevice == ("d1" :> [kind |-> "k1", entity |-> TRUE, beats |-> TRUE])
OneKind == ("k1" :> 1)

Fit == Node({"d1"}, <<Entry("k1", 1)>>)

\* The kind of the device changed on the node: quarantined.
Drifted == Node({"d1"}, <<Entry("k1", 2)>>)

\* One birth per rule of the admission.
Refused ==
    {[Fit EXCEPT !.min = 2], [Fit EXCEPT !.environment = "hardware"],
     [Fit EXCEPT !.environment = "mixed"], [Fit EXCEPT !.contract = "c0"],
     [Fit EXCEPT !.min = 0, !.max = 0], [Fit EXCEPT !.boards = BoardsOf({})],
     [Fit EXCEPT !.kinds = <<Entry("k1", 1), Entry("k1", 1)>>],
     [Fit EXCEPT !.kinds = <<[name |-> "k1", declared |-> 1, digest |-> 2]>>]}

Talk ==
    [births |-> {Fit}, types |-> {"NBIRTH", "DBIRTH", "DDATA", "NSYNC"}, qualities |-> {TRUE}, others |-> {},
     boots |-> {1}, staleAfter |-> 1, queueSize |-> 2, reasoned |-> TRUE, checkFails |-> FALSE, stops |-> FALSE,
     top |-> 7, lastSeq |-> 5, maxBD |-> 1, maxTime |-> 1, maxOut |-> 4]

ConversationSettings ==
    [\* A device is born, dies, reboots, its kind changes; every quality of sample.
     ingest   |-> [Talk EXCEPT !.births = {Fit, Drifted}, !.types = @ \cup {"DDEATH"}, !.qualities = BOOLEAN,
                               !.others = {"historical"}, !.boots = {1, 2}, !.staleAfter = 0,
                               !.queueSize = 3, !.reasoned = FALSE, !.lastSeq = 3, !.maxBD = 2, !.maxTime = 2,
                               !.maxOut = 3],
     \* Barriers are held; the check may fail and the host may stop.
     barrier  |-> [Talk EXCEPT !.others = {"unknown alias"}, !.checkFails = TRUE, !.stops = TRUE, !.lastSeq = 4],
     \* Gaps, foreign records and refused births, up to the largest number.
     sequence |-> [Talk EXCEPT !.births = {Fit, Drifted} \cup Refused,
                               !.types = {"NBIRTH", "NDEATH", "DBIRTH", "NSYNC"}, !.others = {"invalid", "outside"},
                               !.queueSize = 1, !.top = 4, !.lastSeq = 4, !.maxBD = 2, !.maxOut = 3]]

-----------------------------------------------------------------------------
Intake == INSTANCE EventIntake WITH
    EventIDs <- {"a", "b"}, Types <- {"t1"}, Conforming <- {1, 2}, RequireSchemas <- TRUE,
    MaxAttempts <- 2, BatchSize <- 2, MaxStops <- 2, Settings <- IntakeSettings, log <- intakeLog,
    setting <- intakeSetting

Simulator == INSTANCE SimulatorTrace WITH
    BatchSize <- 2, MaxStops <- 1, log <- simulatorLog, quarantine <- simulatorQuarantine,
    stops <- simulatorStops

Replay == INSTANCE TraceReplay WITH
    Situations <- {"s1", "s2"}, expiresAfter <- 1, Settings <- ReplaySettings, trace <- replayTrace,
    versions <- replayVersions, setting <- replaySetting

Conversation == INSTANCE PlantConversation WITH
    Environment <- "simulated", Contract <- "c1", Commissioned <- OneKind, Site <- OneDevice,
    EveryMS <- 1, MaxSessions <- 1, Settings <- ConversationSettings, log <- plantLog,
    setting <- plantSetting

ASSUME Intake!IntakeAssumption
ASSUME Simulator!TraceAssumption
ASSUME Conversation!PlantAssumption

intakeVars ==
    <<intakeLog, quarantine, gaps, schemas, file, position, runtime, run, sent, stops, rewrites,
      intakeSetting>>
simulatorVars ==
    <<trace, grammar, pending, simulatorLog, simulatorQuarantine, saved, outcome, simulatorStops>>
replayVars ==
    <<live, saw, replayTrace, mode, pc, clk, pos, replayVersions, items, worklist, entries, shadow,
      replaySetting>>
plantVars ==
    <<host, sessions, conv, queue, feeder, drained, held, recheck, reasoning, plantLog, conflicts, wire,
      seen, plantSetting>>
engineVars == <<vars, setting>>
all == <<part, engineVars, intakeVars, simulatorVars, replayVars, plantVars>>

(* A component that rests stays where one of its deployments begins.       *)
MCInit ==
    /\ part \in {"engine", "intake", "simulator", "replay", "plant"}
    /\ part # "engine" => setting = CHOOSE s \in Settings : TRUE
    /\ part # "intake" => intakeSetting = "calm"
    /\ part # "simulator" => trace = <<>>
    /\ part # "replay" => replaySetting = "shadow" /\ replayTrace = <<Broken(9)>> /\ live = Replay!LiveStart(replayTrace)
    /\ part # "plant" => plantSetting = "barrier"
    /\ Init /\ Intake!Init /\ Simulator!Init /\ Replay!Init /\ Conversation!Init

MCNext ==
    \/ part = "engine" /\ Next /\ UNCHANGED <<part, intakeVars, simulatorVars, replayVars, plantVars>>
    \/ part = "intake" /\ Intake!Next /\ UNCHANGED <<part, engineVars, simulatorVars, replayVars, plantVars>>
    \/ part = "simulator" /\ Simulator!Next /\ UNCHANGED <<part, engineVars, intakeVars, replayVars, plantVars>>
    \/ part = "replay" /\ Replay!Next /\ UNCHANGED <<part, engineVars, intakeVars, simulatorVars, plantVars>>
    \/ part = "plant" /\ Conversation!Next /\ UNCHANGED <<part, engineVars, intakeVars, simulatorVars, replayVars>>

MCSpec == MCInit /\ [][MCNext]_all

(* Only the plant's conversation moves, with barriers and reasoning.        *)
BarrierSpec == MCInit /\ part = "plant" /\ plantSetting = "barrier" /\ [][MCNext]_all

-----------------------------------------------------------------------------
(* A saved checkpoint passes no line that has no outcome (EventIntake).     *)
CheckpointLosesNothing == Intake!CheckpointLosesNothing

(* The replay of a simulator trace accepts exactly the well framed traces   *)
(* whose events the log admits, and the log follows the file.               *)
TraceFaithful == Simulator!TraceFaithful

(* A verified replay reproduced what the live workers saw (TraceReplay).    *)
VerifiedSawTheSame == Replay!VerifiedSawTheSame

(* A heartbeat follows a good sample of its boot (PlantConversation).       *)
HeartbeatsFollowSamples == Conversation!HeartbeatsFollowSamples

(* An answered barrier covers the events before it (PlantConversation).     *)
AnswersCoverEvents == Conversation!AnswersCoverEvents
=============================================================================
