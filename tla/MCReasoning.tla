----------------------------- MODULE MCReasoning -----------------------------
(****************************************************************************)
(* Reasoning for TLC: the admission of reasoning, the rules that settle a   *)
(* Situation without a worker, the promotion of cases to rules, and the     *)
(* watches that wake a Situation again. One component moves in a            *)
(* behaviour, the others rest where they begin, so that every component is  *)
(* checked over its own deployments and interleavings.                      *)
(****************************************************************************)
EXTENDS WatchLedger, TLC

CONSTANTS WatchInstall, NoIntent, NoPreset, Missing, NoDigest, NoRule, NoDecision, UnknownCode,
          NoKind, NoWork

VARIABLES
    part,   \* the component that moves
    versions, reasoned, material, evals, items, episodes, recons, cognitionCommands, asked, told,
    cognitionNow, runtime, cognitionSetting,
    routingVersions, queue, routingEpisodes, routingFires, routingEvals, circuits, kinds, born, running,
    stops, routingSetting,
    cases, drafts, proposals, tally, file, loaded, expected, pass, work, resolving, swap, up, starts,
    edits, promotionSetting

-----------------------------------------------------------------------------
(* The deployments of Cognition.                                             *)

Trigger(name, when, threshold, completeness, delta, debounce, cooldown, expires) ==
    [name |-> name, when |-> when, threshold |-> threshold, completeness |-> completeness,
     materialDelta |-> delta, debounce |-> debounce, cooldown |-> cooldown, expiresAfter |-> expires]

Shape(phase, severity, completeness) == [phase |-> phase, severity |-> severity, completeness |-> completeness]

Loud == Shape("active", 2, "on_time")
Low == Shape("active", 1, "provisional")
Corrected == Shape("active", 1, "corrected")
Ended == Shape("resolved", 1, "final_by_policy")

Seldom == Trigger("seldom", 1, 1, "on_time", "", 0, 3, 1)
Delayed == Trigger("delayed", 1, 1, "", "facts", 2, 3, 1)
Prompt == Trigger("prompt", 1, 1, "provisional", "", 0, 0, 1)

Calm ==
    [situations |-> {"s1"}, triggers |-> <<Prompt>>, shapes |-> {Low, Loud}, reconsiders |-> FALSE, commands |-> {},
     unreadable |-> {}, auditKeys |-> {}, asks |-> FALSE, capacity |-> 2, maxVersions |-> 3, lastEvent |-> 1,
     maxTime |-> 1, maxHalts |-> 0]

CognitionSettings ==
    [\* Two situations share one place; one trigger wants a rise, one any change of facts.
     queue       |-> [Calm EXCEPT !.situations = {"s1", "s2"}, !.shapes = {Loud, Low, Ended}, !.capacity = 1,
                                  !.triggers = <<Trigger("rise", 1, 2, "any", "rise", 0, 0, 1),
                                                 Trigger("facts", 1, 1, "", "facts", 0, 0, 2)>>,
                                  !.maxVersions = 2, !.lastEvent = 1, !.maxTime = 2],
     \* Cooldown and debounce over three versions.
     timing      |-> [Calm EXCEPT !.triggers = <<Seldom, Delayed>>, !.lastEvent = 4, !.maxTime = 6],
     \* Audits, reconsiderations and approvals beside trigger work.
     reviews     |-> [Calm EXCEPT !.shapes = {Loud, Corrected}, !.reconsiders = TRUE, !.commands = {"c1"},
                                  !.auditKeys = {"k1"}, !.asks = TRUE, !.maxVersions = 2],
     \* Corrections of two commands, the documents of one of them lost.
     corrections |-> [Calm EXCEPT !.shapes = {Loud, Corrected}, !.reconsiders = TRUE, !.commands = {"c1", "c2"},
                                  !.unreadable = {"c2"}, !.maxVersions = 2],
     \* Items that wait behind a live episode and behind their debounce.
     drains      |-> [Calm EXCEPT !.situations = {"s1", "s2"}, !.triggers = <<Delayed>>, !.maxVersions = 2,
                                  !.lastEvent = 2, !.maxTime = 8],
     \* A drain, or an admission that fails the process, and the next process.
     halts       |-> [Calm EXCEPT !.shapes = {Loud}, !.maxVersions = 2, !.maxTime = 3, !.maxHalts = 2]]

-----------------------------------------------------------------------------
(* The deployments of RuleRouting.                                           *)

Level(n) == ("level" :> n)
Between(low, high) == ("level" :> [min |-> low, max |-> high])

Rule(mode, preset, rateCap, auditEvery) ==
    [mode |-> mode, when |-> Level(1), envelope |-> Between(1, 1), cap |-> Between(1, 2),
     code |-> "worn", intent |-> "repair", preset |-> preset, rateCap |-> rateCap, auditEvery |-> auditEvery,
     pinned |-> [kind |-> "k1", digest |-> "d1"]]

Pump(rateCap, auditEvery) == ("pump" :> Rule("active", "slow", rateCap, auditEvery))
PumpAndTrial == Pump(2, 2) @@ ("trial" :> Rule("shadow", "fast", 2, 2))

Values(speed) == ("speed" :> speed)

\* Presets no parameters can share.
Presets == ("repair" :> <<[name |-> "fast", parameters |-> Values(2)],
                            [name |-> "slow", parameters |-> Values(1)]>>)

Repair(parameters) == [type |-> "repair", compensates |-> FALSE, parameters |-> parameters]
Watch == [type |-> WatchInstall, compensates |-> FALSE, parameters |-> <<>>]
Undo == [type |-> "repair", compensates |-> TRUE, parameters |-> Values(2)]

Decides(intents) == [code |-> "worn", intents |-> intents]

Quiet ==
    [situations |-> {"s1"}, readings |-> {Level(1)}, rules |-> {"pump"}, book |-> Pump(2, 9),
     decisions |-> {Decides(<<Repair(Values(1))>>), Decides(<<>>)}, digests |-> {}, sampled |-> {},
     maxTime |-> 0, maxVersions |-> 2, maxEpisodes |-> 3, maxStops |-> 0]

RoutingSettings ==
    [\* Two situations admitted out of event time order, an hourly cap of one.
     fires   |-> [Quiet EXCEPT !.situations = {"s1", "s2"}, !.readings = {Level(1), Level(3)}, !.book = Pump(1, 9),
                               !.maxTime = 2, !.maxVersions = 1, !.maxEpisodes = 2],
     \* The cap switches the rule off; operators and a restart.
     switch  |-> [Quiet EXCEPT !.readings = {Level(1), Level(3)}, !.book = Pump(1, 9), !.maxStops = 1],
     \* Births with two digests and restarts.
     kinds   |-> [Quiet EXCEPT !.digests = {"d1", "d2"}, !.maxEpisodes = 2, !.maxStops = 2],
     \* Audits of an active rule, a shadow rule beside it, a restart.
     audits  |-> [Quiet EXCEPT !.rules = {"pump", "trial"}, !.book = PumpAndTrial, !.sampled = {<<"s1", 1>>},
                               !.decisions = {Decides(<<Watch, Undo, Repair(Values(1))>>),
                                              Decides(<<Repair(Values(1))>>), Decides(<<Watch>>)},
                               !.maxStops = 1]]

-----------------------------------------------------------------------------
(* The deployments of RulePromotion.                                         *)

Key(code, answer) == [code |-> code, kind |-> "d1", answer |-> answer]

TwoKeys == {Key("worn", "repair"), Key("drift", "recalibrate")}
RivalKeys == {Key("worn", "repair"), Key("worn", "shutdown")}

Catalog == {"worn", "drift"}
Remedies == ("drift" :> {"recalibrate"})
Barred == {"shutdown"}
ShadowExit == [agreeing |-> 1, disagreeing |-> 0]

Steady ==
    [keys |-> TwoKeys, readings |-> {Level(2)}, conditions |-> {Level(1)}, maxAttempt |-> 2, maxCases |-> 2,
     maxTally |-> 0, maxStarts |-> 0, maxEdits |-> 0]

PromotionSettings ==
    [\* Rival answers to one code, one of them barred, readings below zero.
     drafts    |-> [Steady EXCEPT !.keys = RivalKeys, !.readings = {Level(-4), Level(2)},
                                  !.conditions = {Level(-9), Level(2)}],
     \* Two rules approved and promoted across restarts.
     file      |-> [Steady EXCEPT !.maxAttempt = 1, !.maxTally = 1, !.maxStarts = 2],
     \* Two rules, the file of the first edited by hand while the second comes.
     rivals    |-> [Steady EXCEPT !.maxAttempt = 1, !.maxStarts = 1, !.maxEdits = 1],
     \* One rule, its file edited by hand.
     edits     |-> [Steady EXCEPT !.keys = {Key("worn", "repair")}, !.maxAttempt = 1, !.maxCases = 1, !.maxTally = 1,
                                  !.maxStarts = 1, !.maxEdits = 2],
     \* Two drafts, failed calls and a crash.
     concludes |-> [Steady EXCEPT !.maxStarts = 1]]

-----------------------------------------------------------------------------
Reasoner == INSTANCE Cognition WITH
    Settings <- CognitionSettings, commands <- cognitionCommands, now <- cognitionNow, setting <-
    cognitionSetting

Routing == INSTANCE RuleRouting WITH
    Kinds <- {"k1"}, Hour <- 1, CapWindow <- 1, MinMatches <- 2, Settings <- RoutingSettings,
    versions <- routingVersions, episodes <- routingEpisodes, fires <- routingFires, evals <- routingEvals, setting <-
    routingSetting

Promotion == INSTANCE RulePromotion WITH
    Presets <- {}, Context <- {}, Margin <- 50, DraftAfter <- 1, MaxCited <- 2, Settings <-
    PromotionSettings, setting <- promotionSetting

routingVars ==
    <<routingVersions, queue, routingEpisodes, routingFires, routingEvals, circuits, kinds, born, running,
      stops, routingSetting>>
promotionVars ==
    <<cases, drafts, proposals, tally, file, loaded, expected, pass, work, resolving, swap, up, starts,
      edits, promotionSetting>>
cognitionVars ==
    <<versions, reasoned, material, evals, items, episodes, recons, cognitionCommands, asked, told,
      cognitionNow, runtime, cognitionSetting>>
all == <<part, vars, cognitionVars, routingVars, promotionVars>>

(* A component that rests stays where one of its deployments begins.       *)
MCInit ==
    /\ part \in {"watch", "cognition", "routing", "promotion"}
    /\ part # "watch" => features = [s \in Situations |-> "absent"]
    /\ part # "cognition" => cognitionSetting = "queue"
    /\ part # "routing" => routingSetting = "switch"
    /\ part # "promotion" => promotionSetting = "file"
    /\ Init /\ Reasoner!Init /\ Routing!Init /\ Promotion!Init

MCNext ==
    \/ part = "watch" /\ Next /\ UNCHANGED <<part, cognitionVars, routingVars, promotionVars>>
    \/ part = "cognition" /\ Reasoner!Next /\ UNCHANGED <<part, vars, routingVars, promotionVars>>
    \/ part = "routing" /\ Routing!Next /\ UNCHANGED <<part, vars, cognitionVars, promotionVars>>
    \/ part = "promotion" /\ Promotion!Next /\ UNCHANGED <<part, vars, cognitionVars, routingVars>>

(* Cognition under its own fairness; the others need none.                  *)
MCSpec ==
    /\ MCInit /\ [][MCNext]_all
    /\ part # "cognition" \/ Reasoner!Fairness

-----------------------------------------------------------------------------
(* Every request for reasoning leaves the queue of a process that serves and *)
(* does not drain (Cognition).                                               *)
QueueDrains == Reasoner!QueueDrains

(* A rule answers at most its hourly cap (RuleRouting).                     *)
RateCapHolds == Routing!RateCapHolds

(* No write to the playbook file loses another one (RulePromotion).         *)
ApprovalsKept == Promotion!ApprovalsKept
=============================================================================
