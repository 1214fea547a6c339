------------------------------ MODULE RuleReading ------------------------------
(* What the playbook reads: the answer a decision document gives, the preset *)
(* its parameters name, and whether a feature reading lies in a rule's       *)
(* ranges (playbook/internal/domain).  A feature absent from a snapshot, or  *)
(* present and not a number, reads as Missing.                               *)
EXTENDS Integers, Sequences, SequencesExt, FiniteSets, FiniteSetsExt

CONSTANTS
    Presets,     \* [intent type -> sequence of [name, parameters], by name]
    WatchInstall,\* the intent type of the watch route
    NoIntent,    \* a decision that asks for nothing
    NoPreset,    \* parameters that name no preset
    Missing      \* a feature without a numeric value

Magnitude(n) == IF n < 0 THEN -n ELSE n

--------------------------------------------------------------------------------
presetHolds(preset, parameters) ==
    /\ DOMAIN preset # {}
    /\ \A k \in DOMAIN preset : k \in DOMAIN parameters /\ parameters[k] = preset[k]

(* The first preset, by name, all of whose values the parameters carry.      *)
PresetOf(intent, parameters) ==
    LET declared == IF intent \in DOMAIN Presets THEN Presets[intent] ELSE <<>>
        named == SelectSeq(declared, LAMBDA p : presetHolds(p.parameters, parameters))
    IN  IF named = <<>> THEN NoPreset ELSE Head(named).name

(* The first intent that neither installs a watch nor compensates another.   *)
actionableIntent(decision) ==
    SelectSeq(decision.intents, LAMBDA i : i.type # WatchInstall /\ ~i.compensates)

(* What a decision said: its diagnosis code, its actionable intent, and the  *)
(* preset that intent's parameters name.                                     *)
Observe(decision) ==
    LET found == actionableIntent(decision)
    IN  IF found = <<>>
        THEN [code |-> decision.code, intent |-> NoIntent, preset |-> NoPreset]
        ELSE [code   |-> decision.code,
              intent |-> Head(found).type,
              preset |-> PresetOf(Head(found).type, Head(found).parameters)]

(* A rule's recommendation, in the same terms.                               *)
Recommended(rule) == [code |-> rule.code, intent |-> rule.intent, preset |-> rule.preset]

Verdict(rule, observed) == IF observed = Recommended(rule) THEN "agree" ELSE "disagree"

presetParameters(rule) ==
    LET named == SelectSeq(Presets[rule.intent], LAMBDA p : p.name = rule.preset)
    IN  IF named = <<>> THEN <<>> ELSE Head(named).parameters

(* The decision the rule executor makes of a bound request: the rule's code  *)
(* and one intent with the parameters of its preset.                         *)
RuleDecision(rule) ==
    [code    |-> rule.code,
     intents |-> <<[type        |-> rule.intent,
                    compensates |-> FALSE,
                    parameters  |-> presetParameters(rule)]>>]

--------------------------------------------------------------------------------
number(reading, name) == IF name \in DOMAIN reading THEN reading[name] ELSE Missing

insideEnvelope(ranges, reading) ==
    \A name \in DOMAIN ranges :
        LET value == number(reading, name)
        IN  /\ value # Missing
            /\ value >= ranges[name].min
            /\ value <= ranges[name].max

(* A condition holds of a reading that carries every feature it compares,    *)
(* each at its threshold or above; evaluation fails, and the rule does not   *)
(* match, when one is missing.                                               *)
matches(when, reading) ==
    \A name \in DOMAIN when :
        LET value == number(reading, name)
        IN  value # Missing /\ value >= when[name]

(* The range the cited cases show of a feature every one of them carries.    *)
ObservedValues(readings, name) == {number(r, name) : r \in readings}

observed(readings, name) ==
    readings # {} /\ Missing \notin ObservedValues(readings, name)

observedRange(readings, name) ==
    LET values == ObservedValues(readings, name) \ {Missing}
    IN  [min |-> Min(values), max |-> Max(values)]

(* A cap reaches past its envelope by a share of the larger magnitude; the   *)
(* margin is in hundredths.                                                  *)
widened(bounds, margin) ==
    LET pad == (margin * Max({Magnitude(bounds.min), Magnitude(bounds.max)})) \div 100
    IN  [min |-> bounds.min - pad, max |-> bounds.max + pad]

ProposedEnvelope(readings, names) ==
    [name \in {n \in names : observed(readings, n)} |-> observedRange(readings, name)]

ProposedCap(envelope, margin) ==
    [name \in DOMAIN envelope |-> widened(envelope[name], margin)]

================================================================================
