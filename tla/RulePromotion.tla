----------------------------- MODULE RulePromotion -----------------------------
(* How a rule comes to be: settled cases make a key eligible, the worker is  *)
(* asked to draft a condition, a checked reply becomes a pending proposal, a *)
(* signed approval writes the rule into the playbook file in shadow, a met   *)
(* shadow exit marks it active there, and the next start loads the file.     *)
(* The database transaction of an approval, the check of the file's digest  *)
(* and the rename are steps of their own; database writers are serialised,   *)
(* the file has its own mutex.                                               *)
EXTENDS RuleReading, TLC

CONSTANTS
    Catalog,     \* diagnosis codes with a settle window
    Remedies,    \* [codes the remedy map limits -> answers it allows]
    Barred,      \* answers at R3 or above, emergency or safety function
    UnknownCode, \* the diagnosis code that names no diagnosis
    NoKind,      \* a case without a device kind
    Context,     \* context features
    Margin,      \* envelopeMargin, in hundredths
    DraftAfter,  \* verified cases a draft needs
    MaxCited,    \* cases a request carries
    ShadowExit,  \* [agreeing, disagreeing]
    NoRule,      \* a key without a rule
    NoWork,      \* a pass that holds nothing, no open approval
    Settings     \* the deployments to check, by name

VARIABLES
    cases,      \* settled cases, oldest first: [key, verdict, reading]
    drafts,     \* rule_drafts, oldest first
    proposals,  \* rule_proposals
    tally,      \* shadow evaluations of each rule version
    file,       \* the playbook file: [Keys -> rule or NoRule]
    loaded,     \* the rules this process started with
    expected,   \* what this process last loaded from or wrote to the file
    pass,       \* where the playbook pass of the pipeline stands
    work,       \* what that pass holds in memory
    resolving,  \* the proposal whose rule is written and not yet committed
    swap,       \* the book about to be renamed into place, by its writer
    up,         \* whether the process runs
    starts,     \* how often it was restarted
    edits,      \* the edits of the file by hand, oldest first
    setting     \* the deployment, chosen once

vars == <<cases, drafts, proposals, tally, file, loaded, expected, pass, work, resolving, swap, up,
          starts, edits>>

\* The parameters of the chosen setting.
Keys == Settings[setting].keys
CaseReadings == Settings[setting].readings
Conditions == Settings[setting].conditions
MaxAttempt == Settings[setting].maxAttempt
MaxCases == Settings[setting].maxCases
MaxTally == Settings[setting].maxTally
MaxStarts == Settings[setting].maxStarts
MaxEdits == Settings[setting].maxEdits

Versions == 1..(1 + MaxCases + MaxEdits)
Verdicts == {"agree", "disagree"}
NoTally == [version \in Versions |-> [verdict \in Verdicts |-> 0]]

(* A database transaction can run: the process is up and no approval holds   *)
(* the write lock.                                                           *)
CanWrite == up /\ resolving = NoWork

--------------------------------------------------------------------------------
(* Eligibility, over the settled cases a pass has read.                      *)
Settled(settled, key, verdict) ==
    {c \in DOMAIN settled : settled[c].key = key /\ settled[c].verdict = verdict}

VerifiedCount(settled, key) == Cardinality(Settled(settled, key, "verified"))

(* Another answer was verified, or this one was not.                         *)
contradicted(settled, key) ==
    \E c \in DOMAIN settled :
        LET other == settled[c].key
        IN  /\ other.code = key.code
            /\ other.kind = key.kind
            /\ IF other.answer = key.answer
               THEN settled[c].verdict = "not_verified"
               ELSE settled[c].verdict = "verified"

Ruled(key) == loaded[key] # NoRule

HistoryPending(key) ==
    \/ \E d \in DOMAIN drafts : drafts[d].key = key /\ drafts[d].status = "requested"
    \/ \E p \in proposals : p.key = key /\ p.status \in {"pending", "written"}

RejectedEvidence(key) ==
    {p.evidence : p \in {q \in proposals : q.key = key /\ q.status = "rejected"}}

Eligible(settled, key) ==
    /\ ~Ruled(key)
    /\ ~HistoryPending(key)
    /\ key.kind # NoKind
    /\ key.code # UnknownCode
    /\ VerifiedCount(settled, key) >= DraftAfter
    /\ ~contradicted(settled, key)
    /\ \A evidence \in RejectedEvidence(key) : VerifiedCount(settled, key) > evidence

NewDraft(settled, key) ==
    [key |-> key, evidence |-> VerifiedCount(settled, key), attempts |-> 0,
     sent |-> {}, status |-> "requested"]

(* A draft is identified by its key and its evidence: asking twice is once.  *)
RequestDraft(settled, key) ==
    IF \E d \in DOMAIN drafts :
           drafts[d].key = key /\ drafts[d].evidence = VerifiedCount(settled, key)
    THEN {} ELSE {NewDraft(settled, key)}

requestDrafts(settled) ==
    LET asked == UNION {RequestDraft(settled, key) : key \in {k \in Keys : Eligible(settled, k)}}
    IN  drafts \o SetToSeq(asked)

(* The settle transaction: evaluations are judged and cases settled          *)
(* (RuleRouting has how for evaluations), then drafts are requested.        *)
Settle(judged, new) ==
    /\ CanWrite
    /\ pass = "settle"
    /\ Len(cases) + Len(new) <= MaxCases
    /\ tally' = [key \in Keys |->
          IF key \in DOMAIN judged
          THEN [tally[key] EXCEPT ![loaded[key].version][judged[key]] = @ + 1] ELSE tally[key]]
    /\ cases' = cases \o new
    /\ drafts' = requestDrafts(cases')
    /\ pass' = "draft"
    /\ UNCHANGED <<proposals, file, loaded, expected, work, resolving, swap, up, starts, edits>>

(* A pass judges at most one evaluation of each loaded shadow rule.          *)
ShadowRules == {key \in Keys : loaded[key] # NoRule /\ loaded[key].mode = "shadow"}

Judgements ==
    {judged \in UNION {[rules -> Verdicts] : rules \in SUBSET ShadowRules} :
        \A key \in DOMAIN judged : tally[key][loaded[key].version][judged[key]] < MaxTally}

NewCases ==
    {<<>>} \cup {<<c>> : c \in [key : Keys, verdict : {"verified", "not_verified"}, reading : CaseReadings]}

--------------------------------------------------------------------------------
(* One draft call a pass.                                                    *)
Requested == {d \in DOMAIN drafts : drafts[d].status = "requested"}

(* The newest verified cases of the key, up to MaxCited.                     *)
SentCases(key) ==
    LET verified == Settled(cases, key, "verified")
    IN  {c \in verified : Cardinality({d \in verified : d > c}) < MaxCited}

NoDraft ==
    /\ CanWrite
    /\ pass = "draft"
    /\ Requested = {}
    /\ pass' = "promote"
    /\ UNCHANGED <<cases, drafts, proposals, tally, file, loaded, expected, work, resolving, swap, up, starts, edits>>

(* The attempt is counted, and the request stored, before the call.          *)
Attempted(d, sent) == [drafts EXCEPT ![d].attempts = @ + 1, ![d].sent = sent]

StartDraft ==
    /\ CanWrite
    /\ pass = "draft"
    /\ Requested # {}
    /\ LET d == Min(Requested)
           sent == SentCases(drafts[d].key)
       IN  /\ drafts' = Attempted(d, sent)
           /\ work' = [draft |-> d, key |-> drafts[d].key, attempts |-> drafts[d].attempts, sent |-> sent]
    /\ pass' = "call"
    /\ UNCHANGED <<cases, proposals, tally, file, loaded, expected, resolving, swap, up, starts, edits>>

retryStatus == IF work.attempts + 1 >= MaxAttempt THEN "failed" ELSE "requested"

FinishDraft(status) ==
    /\ CanWrite
    /\ pass = "call"
    /\ drafts' = [drafts EXCEPT ![work.draft].status = status]
    /\ pass' = "promote"
    /\ work' = NoWork
    /\ UNCHANGED <<cases, tally, file, loaded, expected, resolving, swap, up, starts, edits>>

(* The call fails or runs out of its wall time.                              *)
DraftFails == pass = "call" /\ FinishDraft(retryStatus) /\ UNCHANGED proposals

DraftAnswersNothing == FinishDraft("no_proposal") /\ UNCHANGED proposals

(* What the compiler refuses of a rule.                                      *)
checkRuleDiagnosis(key) ==
    /\ key.code # UnknownCode
    /\ key.code \in Catalog
    /\ key.code \in DOMAIN Remedies => key.answer \in Remedies[key.code]

checkRuleTarget(key) == key.answer \notin Barred

checkCapRange(rule, name) ==
    /\ name \in DOMAIN rule.when \cup Context
    /\ rule.cap[name].min <= rule.cap[name].max

checkEnvelopeRange(rule, name) ==
    /\ name \in DOMAIN rule.cap
    /\ rule.envelope[name].min <= rule.envelope[name].max
    /\ rule.cap[name].min <= rule.envelope[name].min
    /\ rule.envelope[name].max <= rule.cap[name].max

checkRuleRanges(rule) ==
    /\ \A name \in DOMAIN rule.cap : checkCapRange(rule, name)
    /\ \A name \in DOMAIN rule.envelope : checkEnvelopeRange(rule, name)

checkRule(rule, key) ==
    checkRuleDiagnosis(key) /\ checkRuleTarget(key) /\ checkRuleRanges(rule)

(* The reply cites only cases the request carried.                           *)
citedCases(reply) == reply.cited # {} /\ reply.cited \subseteq work.sent

conditionHoldsFor(reply) == \A c \in reply.cited : matches(reply.when, cases[c].reading)

CheckProposal(reply) ==
    reply.key = work.key /\ citedCases(reply) /\ conditionHoldsFor(reply)

NextVersion(key) == IF loaded[key] = NoRule THEN 1 ELSE loaded[key].version + 1

RuleFromProposal(reply) ==
    LET envelope == ProposedEnvelope({cases[c].reading : c \in reply.cited}, DOMAIN reply.when \cup Context)
    IN  [version |-> NextVersion(work.key), mode |-> "shadow", when |-> reply.when,
         envelope |-> envelope, cap |-> ProposedCap(envelope, Margin), cited |-> reply.cited]

RecordProposal(key, evidence, rule) ==
    proposals' = proposals \cup {[key |-> key, evidence |-> evidence, rule |-> rule, status |-> "pending"]}

(* A checked reply is stored as a pending proposal; a refused one is not.    *)
propose(reply) == RecordProposal(work.key, drafts[work.draft].evidence, RuleFromProposal(reply))

DraftProposes(reply) ==
    /\ pass = "call"
    /\ IF CheckProposal(reply) /\ checkRule(RuleFromProposal(reply), work.key)
       THEN propose(reply) /\ FinishDraft("proposed")
       ELSE FinishDraft("refused") /\ UNCHANGED proposals

Replies ==
    IF pass # "call" THEN {}
    ELSE [key : Keys, when : Conditions, cited : SUBSET (DOMAIN cases)]

--------------------------------------------------------------------------------
(* The playbook file.  Its content stands for its digest.                    *)
PutRule(book, key, rule) == [book EXCEPT ![key] = rule]

(* The file is read, its digest checked and the changed book made; the      *)
(* rename is a step of its own.  The mutex keeps other writers of this       *)
(* process out, not the human with an editor.                                *)
update(book, by) ==
    /\ swap = NoWork
    /\ file = expected
    /\ swap' = [book |-> book, by |-> by]

(* Fault: the file is not read again, the rule is put into the book this     *)
(* process knows.                                                            *)
WriteFromMemory(p) == swap = NoWork /\ swap' = [book |-> PutRule(expected, p.key, p.rule), by |-> "approval"]

writeRule(p) == update(PutRule(file, p.key, p.rule), "approval")

swapIn ==
    /\ file' = swap.book
    /\ expected' = swap.book
    /\ swap' = NoWork

(* A verified approval: the rule is written to the file inside the           *)
(* transaction that settles the proposal.                                    *)
ApproveProposal(p) ==
    /\ CanWrite
    /\ p.status = "pending"
    /\ writeRule(p)
    /\ resolving' = p
    /\ UNCHANGED <<cases, drafts, proposals, tally, file, loaded, expected, pass, work, up, starts, edits>>

Swapping(by) == swap # NoWork /\ swap.by = by

ApprovalSwaps ==
    /\ Swapping("approval")
    /\ swapIn
    /\ UNCHANGED <<cases, drafts, proposals, tally, loaded, pass, work, resolving, up, starts, edits>>

CommitApproval ==
    /\ up
    /\ resolving # NoWork /\ ~Swapping("approval")
    /\ proposals' = (proposals \ {resolving}) \cup {[resolving EXCEPT !.status = "written"]}
    /\ resolving' = NoWork
    /\ UNCHANGED <<cases, drafts, tally, file, loaded, expected, pass, work, swap, up, starts, edits>>

(* The transaction fails after the file was written: its request was         *)
(* cancelled, or the database refused the write.                             *)
RollBackApproval ==
    /\ up
    /\ resolving # NoWork /\ ~Swapping("approval")
    /\ resolving' = NoWork
    /\ UNCHANGED <<cases, drafts, proposals, tally, file, loaded, expected, pass, work, swap, up, starts, edits>>

RejectProposal(p) ==
    /\ CanWrite
    /\ p.status = "pending"
    /\ proposals' = (proposals \ {p}) \cup {[p EXCEPT !.status = "rejected"]}
    /\ UNCHANGED <<cases, drafts, tally, file, loaded, expected, pass, work, resolving, swap, up, starts, edits>>

--------------------------------------------------------------------------------

ExitMet(judged) ==
    /\ judged["agree"] >= ShadowExit.agreeing
    /\ judged["disagree"] <= ShadowExit.disagreeing

exitedShadowRules ==
    {key \in ShadowRules : ExitMet(tally[key][loaded[key].version])}

activate(book, due) ==
    [key \in Keys |->
        IF /\ key \in due
           /\ book[key] # NoRule
           /\ book[key].mode = "shadow"
           /\ book[key].version = loaded[key].version
        THEN [book[key] EXCEPT !.mode = "active"] ELSE book[key]]

(* The tallies are read in a transaction, the file is written after it.      *)
PromoteReads ==
    /\ CanWrite
    /\ pass = "promote"
    /\ IF exitedShadowRules = {}
       THEN pass' = "settle" /\ UNCHANGED work
       ELSE pass' = "activate" /\ work' = [due |-> exitedShadowRules]
    /\ UNCHANGED <<cases, drafts, proposals, tally, file, loaded, expected, resolving, swap, up, starts, edits>>

Promoted == pass' = "settle" /\ work' = NoWork

(* A book with nothing to activate is not written.                           *)
PromoteWrites ==
    /\ up
    /\ pass = "activate"
    /\ activate(file, work.due) # file
    /\ update(activate(file, work.due), "promotion")
    /\ UNCHANGED <<cases, drafts, proposals, tally, file, loaded, expected, pass, work, resolving, up, starts, edits>>

PromoteKeeps ==
    /\ up
    /\ pass = "activate"
    /\ swap = NoWork /\ file = expected
    /\ activate(file, work.due) = file
    /\ Promoted
    /\ UNCHANGED <<cases, drafts, proposals, tally, file, loaded, expected, resolving, swap, up, starts, edits>>

PromotionSwaps ==
    /\ Swapping("promotion")
    /\ swapIn
    /\ Promoted
    /\ UNCHANGED <<cases, drafts, proposals, tally, loaded, resolving, up, starts, edits>>

(* The process ends: an open transaction rolls back, the file stays.         *)
Stops ==
    /\ up' = FALSE
    /\ pass' = "settle"
    /\ work' = NoWork
    /\ resolving' = NoWork
    /\ swap' = NoWork
    /\ UNCHANGED <<cases, drafts, proposals, tally, file, loaded, expected, starts, edits>>

(* A file changed by hand fails the batch, and the process with it.          *)
PromoteFails == up /\ pass = "activate" /\ swap = NoWork /\ file # expected /\ Stops

Crash == up /\ starts < MaxStarts /\ Stops

(* A start compiles the file and serves what it says.                        *)
Start ==
    /\ ~up
    /\ starts < MaxStarts
    /\ up' = TRUE
    /\ starts' = starts + 1
    /\ loaded' = file
    /\ expected' = file
    /\ UNCHANGED <<cases, drafts, proposals, tally, file, pass, work, resolving, swap, edits>>

(* A human edits the file: takes a rule out, or puts in its next version.    *)
Edited(key) == {NoRule} \cup {[file[key] EXCEPT !.version = @ + 1, !.mode = m] : m \in {"shadow", "active"}}

HandEdit(key) ==
    /\ Len(edits) < MaxEdits
    /\ file[key] # NoRule
    /\ \E rule \in Edited(key) :
           /\ file' = [file EXCEPT ![key] = rule]
           /\ edits' = Append(edits, [key |-> key, rule |-> rule, start |-> starts, raced |-> swap # NoWork])
    /\ UNCHANGED <<cases, drafts, proposals, tally, loaded, expected, pass, work, resolving, swap, up, starts>>

--------------------------------------------------------------------------------
Init ==
    /\ setting \in DOMAIN Settings
    /\ cases = <<>>
    /\ drafts = <<>>
    /\ proposals = {}
    /\ tally = [key \in Keys |-> NoTally]
    /\ file = [key \in Keys |-> NoRule]
    /\ loaded = file
    /\ expected = file
    /\ pass = "settle"
    /\ work = NoWork
    /\ resolving = NoWork
    /\ swap = NoWork
    /\ up = TRUE
    /\ starts = 0
    /\ edits = <<>>

Pass ==
    \/ \E judged \in Judgements, new \in NewCases : Settle(judged, new)
    \/ NoDraft
    \/ StartDraft
    \/ DraftFails
    \/ DraftAnswersNothing
    \/ \E reply \in Replies : DraftProposes(reply)
    \/ PromoteReads
    \/ PromoteWrites
    \/ PromoteKeeps
    \/ PromotionSwaps
    \/ PromoteFails

Step ==
    \/ Pass
    \/ \E p \in proposals : ApproveProposal(p) \/ RejectProposal(p)
    \/ ApprovalSwaps
    \/ CommitApproval
    \/ RollBackApproval
    \/ \E key \in Keys : HandEdit(key)
    \/ Crash
    \/ Start

Next == Step /\ UNCHANGED setting

Spec == Init /\ [][Next]_<<vars, setting>>

--------------------------------------------------------------------------------

(* No write to the playbook file loses another (update, writeRule): the rule *)
(* of every written proposal is in the file unless a human edited that rule, *)
(* and what a human last made of a rule stays until a process that loaded    *)
(* the edit was started.  The exception is an edit that falls between the    *)
(* digest check and the rename, which the rename overwrites.                 *)
LastEdit(n) == \A m \in DOMAIN edits : m > n => edits[m].key # edits[n].key

ApprovalsKept ==
    /\ \A p \in proposals : p.status = "written" =>
          \/ \E n \in DOMAIN edits : edits[n].key = p.key
          \/ file[p.key] # NoRule /\ file[p.key].version = p.rule.version
    /\ \A n \in DOMAIN edits : edits[n].start = starts /\ LastEdit(n) =>
          edits[n].raced \/ file[edits[n].key] = edits[n].rule
================================================================================
