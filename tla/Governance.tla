----------------------------- MODULE Governance -----------------------------
(***************************************************************************)
(* From a worker's Decision to an approved command: the conclusion that     *)
(* stores validated intents, the policy engine that evaluates pending ones, *)
(* human approvals and their withdrawal, the hourly dispatch limit, the     *)
(* principals, and the commands policy hands to the outbox.                 *)
(*                                                                          *)
(* One action is one transaction.  The batch loop picks an intent and reads *)
(* the clock before its transaction (batch), and an approval request is     *)
(* stamped on arrival before its transaction (desk), so time, the           *)
(* Situation, the interlock, a kill or a handover may come in between.      *)
(* There is one Situation and one tenant.  A command is named by its        *)
(* intent: commands.intent_id is unique.                                    *)
(***************************************************************************)
EXTENDS OwnerFence, Naturals, Sequences, FiniteSets

CONSTANTS
    Catalog,        \* intent type -> [risk, approval, limit], the compiled catalog
    Allowed,        \* AllowedIntentTypes of the episode
    Ceiling,        \* RiskCeiling of the episode
    Runtimes,       \* epochs of runtime processes; the others are operator commands
    Intents,        \* intent ids
    NoIntent,       \* no intent is picked, no target is compensated
    Principals,     \* principal ids
    Keys,           \* verification keys
    BucketOf,       \* the event-horizon hour of a Situation version
    Deployments,    \* what a deployment meets, see deployment below
    MaxVersion      \* bound on Situation versions

----------------------------------------------------------------------------
(* The rules a Decision must satisfy before its intents become rows: the    *)
(* decision validator over the intent catalog, and the risk policy that     *)
(* routes an intent.  A Decision is a record of what the rules tell apart:  *)
(* an identity has the value "dispatched" where it equals the trusted       *)
(* input, parameters are the identity they name and whether a preset field  *)
(* was kept.                                                                *)

RiskClasses == <<"R0", "R1", "R2", "R3", "R4">>

CatalogAssumption == \A t \in DOMAIN Catalog : \E k \in DOMAIN RiskClasses : Catalog[t].risk = RiskClasses[k]

\* Rank is the position in the policy table; an unknown class ranks 0.
Rank(risk) ==
    IF \E k \in DOMAIN RiskClasses : RiskClasses[k] = risk
    THEN CHOOSE k \in DOMAIN RiskClasses : RiskClasses[k] = risk
    ELSE 0

ValidRisk(risk) == Rank(risk) # 0

AtMost(risk, ceiling) == Rank(risk) <= Rank(ceiling)

BaseRoute(risk) ==
    CASE risk \in {"R0", "R1"} -> "automatic"
      [] risk = "R2" -> "approval"
      [] OTHER -> "denied"

Consequential(risk) == ValidRisk(risk) /\ BaseRoute(risk) # "automatic"

\* A catalog flag turns an automatic route into an approval, and nothing else.
RouteFor(risk, approval) ==
    IF BaseRoute(risk) = "automatic" /\ approval THEN "approval" ELSE BaseRoute(risk)
----------------------------------------------------------------------------
(* The Decision as a whole. *)

\* The Decision names the dispatched episode, attempt and fence.
CheckDecisionAttempt(d) == d.attempt = "dispatched"

\* It names the dispatched snapshot, Situation and version, and is still valid.
CheckDecisionSnapshot(d, at) == d.snapshot = "dispatched" /\ d.until > at

CheckDiagnosisCode(d) == d.code \in {"none", "cataloged"}

\* A watch or a compensation is not actionable.
Actionable(x) == x.type # "install_watch_condition" /\ ~x.compensates

CountActionable(d) == Cardinality({k \in DOMAIN d.intents : Actionable(d.intents[k])})

\* No intents only as a request for evidence, and at most one to act upon.
CheckDecisionIntentSet(d) ==
    /\ d.intents = <<>> => d.kind = "need_more_evidence"
    /\ CountActionable(d) <= 1
----------------------------------------------------------------------------
(* One intent of it. *)

\* Intent ids are distinct, and every intent is bound to its Decision and Situation.
CheckIntentBinding(d, k) ==
    /\ \A j \in DOMAIN d.intents : d.intents[j].id = d.intents[k].id => j = k
    /\ d.intents[k].bound

\* The allowlist applies to everything but a compensation, which needs a
\* reconsider episode.
CheckIntentPermission(d, x) ==
    IF x.compensates THEN d.reconsider ELSE x.type \in Allowed

\* Fault: any label up to the ceiling is accepted, so the worker sets the risk.
CheckIntentRiskByCeiling(x) == AtMost(x.risk, Ceiling)

\* The proposed risk equals the declared one and respects the ceiling.
CheckIntentRisk(x) == x.risk = Catalog[x.type].risk /\ AtMost(x.risk, Ceiling)

CheckIntentAuthority(d, x) ==
    /\ CheckIntentPermission(d, x)
    /\ x.type \in DOMAIN Catalog
    /\ CheckIntentRisk(x)

\* An identity parameter, where present, names the entity of the episode.
CheckIdentityParameters(x) == x.entity \in {"absent", "dispatched"}

\* A field the model may not write has the preset's value.
VerifyPresetEquality(x) == x.preset = "kept"

\* Evidence of the intent is among the facts the Decision used.
VerifyEvidenceBinding(d, x) == x.evidence \subseteq d.facts

ValidateIntent(d, k, at) ==
    LET x == d.intents[k] IN
    /\ CheckIntentBinding(d, k)
    /\ CheckIntentAuthority(d, x)
    /\ CheckIdentityParameters(x)
    /\ VerifyPresetEquality(x)
    /\ VerifyEvidenceBinding(d, x)
    /\ x.expires > at

\* Validate accepts the Decision with all of its intents, or nothing of it.
Validate(d, at) ==
    /\ CheckDecisionAttempt(d)
    /\ CheckDecisionSnapshot(d, at)
    /\ CheckDiagnosisCode(d)
    /\ CheckDecisionIntentSet(d)
    /\ \A k \in DOMAIN d.intents : ValidateIntent(d, k, at)

\* The row of a validated intent takes limit and approval from the catalog.
ValidatedIntent(x) ==
    [type |-> x.type, risk |-> x.risk, expires |-> x.expires, target |-> x.target,
     limit |-> Catalog[x.type].limit, approval |-> Catalog[x.type].approval]
----------------------------------------------------------------------------
(* The state of governance. *)

GovernanceAssumption ==
    /\ Runtimes \subseteq Epochs
    /\ NoIntent \notin Intents
    /\ \A d \in Deployments : d.unreadable \cup d.misbound \cup d.unconcluded \cup d.undated \subseteq Intents /\ d.epochs \subseteq Epochs /\ d.maxTime \in Nat
    /\ MaxVersion \in Nat \ {0} /\ DOMAIN BucketOf = 1..MaxVersion
    /\ \A d \in Deployments : \A w \in d.decisions : \A k \in DOMAIN w.intents : w.intents[k].expires \in Nat

VARIABLES
    deployment, \* the epochs that start, the Decisions workers submit, the principal
                \* documents, intents whose stored documents cannot be read or name
                \* different things, whose episode or expiry is not as the
                \* conclusion wrote it, and the bound on the clock
    now,        \* the clock
    version,    \* situations.current_version
    material,   \* situations.last_material_version
    complete,   \* completeness of the current version
    dispatch,   \* the Situation version an epoch's running episode was dispatched for, 0 for none
    rows,       \* intents rows with their policy_status
    approvals,  \* approvals rows of an intent in order of request
    commands,   \* intents with a commands row and its outbox row
    spent,      \* intent_dispatch_counts by type and hour
    killed,     \* killed policy epochs
    interlock,  \* runtime_interlock.status
    roster,     \* principals, roles and authorities
    batch,      \* the intent a process picked and the time it read
    desk,       \* the approval request a process received
    notices     \* approval lifecycle notifications of an intent in order

worldVars == <<now, version, material, complete>>
controlVars == <<killed, interlock, roster>>
ledgerVars == <<rows, approvals, commands, spent, notices>>
fenceVars == <<owner, valid, retired>>
vars == <<fenceVars, worldVars, controlVars, ledgerVars, dispatch, batch, desk>>

Decisions == deployment.decisions
Rosters == deployment.rosters
MaxTime == deployment.maxTime

IntentStatuses == {"pending", "approval_required", "approved", "denied", "stale", "expired"}
Absent == [status |-> "absent"]
Buckets == {BucketOf[v] : v \in DOMAIN BucketOf}
NoWork == [intent |-> NoIntent, at |-> 0]

NoRoster == [active |-> {}, key |-> [p \in Principals |-> CHOOSE k \in Keys : TRUE], grants |-> {}]

\* A role's members are listed principals with a key, and its authorities name
\* risks a human may approve.
ValidDocument(d) ==
    /\ d.active \subseteq d.listed
    /\ \A g \in d.grants : g[1] \in d.listed /\ BaseRoute(g[2]) # "denied" /\ ValidRisk(g[2])

\* Every principal of the tenant is disabled, the listed ones are written again
\* with their key, and all roles and authorities are replaced.
ReplaceGovernance(d, old) ==
    [active |-> d.active,
     key |-> [p \in Principals |-> IF p \in d.listed THEN d.key[p] ELSE old.key[p]],
     grants |-> d.grants]

Init ==
    /\ deployment \in Deployments
    /\ OwnerInit
    /\ now = 0 /\ version = 1 /\ material = 1 /\ complete = TRUE
    /\ dispatch = [p \in Runtimes |-> 0]
    /\ rows = [i \in Intents |-> Absent]
    /\ approvals = [i \in Intents |-> <<>>]
    /\ commands = {}
    /\ spent = [b \in (DOMAIN Catalog) \X Buckets |-> 0]
    /\ killed = {} /\ interlock = "ready"
    /\ roster \in {ReplaceGovernance(d, NoRoster) : d \in {d \in Rosters : ValidDocument(d)}}
    /\ batch = [p \in Runtimes |-> NoWork]
    /\ desk = [p \in Runtimes |-> NoWork]
    /\ notices = [i \in Intents |-> <<>>]

Stored(i) == rows[i] # Absent
----------------------------------------------------------------------------
(* The owner lease, the clock, the Situation and the operator's controls. *)

Claim(e) ==
    /\ Take(e)
    /\ UNCHANGED <<worldVars, controlVars, ledgerVars, dispatch, batch, desk>>

LeaseEnds ==
    /\ Lapse
    /\ UNCHANGED <<worldVars, controlVars, ledgerVars, dispatch, batch, desk>>

Tick ==
    /\ now < MaxTime
    /\ now' = now + 1
    /\ UNCHANGED <<fenceVars, version, material, complete, controlVars, ledgerVars, dispatch, batch, desk>>

\* The engine publishes a Situation version, material or not.
PublishVersion(p, changed, whole) ==
    /\ Holds(p)
    /\ version < MaxVersion
    /\ version' = version + 1
    /\ material' = IF changed THEN version + 1 ELSE material
    /\ complete' = whole
    /\ UNCHANGED <<fenceVars, now, controlVars, ledgerVars, dispatch, batch, desk>>

Trip ==
    /\ interlock = "ready"
    /\ interlock' = "tripped"
    /\ UNCHANGED <<fenceVars, worldVars, killed, roster, ledgerVars, dispatch, batch, desk>>

Clear(o) ==
    /\ o \notin Runtimes
    /\ Holds(o)
    /\ interlock = "tripped"
    /\ interlock' = "ready"
    /\ UNCHANGED <<fenceVars, worldVars, killed, roster, ledgerVars, dispatch, batch, desk>>

\* The kill of a running epoch supersedes its live episodes.
Kill(p) ==
    /\ owner = p
    /\ p \notin killed
    /\ killed' = killed \cup {p}
    /\ dispatch' = [dispatch EXCEPT ![p] = 0]
    /\ UNCHANGED <<fenceVars, worldVars, interlock, roster, ledgerVars, batch, desk>>

\* A principal document replaces every principal, role and authority in one
\* transaction of an operator command.
ApplyPrincipals(o, document) ==
    /\ o \notin Runtimes
    /\ Holds(o)
    /\ ValidDocument(document)
    /\ roster' = ReplaceGovernance(document, roster)
    /\ UNCHANGED <<fenceVars, worldVars, killed, interlock, ledgerVars, dispatch, batch, desk>>
----------------------------------------------------------------------------
(* Conclusion: the Decision of the dispatched episode becomes intent rows. *)

\* The epoch starts an episode for the current Situation version.
Dispatch(p) ==
    /\ Holds(p)
    /\ p \notin killed
    /\ dispatch[p] = 0
    /\ dispatch' = [dispatch EXCEPT ![p] = version]
    /\ UNCHANGED <<fenceVars, worldVars, controlVars, ledgerVars, batch, desk>>

NewRow(p, x) ==
    [status |-> "pending", version |-> dispatch[p], epoch |-> p, intent |-> ValidatedIntent(x)]

\* The conclusion stores every intent of a valid Decision as pending, bound to
\* the dispatched Situation version and to the policy epoch.
Conclude(p, d) ==
    /\ Holds(p)
    /\ dispatch[p] # 0
    /\ Validate(d, now)
    /\ \A k \in DOMAIN d.intents : ~Stored(d.intents[k].id)
    /\ rows' = [i \in Intents |->
                  IF \E k \in DOMAIN d.intents : d.intents[k].id = i
                  THEN NewRow(p, d.intents[CHOOSE k \in DOMAIN d.intents : d.intents[k].id = i])
                  ELSE rows[i]]
    /\ dispatch' = [dispatch EXCEPT ![p] = 0]
    /\ UNCHANGED <<fenceVars, worldVars, controlVars, approvals, commands, spent, notices, batch, desk>>

\* A rejected Decision ends the attempt and leaves nothing behind.
Reject(p, d) ==
    /\ Holds(p)
    /\ dispatch[p] # 0
    /\ ~Validate(d, now)
    /\ dispatch' = [dispatch EXCEPT ![p] = 0]
    /\ UNCHANGED <<fenceVars, worldVars, controlVars, ledgerVars, batch, desk>>
----------------------------------------------------------------------------
(* Evaluation.  An outcome says what the transaction writes: the status of  *)
(* the intent, whether it asks for an approval, issues the command, or lets *)
(* the pending approval lapse.                                              *)

Outcome(status) == [status |-> status, asks |-> FALSE, issues |-> FALSE, lapses |-> FALSE]

\* The intent's counter, kept by type and by the hour of its event horizon.
Counter(i) == <<rows[i].intent.type, BucketOf[rows[i].version]>>

\* A limit of zero does not limit; the conditional upsert returns no row at the limit.
OverLimit(i) == rows[i].intent.limit > 0 /\ spent[Counter(i)] >= rows[i].intent.limit

\* The interlock and the limit gate the command; an existing command is only audited.
ApproveAutomatic(i, status) ==
    IF interlock = "tripped" THEN Outcome("denied")
    ELSE IF i \in commands THEN Outcome(status)
    ELSE IF OverLimit(i) THEN Outcome("denied")
    ELSE [Outcome("approved") EXCEPT !.issues = TRUE]

PendingOf(asked) == {k \in DOMAIN asked : asked[k].status = "pending"}
ApprovedOf(asked) == {k \in DOMAIN asked : asked[k].status = "approved"}

\* One pending request per intent; a second evaluation is only audited.
RequireApproval(asked, status) ==
    IF PendingOf(asked) # {} THEN Outcome(status)
    ELSE [Outcome("approval_required") EXCEPT !.asks = TRUE]

ApproveOrRequire(i, asked, status) ==
    IF ApprovedOf(asked) # {} THEN ApproveAutomatic(i, status) ELSE RequireApproval(asked, status)

RouteIntent(i, asked, status) ==
    LET route == RouteFor(rows[i].intent.risk, rows[i].intent.approval) IN
    CASE route = "automatic" -> ApproveAutomatic(i, status)
      [] route = "approval" -> ApproveOrRequire(i, asked, status)
      [] OTHER -> Outcome("denied")

MateriallySuperseded(i) == material > rows[i].version

SourceHealthIncomplete(i) == Consequential(rows[i].intent.risk) /\ ~complete

\* The stored lifecycle says that the episode concluded, now or before it closed.
EpisodeProducedDecision(i) == i \notin deployment.unconcluded

\* A stored expiry that cannot be parsed denies the intent before it is compared.
expiryFailure(i, at) ==
    IF i \in deployment.undated THEN "denied"
    ELSE IF rows[i].intent.expires <= at THEN "expired"
    ELSE "none"

\* The first failing freshness rule names the status.
FreshnessFailure(i, at) ==
    IF ~EpisodeProducedDecision(i) THEN "denied"
    ELSE IF MateriallySuperseded(i) THEN "stale"
    ELSE IF SourceHealthIncomplete(i) THEN "denied"
    ELSE expiryFailure(i, at)

\* A compensation names a command that exists.
CompensationFails(i) == rows[i].intent.target # NoIntent /\ rows[i].intent.target \notin commands

\* The stored Decision and intent parse, verify their digests and were validated.
DocumentsFail(i) == i \in deployment.unreadable

\* The row, the documents, the episode and the Situation name the same things.
IdentityFails(i) == i \in deployment.misbound

EvaluatePending(i, at, asked, status) ==
    IF DocumentsFail(i) \/ CompensationFails(i) \/ IdentityFails(i) THEN Outcome("denied")
    ELSE IF FreshnessFailure(i, at) # "none" THEN Outcome(FreshnessFailure(i, at))
    ELSE RouteIntent(i, asked, status)

\* An evaluated intent keeps its status, unless its pending approval has expired.
EvaluateExisting(at, asked, status) ==
    IF status = "approval_required" /\ \E k \in PendingOf(asked) : asked[k].expires <= at
    THEN [Outcome("expired") EXCEPT !.lapses = TRUE]
    ELSE Outcome(status)

\* The kill switch comes first, whatever the status of the intent.
EvaluateLoaded(i, at, asked, status) ==
    IF rows[i].epoch \in killed THEN Outcome("denied")
    ELSE IF status # "pending" THEN EvaluateExisting(at, asked, status)
    ELSE EvaluatePending(i, at, asked, status)

Request(i) == [status |-> "pending", expires |-> rows[i].intent.expires, by |-> NoIntent]

Lapsed(asked) == [k \in DOMAIN asked |->
    IF asked[k].status = "pending" THEN [asked[k] EXCEPT !.status = "expired"] ELSE asked[k]]

\* The requests of the intent after an evaluation that found asked.
RequestsAfter(i, out, asked) ==
    CASE out.asks -> Append(asked, Request(i)) [] out.lapses -> Lapsed(asked) [] OTHER -> asked

\* The notifications written with it, in the same transaction.
NoticesAfter(out, told) ==
    CASE out.asks -> Append(told, "requested") [] out.lapses -> Append(told, "resolved") [] OTHER -> told

\* Command and outbox row are written together, once for an intent.
CommandsAfter(i, out) == IF out.issues THEN commands \cup {i} ELSE commands

SpentAfter(i, out) ==
    IF out.issues /\ rows[i].intent.limit > 0 THEN [spent EXCEPT ![Counter(i)] = @ + 1] ELSE spent

\* The writes of an evaluation that found the requests asked and the notices told.
Settle(i, out, asked, told) ==
    /\ rows' = [rows EXCEPT ![i].status = out.status]
    /\ approvals' = [approvals EXCEPT ![i] = RequestsAfter(i, out, asked)]
    /\ notices' = [notices EXCEPT ![i] = NoticesAfter(out, told)]
    /\ commands' = CommandsAfter(i, out)
    /\ spent' = SpentAfter(i, out)

\* The governed batch asserts its lease, then reads NextPendingIntent and the
\* clock outside the transaction; which pending intent comes first is left open.
PickIntent(p, i) ==
    /\ Holds(p)
    /\ batch[p] = NoWork
    /\ Stored(i)
    /\ rows[i].status = "pending"
    /\ batch' = [batch EXCEPT ![p] = [intent |-> i, at |-> now]]
    /\ UNCHANGED <<fenceVars, worldVars, controlVars, ledgerVars, dispatch, desk>>

EvaluateIntent(p) ==
    LET i == batch[p].intent IN
    /\ i # NoIntent
    /\ Holds(p)
    /\ Settle(i, EvaluateLoaded(i, batch[p].at, approvals[i], rows[i].status), approvals[i], notices[i])
    /\ batch' = [batch EXCEPT ![p] = NoWork]
    /\ UNCHANGED <<fenceVars, worldVars, controlVars, dispatch, desk>>

\* Without the lease the transaction fails, and the batch with it.
BatchFails(p) ==
    /\ batch[p] # NoWork
    /\ ~Holds(p)
    /\ batch' = [batch EXCEPT ![p] = NoWork]
    /\ UNCHANGED <<fenceVars, worldVars, controlVars, ledgerVars, dispatch, desk>>
----------------------------------------------------------------------------
(* Approvals. *)

\* A signed answer to an approval request arrives and is stamped.
ReceiveAnswer(p, i, approver, relay, key, approved) ==
    /\ owner = p
    /\ desk[p] = NoWork
    /\ approvals[i] # <<>>
    /\ desk' = [desk EXCEPT ![p] = [intent |-> i, nth |-> Len(approvals[i]), approver |-> approver,
                                    relay |-> relay, key |-> key, approved |-> approved, at |-> now]]
    /\ UNCHANGED <<fenceVars, worldVars, controlVars, ledgerVars, dispatch, batch>>

DistinctPrincipals(r) == r.approver # r.relay

ActiveRelay(r) == r.relay \in roster.active

\* The assertion over this request, its nonce and the answer verifies with the
\* key the approver has now.
VerifyAssertion(r) == r.approver \in roster.active /\ roster.key[r.approver] = r.key

\* A role of the approver has authority over the entity at the intent's risk.
ApprovalAuthority(r) == <<r.approver, rows[r.intent].intent.risk>> \in roster.grants

Authorized(r) ==
    DistinctPrincipals(r) /\ ActiveRelay(r) /\ VerifyAssertion(r) /\ ApprovalAuthority(r)

\* Fault: a request that was answered before may be answered again.
ApprovalDispositionReusable(r, asked) ==
    IF asked.status = "approved" THEN "resolved"
    ELSE IF r.approved /\ MateriallySuperseded(r.intent) THEN "stale"
    ELSE IF asked.expires <= r.at THEN "expired"
    ELSE "authorize"

\* What an answer can still do to the request it names.
ApprovalDisposition(r, asked) ==
    IF asked.status # "pending" THEN "resolved"
    ELSE IF r.approved /\ MateriallySuperseded(r.intent) THEN "stale"
    ELSE IF asked.expires <= r.at THEN "expired"
    ELSE "authorize"

\* Every write of the approval ledger is conditional on status = 'pending'.
Decided(asked, k, status, who) ==
    [asked EXCEPT ![k] = IF @.status = "pending" THEN [@ EXCEPT !.status = status, !.by = who] ELSE @]

\* The request and its intent close together with the notifications.
CloseApproval(r, status, verdict, events) ==
    /\ approvals' = [approvals EXCEPT ![r.intent] = Decided(@, r.nth, status, NoIntent)]
    /\ rows' = [rows EXCEPT ![r.intent].status = verdict]
    /\ notices' = [notices EXCEPT ![r.intent] = @ \o events]
    /\ UNCHANGED <<commands, spent>>

\* The resolution is recorded first; an approval is then evaluated again with
\* every gate in the same transaction.
RecordResolution(r) ==
    LET asked == Decided(approvals[r.intent], r.nth, IF r.approved THEN "approved" ELSE "denied", r.approver)
        told == Append(notices[r.intent], "resolved") IN
    IF r.approved
    THEN Settle(r.intent, EvaluateLoaded(r.intent, r.at, asked, "pending"), asked, told)
    ELSE /\ approvals' = [approvals EXCEPT ![r.intent] = asked]
         /\ rows' = [rows EXCEPT ![r.intent].status = "denied"]
         /\ notices' = [notices EXCEPT ![r.intent] = told]
         /\ UNCHANGED <<commands, spent>>

ResolveApproval(p) ==
    LET r == desk[p]
        verdict == ApprovalDisposition(r, approvals[r.intent][r.nth]) IN
    /\ r # NoWork
    /\ Holds(p)
    /\ \/ verdict = "resolved" /\ UNCHANGED ledgerVars
       \/ verdict = "stale" /\ CloseApproval(r, "denied", "denied", <<"withdrawn", "resolved">>)
       \/ verdict = "expired" /\ CloseApproval(r, "expired", "expired", <<"resolved">>)
       \/ verdict = "authorize" /\ Authorized(r) /\ RecordResolution(r)
       \/ verdict = "authorize" /\ ~Authorized(r) /\ UNCHANGED ledgerVars
    /\ desk' = [desk EXCEPT ![p] = NoWork]
    /\ UNCHANGED <<fenceVars, worldVars, controlVars, dispatch, batch>>

\* Without the lease the request fails and changes nothing.
AnswerFails(p) ==
    /\ desk[p] # NoWork
    /\ ~Holds(p)
    /\ desk' = [desk EXCEPT ![p] = NoWork]
    /\ UNCHANGED <<fenceVars, worldVars, controlVars, ledgerVars, dispatch, batch>>

\* Pending requests of intents bound to an older Situation version.
SupersededApprovals == {i \in Intents : Stored(i) /\ rows[i].version < version /\ PendingOf(approvals[i]) # {}}

\* A trigger for a newer version withdraws those requests and announces each
\* withdrawal; the intents keep their status.
WithdrawSuperseded(p) ==
    /\ Holds(p)
    /\ SupersededApprovals # {}
    /\ approvals' = [i \in Intents |->
         IF i \in SupersededApprovals
         THEN [k \in DOMAIN approvals[i] |-> Decided(approvals[i], k, "denied", NoIntent)[k]]
         ELSE approvals[i]]
    /\ notices' = [i \in Intents |->
         IF i \in SupersededApprovals THEN Append(notices[i], "withdrawn") ELSE notices[i]]
    /\ UNCHANGED <<fenceVars, worldVars, controlVars, rows, commands, spent, dispatch, batch, desk>>
----------------------------------------------------------------------------
Step ==
    \/ \E e \in deployment.epochs : Claim(e)
    \/ LeaseEnds
    \/ Tick
    \/ \E p \in Runtimes, changed, whole \in BOOLEAN : PublishVersion(p, changed, whole)
    \/ Trip
    \/ \E o \in Epochs : Clear(o)
    \/ \E p \in Runtimes : Kill(p)
    \/ \E o \in Epochs, document \in Rosters : ApplyPrincipals(o, document)
    \/ \E p \in Runtimes : Dispatch(p)
    \/ \E p \in Runtimes, d \in Decisions : Conclude(p, d) \/ Reject(p, d)
    \/ \E p \in Runtimes, i \in Intents : PickIntent(p, i)
    \/ \E p \in Runtimes : EvaluateIntent(p) \/ BatchFails(p)
    \/ \E p \in Runtimes, i \in Intents, a, r \in Principals, k \in Keys, yes \in BOOLEAN :
         ReceiveAnswer(p, i, a, r, k, yes)
    \/ \E p \in Runtimes : ResolveApproval(p) \/ AnswerFails(p) \/ WithdrawSuperseded(p)

Next == Step /\ UNCHANGED deployment

Spec == Init /\ [][Next]_<<vars, deployment>>

----------------------------------------------------------------------------
(* Properties. *)

\* A command is published only while its epoch is not killed, the interlock is
\* ready and the Situation has not materially moved on, whatever the batch or
\* the approver read before the transaction; and what the catalog (not the
\* worker's label) declares as needing a human has a human approval.
PublishedUnderAuthority ==
    [][\A i \in commands' \ commands :
         LET declared == Catalog[rows[i].intent.type] IN
         /\ rows[i].epoch \notin killed
         /\ interlock = "ready"
         /\ material <= rows[i].version
         /\ RouteFor(declared.risk, declared.approval) # "denied"
         /\ RouteFor(declared.risk, declared.approval) = "approval" => ApprovedOf(approvals'[i]) # {}]_vars

\* The request was withdrawn for a newer Situation version, and the withdrawal
\* is the last thing that was announced about it.
Withdrawn(i) ==
    /\ rows[i].version < version
    /\ notices[i] # <<>> /\ notices[i][Len(notices[i])] = "withdrawn"

\* A request is asked once for an intent, whatever answer to it is still on the
\* way; an intent is approved exactly when it has its command; and an intent
\* that waits for a human has a request somebody can answer, or was withdrawn
\* for a newer Situation version and announced as such (commandForIntent, the
\* conditional writes of the approval ledger, WithdrawSuperseded).
OneQuestionOneAnswer ==
    \A i \in Intents :
      /\ Len(approvals[i]) <= 1
      /\ i \in commands <=> (Stored(i) /\ rows[i].status = "approved")
      /\ Stored(i) /\ rows[i].status = "approval_required" =>
            PendingOf(approvals[i]) # {} \/ Withdrawn(i)
=============================================================================
