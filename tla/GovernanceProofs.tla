-------------------------- MODULE GovernanceProofs --------------------------
(***************************************************************************)
(* Proofs about Governance, for every catalog, every set of processes,     *)
(* intents and principals, and whatever Decisions the workers submit: what *)
(* a command is published under, and that an intent is asked about once    *)
(* and answered once.                                                      *)
(*                                                                         *)
(* Neither property is inductive.  What they need is that a row keeps the  *)
(* risk and the flag of the catalog, that the intent a process picked is   *)
(* still pending while that process owns the lease, and that a request     *)
(* somebody can answer belongs to an intent that waits for it.             *)
(***************************************************************************)
EXTENDS Governance, TLAPS

Requests == [status : {"pending", "approved", "denied", "expired"}, expires : Nat, by : Principals \cup {NoIntent}]

Notices == {"requested", "resolved", "withdrawn"}

\* A stored row carries what the catalog declares for its type.
RowOK(r) ==
    /\ r = [status |-> r.status, version |-> r.version, epoch |-> r.epoch, intent |-> r.intent]
    /\ r.status \in IntentStatuses /\ r.version \in Nat
    /\ r.intent.type \in DOMAIN Catalog
    /\ r.intent.risk = Catalog[r.intent.type].risk
    /\ r.intent.approval = Catalog[r.intent.type].approval
    /\ r.intent.expires \in Nat

AnswerOK(r) == r.intent \in Intents /\ r.nth \in Nat /\ r.approver \in Principals /\ r.approved \in BOOLEAN

LedgerTypeOK ==
    /\ DOMAIN rows = Intents
    /\ \A i \in Intents : rows[i] = Absent \/ RowOK(rows[i])
    /\ approvals \in [Intents -> Seq(Requests)]
    /\ notices \in [Intents -> Seq(Notices)]

ControlTypeOK ==
    /\ deployment \in Deployments
    /\ now \in Nat /\ version \in Nat /\ material \in Nat
    /\ dispatch \in [Runtimes -> Nat]
    /\ interlock \in {"ready", "tripped"}

WorkTypeOK ==
    /\ batch \in [Runtimes -> [intent : Intents \cup {NoIntent}, at : Nat]]
    /\ DOMAIN desk = Runtimes
    /\ \A p \in Runtimes : desk[p] = NoWork \/ AnswerOK(desk[p])

\* A picked intent is stored, its process owned the lease, and while it still
\* owns it the intent is pending.
PickedIsPending ==
    \A p \in Runtimes : batch[p].intent # NoIntent =>
        /\ Stored(batch[p].intent)
        /\ p \in {owner} \cup retired
        /\ p = owner => rows[batch[p].intent].status = "pending"

\* An answer names a request that exists.
AnswersRequest == \A p \in Runtimes : desk[p] # NoWork => desk[p].nth \in 1..Len(approvals[desk[p].intent])

\* A request is of an evaluated intent, and a pending one of an intent that waits.
RequestsWait ==
    \A i \in Intents :
        /\ approvals[i] # <<>> => Stored(i) /\ rows[i].status # "pending"
        /\ PendingOf(approvals[i]) # {} => rows[i].status = "approval_required"

IInv ==
    /\ LedgerTypeOK /\ ControlTypeOK /\ WorkTypeOK
    /\ PickedIsPending /\ AnswersRequest /\ RequestsWait /\ OneQuestionOneAnswer
\* A conjunct of the invariant whose variables a step leaves alone.
LEMMA Unmoved ==
  /\ LedgerTypeOK /\ UNCHANGED <<rows, approvals, notices>> => LedgerTypeOK'
  /\ ControlTypeOK /\ UNCHANGED <<deployment, now, version, material, dispatch, interlock>> => ControlTypeOK'
  /\ WorkTypeOK /\ UNCHANGED <<batch, desk>> => WorkTypeOK'
  /\ PickedIsPending /\ UNCHANGED <<batch, rows, owner, retired>> => PickedIsPending'
  /\ AnswersRequest /\ UNCHANGED <<desk, approvals>> => AnswersRequest'
  /\ RequestsWait /\ UNCHANGED <<rows, approvals>> => RequestsWait'
  /\ OneQuestionOneAnswer /\ UNCHANGED <<rows, approvals, notices, commands, version>> => OneQuestionOneAnswer'
  <1>1. LedgerTypeOK /\ UNCHANGED <<rows, approvals, notices>> => LedgerTypeOK'
    BY DEF LedgerTypeOK, RowOK, Absent
  <1>2. ControlTypeOK /\ UNCHANGED <<deployment, now, version, material, dispatch, interlock>> => ControlTypeOK'
    BY DEF ControlTypeOK
  <1>3. WorkTypeOK /\ UNCHANGED <<batch, desk>> => WorkTypeOK'
    BY DEF WorkTypeOK, AnswerOK, NoWork
  <1>4. PickedIsPending /\ UNCHANGED <<batch, rows, owner, retired>> => PickedIsPending'
    BY DEF PickedIsPending, Stored, Absent
  <1>5. AnswersRequest /\ UNCHANGED <<desk, approvals>> => AnswersRequest'
    BY DEF AnswersRequest, NoWork
  <1>6. RequestsWait /\ UNCHANGED <<rows, approvals>> => RequestsWait'
    BY DEF RequestsWait, Stored, Absent, PendingOf
  <1>7. OneQuestionOneAnswer /\ UNCHANGED <<rows, approvals, notices, commands, version>> => OneQuestionOneAnswer'
    BY DEF OneQuestionOneAnswer, Withdrawn, Stored, Absent, PendingOf
  <1> QED
    BY <1>1, <1>2, <1>3, <1>4, <1>5, <1>6, <1>7

-----------------------------------------------------------------------------
(* What an evaluation decides. *)

\* The outcomes that write more than a status.
Issues == [Outcome("approved") EXCEPT !.issues = TRUE]
Asks == [Outcome("approval_required") EXCEPT !.asks = TRUE]

\* What holds when an evaluation of the requests asked issues the command.
Authority(i, asked) ==
    /\ rows[i].epoch \notin killed
    /\ interlock # "tripped"
    /\ ~MateriallySuperseded(i)
    /\ RouteFor(rows[i].intent.risk, rows[i].intent.approval) \in {"automatic", "approval"}
    /\ RouteFor(rows[i].intent.risk, rows[i].intent.approval) = "approval" => ApprovedOf(asked) # {}

LEMMA OutcomeOf ==
  /\ Issues.status = "approved" /\ ~Issues.asks /\ Issues.issues /\ ~Issues.lapses
  /\ Asks.status = "approval_required" /\ Asks.asks /\ ~Asks.issues /\ ~Asks.lapses
  /\ \A s : Outcome(s).status = s /\ ~Outcome(s).asks /\ ~Outcome(s).issues /\ ~Outcome(s).lapses
  <1> DEFINE Of(s, a, i) == [status : {s}, asks : {a}, issues : {i}, lapses : {FALSE}]
             approved == Outcome("approved")
             required == Outcome("approval_required")
  <1>1. approved \in Of("approved", FALSE, FALSE) /\ required \in Of("approval_required", FALSE, FALSE)
    BY DEF Outcome
  <1>2. Issues = [approved EXCEPT !.issues = TRUE] /\ Asks = [required EXCEPT !.asks = TRUE]
    BY Zenon DEF Issues, Asks
  <1>3. \A s : Outcome(s).status = s /\ ~Outcome(s).asks /\ ~Outcome(s).issues /\ ~Outcome(s).lapses
    BY DEF Outcome
  <1> HIDE DEF approved, required
  <1>4. Issues \in Of("approved", FALSE, TRUE) /\ Asks \in Of("approval_required", TRUE, FALSE)
    BY <1>1, <1>2, Zenon
  <1> QED
    BY <1>3, <1>4, Zenon

\* ApproveAutomatic of an intent without a command issues it or denies it.
LEMMA AutomaticOutcome ==
  ASSUME NEW i, NEW status, i \notin commands
  PROVE  \/ ApproveAutomatic(i, status) = Issues /\ interlock # "tripped"
         \/ ApproveAutomatic(i, status) = Outcome("denied")
  BY Zenon DEF ApproveAutomatic, Issues

\* The evaluation of a pending intent without a command issues the command
\* under its authority, asks when nobody was asked, or closes the intent; it
\* leaves it pending only when a request is already open.
LEMMA PendingOutcome ==
  ASSUME NEW i, NEW at, NEW asked, i \notin commands
  PROVE  LET out == EvaluateLoaded(i, at, asked, "pending") IN
         \/ out = Issues /\ Authority(i, asked)
         \/ out = Asks /\ ApprovedOf(asked) = {}
         \/ out = Outcome("pending") /\ PendingOf(asked) # {} /\ ApprovedOf(asked) = {}
         \/ \E s \in {"denied", "stale", "expired"} : out = Outcome(s)
  <1> DEFINE route == RouteFor(rows[i].intent.risk, rows[i].intent.approval)
             out == EvaluateLoaded(i, at, asked, "pending")
  <1>1. CASE rows[i].epoch \in killed
    BY <1>1, Zenon DEF EvaluateLoaded
  <1>2. CASE rows[i].epoch \notin killed /\ (DocumentsFail(i) \/ CompensationFails(i) \/ IdentityFails(i))
    BY <1>2, Zenon DEF EvaluateLoaded, EvaluatePending
  <1>3. CASE /\ rows[i].epoch \notin killed /\ ~(DocumentsFail(i) \/ CompensationFails(i) \/ IdentityFails(i))
             /\ FreshnessFailure(i, at) # "none"
    <2>1. out = Outcome(FreshnessFailure(i, at))
      BY <1>3, Zenon DEF EvaluateLoaded, EvaluatePending
    <2>2. FreshnessFailure(i, at) \in {"denied", "stale", "expired", "none"}
      BY DEF FreshnessFailure, expiryFailure
    <2> QED
      BY <1>3, <2>1, <2>2
  <1>4. CASE /\ rows[i].epoch \notin killed /\ ~(DocumentsFail(i) \/ CompensationFails(i) \/ IdentityFails(i))
             /\ FreshnessFailure(i, at) = "none"
    <2>1. out = RouteIntent(i, asked, "pending")
      BY <1>4, Zenon DEF EvaluateLoaded, EvaluatePending
    <2>2. ~MateriallySuperseded(i)
      BY <1>4 DEF FreshnessFailure
    <2>3. CASE route = "automatic"
      <3>1. out = ApproveAutomatic(i, "pending")
        BY <2>1, <2>3 DEF RouteIntent
      <3> QED
        BY <1>4, <2>2, <2>3, <3>1, AutomaticOutcome DEF Authority
    <2>4. CASE route = "approval"
      <3>1. out = ApproveOrRequire(i, asked, "pending")
        BY <2>1, <2>4 DEF RouteIntent
      <3>2. CASE ApprovedOf(asked) # {}
        <4>1. out = ApproveAutomatic(i, "pending")
          BY <3>1, <3>2, Zenon DEF ApproveOrRequire
        <4> QED
          BY <1>4, <2>2, <2>4, <3>2, <4>1, AutomaticOutcome DEF Authority
      <3>3. CASE ApprovedOf(asked) = {}
        <4>1. out = RequireApproval(asked, "pending")
          BY <3>1, <3>3, Zenon DEF ApproveOrRequire
        <4> QED
          BY <3>3, <4>1, Zenon DEF RequireApproval, Asks
      <3> QED
        BY <3>2, <3>3
    <2>5. CASE route \notin {"automatic", "approval"}
      <3>1. out = Outcome("denied")
        BY <2>1, <2>5 DEF RouteIntent
      <3> QED
        BY <3>1
    <2> QED
      BY <2>3, <2>4, <2>5
  <1> QED
    BY <1>1, <1>2, <1>3, <1>4

-----------------------------------------------------------------------------
(* Rows and requests. *)

LEMMA RowStored ==
  ASSUME NEW r, RowOK(r)
  PROVE  r # Absent
  BY DEF RowOK, Absent, IntentStatuses

\* A new status leaves the rest of a row alone.
LEMMA RowStatus ==
  ASSUME NEW r, RowOK(r), NEW s \in IntentStatuses
  PROVE  /\ RowOK([r EXCEPT !.status = s])
         /\ [r EXCEPT !.status = s].status = s
         /\ [r EXCEPT !.status = s].version = r.version
         /\ [r EXCEPT !.status = s].epoch = r.epoch
         /\ [r EXCEPT !.status = s].intent = r.intent
  <1>1. DOMAIN r = {"status", "version", "epoch", "intent"}
    BY DEF RowOK
  <1>2. /\ [r EXCEPT !.status = s].status = s
        /\ [r EXCEPT !.status = s].version = r.version
        /\ [r EXCEPT !.status = s].epoch = r.epoch
        /\ [r EXCEPT !.status = s].intent = r.intent
    BY <1>1
  <1>3. [r EXCEPT !.status = s] = [status |-> s, version |-> r.version, epoch |-> r.epoch, intent |-> r.intent]
    BY <1>1, <1>2
  <1> QED
    BY <1>2, <1>3 DEF RowOK

LEMMA NoRequests == PendingOf(<<>>) = {} /\ ApprovedOf(<<>>) = {}
  BY DEF PendingOf, ApprovedOf

\* The first request of an intent.
LEMMA FirstRequest ==
  ASSUME NEW q \in Requests, q.status = "pending"
  PROVE  /\ Append(<<>>, q) \in Seq(Requests)
         /\ Len(Append(<<>>, q)) = 1
         /\ PendingOf(Append(<<>>, q)) # {}
  <1>1. <<>> \in Seq(Requests) /\ Len(<<>>) = 0
    OBVIOUS
  <1>2. /\ Append(<<>>, q) \in Seq(Requests)
        /\ Len(Append(<<>>, q)) = 1
        /\ Append(<<>>, q)[1] = q
    BY <1>1
  <1>3. 1 \in DOMAIN Append(<<>>, q)
    BY <1>2
  <1> QED
    BY <1>2, <1>3 DEF PendingOf

\* A request with its answer.
Answer(q, status, who) == [q EXCEPT !.status = status, !.by = who]

LEMMA AnswerRequest ==
  ASSUME NEW q \in Requests, NEW status \in {"approved", "denied", "expired"}, NEW who \in Principals \cup {NoIntent}
  PROVE  Answer(q, status, who) \in Requests /\ Answer(q, status, who).status = status
  <1> DEFINE c == [q EXCEPT !.status = status]
  <1>1. c \in Requests /\ c.status = status
    BY DEF Requests
  <1>2. Answer(q, status, who) = [c EXCEPT !.by = who]
    BY Zenon DEF Answer
  <1> HIDE DEF c
  <1> QED
    BY <1>1, <1>2 DEF Requests

\* Decided closes the request it names and no other.
LEMMA DecidedRequest ==
  ASSUME NEW asked \in Seq(Requests), NEW k \in 1..Len(asked), asked[k].status = "pending",
         NEW status \in {"approved", "denied", "expired"}, NEW who \in Principals \cup {NoIntent}
  PROVE  /\ Decided(asked, k, status, who) \in Seq(Requests)
         /\ Len(Decided(asked, k, status, who)) = Len(asked)
         /\ Decided(asked, k, status, who)[k].status = status
         /\ Decided(asked, k, status, who)[k] \in Requests
  <1> DEFINE q == Answer(asked[k], status, who)
  <1>1. asked[k] \in Requests
    OBVIOUS
  <1>2. q \in Requests /\ q.status = status
    BY <1>1, AnswerRequest
  <1>3. Decided(asked, k, status, who) = [asked EXCEPT ![k] = q]
    BY Zenon DEF Decided, Answer
  <1> HIDE DEF q
  <1> QED
    BY <1>2, <1>3

\* The one request of an intent, once answered, is not pending.
LEMMA DecidedOnly ==
  ASSUME NEW asked \in Seq(Requests), Len(asked) <= 1, NEW k \in 1..Len(asked), asked[k].status = "pending",
         NEW status \in {"approved", "denied", "expired"}, NEW who \in Principals \cup {NoIntent}
  PROVE  /\ PendingOf(Decided(asked, k, status, who)) = {}
         /\ status = "approved" => ApprovedOf(Decided(asked, k, status, who)) # {}
  <1> DEFINE d == Decided(asked, k, status, who)
  <1>1. d \in Seq(Requests) /\ Len(d) = Len(asked) /\ d[k].status = status
    BY DecidedRequest
  <1> HIDE DEF d
  <1>2. k = 1 /\ Len(asked) = 1
    <2> DEFINE n == Len(asked)
    <2>1. n \in Nat /\ n <= 1 /\ k \in 1..n
      OBVIOUS
    <2> HIDE DEF n
    <2>2. k = 1 /\ n = 1
      BY <2>1
    <2> QED
      BY <2>2 DEF n
  <1>3. DOMAIN d = 1..1 /\ \A j \in 1..1 : j = k
    BY <1>1, <1>2
  <1>4. PendingOf(d) = {} /\ (status = "approved" => k \in ApprovedOf(d))
    BY <1>1, <1>3 DEF PendingOf, ApprovedOf
  <1> QED
    BY <1>4 DEF d

\* A withdrawal closes every pending request of an intent.
LEMMA WithdrawnRequests ==
  ASSUME NEW asked \in Seq(Requests)
  PROVE  LET w == [k \in DOMAIN asked |-> Decided(asked, k, "denied", NoIntent)[k]] IN
         w \in Seq(Requests) /\ Len(w) = Len(asked) /\ PendingOf(w) = {}
  <1> DEFINE w == [k \in DOMAIN asked |-> Decided(asked, k, "denied", NoIntent)[k]]
  <1>1. ASSUME NEW k \in 1..Len(asked)
        PROVE  w[k] \in Requests /\ w[k].status # "pending"
    <2>1. w[k] = Decided(asked, k, "denied", NoIntent)[k]
      OBVIOUS
    <2>2. CASE asked[k].status = "pending"
      BY <2>1, <2>2, DecidedRequest
    <2>3. CASE asked[k].status # "pending"
      <3>1. Decided(asked, k, "denied", NoIntent) = [asked EXCEPT ![k] = asked[k]]
        BY <2>3, Zenon DEF Decided
      <3> QED
        BY <2>1, <2>3, <3>1
    <2> QED
      BY <2>2, <2>3
  <1>2. DOMAIN w = 1..Len(asked)
    OBVIOUS
  <1>3. w = [k \in 1..Len(asked) |-> w[k]]
    OBVIOUS
  <1> HIDE DEF w
  <1>4. w \in Seq(Requests) /\ Len(w) = Len(asked)
    BY <1>1, <1>2, <1>3
  <1>5. PendingOf(w) = {}
    BY <1>1, <1>2 DEF PendingOf
  <1> QED
    BY <1>4, <1>5 DEF w

-----------------------------------------------------------------------------
(* Steps that write the row and the requests of one intent. *)

\* The intent i gets the status s and the requests q, and its command with an
\* approval; a process may end its batch or its answer with it.
Writes(i, s, q) ==
    /\ rows' = [rows EXCEPT ![i].status = s]
    /\ approvals' = [approvals EXCEPT ![i] = q]
    /\ notices' \in [Intents -> Seq(Notices)] /\ \A j \in Intents \ {i} : notices'[j] = notices[j]
    /\ commands' = IF s = "approved" THEN commands \cup {i} ELSE commands
    /\ UNCHANGED <<fenceVars, worldVars, controlVars, dispatch, deployment>>
    /\ batch' = [p \in Runtimes |-> batch'[p]] /\ \A p \in Runtimes : batch'[p] \in {batch[p], NoWork}
    /\ DOMAIN desk' = Runtimes /\ \A p \in Runtimes : desk'[p] \in {desk[p], NoWork}

\* Such a step keeps the invariant when it ends the evaluation of the intent
\* and the intent waits exactly when its request is open.
WritesWell(i, s, q) ==
    /\ i \in Intents /\ RowOK(rows[i]) /\ i \notin commands
    /\ s \in IntentStatuses \ {"pending"}
    /\ q \in Seq(Requests) /\ Len(q) <= 1 /\ Len(approvals[i]) <= Len(q)
    /\ PendingOf(q) # {} <=> s = "approval_required"
    /\ \A p \in Runtimes : p = owner => batch'[p].intent # i

LEMMA WritesRows ==
  ASSUME IInv, NEW i, NEW s, NEW q, Writes(i, s, q), WritesWell(i, s, q)
  PROVE  /\ DOMAIN rows' = Intents
         /\ rows'[i].status = s /\ rows'[i].version = rows[i].version /\ RowOK(rows'[i])
         /\ \A j \in Intents \ {i} : rows'[j] = rows[j] /\ approvals'[j] = approvals[j]
         /\ approvals'[i] = q
         /\ approvals' \in [Intents -> Seq(Requests)]
  <1>1. rows' = [rows EXCEPT ![i] = [rows[i] EXCEPT !.status = s]]
    BY Zenon DEF Writes
  <1>2. DOMAIN rows = Intents /\ approvals \in [Intents -> Seq(Requests)]
    BY DEF IInv, LedgerTypeOK
  <1>3. DOMAIN rows' = Intents /\ \A j \in Intents \ {i} : rows'[j] = rows[j]
    BY <1>1, <1>2
  <1>4. rows'[i] = [rows[i] EXCEPT !.status = s]
    BY <1>1, <1>2 DEF WritesWell
  <1>5. RowOK(rows'[i]) /\ rows'[i].status = s /\ rows'[i].version = rows[i].version
    BY <1>4, RowStatus DEF WritesWell
  <1>6. /\ approvals'[i] = q /\ approvals' \in [Intents -> Seq(Requests)]
        /\ \A j \in Intents \ {i} : approvals'[j] = approvals[j]
    BY <1>2 DEF Writes, WritesWell
  <1> QED
    BY <1>3, <1>5, <1>6

LEMMA WritesKeep ==
  ASSUME GovernanceAssumption, IInv, NEW i, NEW s, NEW q, Writes(i, s, q), WritesWell(i, s, q)
  PROVE  IInv'
  <1>1. /\ DOMAIN rows' = Intents
        /\ rows'[i].status = s /\ rows'[i].version = rows[i].version /\ RowOK(rows'[i])
        /\ \A j \in Intents \ {i} : rows'[j] = rows[j] /\ approvals'[j] = approvals[j]
        /\ approvals'[i] = q
        /\ approvals' \in [Intents -> Seq(Requests)]
    BY WritesRows
  <1>2. /\ i \in Intents /\ i \notin commands /\ s \in IntentStatuses /\ s # "pending"
        /\ Len(q) <= 1 /\ Len(approvals[i]) <= Len(q) /\ q \in Seq(Requests)
        /\ PendingOf(q) # {} <=> s = "approval_required"
    BY DEF WritesWell
  <1>3. rows[i] # Absent /\ rows'[i] # Absent
    BY <1>1, RowStored DEF WritesWell
  <1>4. UNCHANGED <<owner, retired, now, version, material, interlock, dispatch, deployment>>
    BY DEF Writes, fenceVars, worldVars, controlVars
  <1>5. LedgerTypeOK'
    <2>1. ASSUME NEW j \in Intents PROVE rows'[j] = Absent \/ RowOK(rows'[j])
      BY <1>1, Zenon DEF IInv, LedgerTypeOK
    <2>2. ASSUME NEW j \in Intents PROVE (rows[j] = Absent \/ RowOK(rows[j]))'
      BY <2>1 DEF Absent, RowOK
    <2> QED
      BY <1>1, <2>2 DEF LedgerTypeOK, Writes
  <1>6. ControlTypeOK'
    BY <1>4 DEF IInv, ControlTypeOK
  <1>7. NoWork \in [intent : Intents \cup {NoIntent}, at : Nat] /\ NoWork.intent = NoIntent
    BY DEF NoWork
  <1>8. WorkTypeOK'
    <2>1. batch' \in [Runtimes -> [intent : Intents \cup {NoIntent}, at : Nat]]
      BY <1>7 DEF IInv, WorkTypeOK, Writes
    <2>2. \A p \in Runtimes : desk'[p] = NoWork \/ AnswerOK(desk'[p])
      BY DEF IInv, WorkTypeOK, Writes
    <2>3. \A p \in Runtimes : (desk[p] = NoWork \/ AnswerOK(desk[p]))'
      BY <2>2 DEF AnswerOK, NoWork
    <2>4. DOMAIN desk' = Runtimes
      BY DEF Writes
    <2> QED
      BY <2>1, <2>3, <2>4 DEF WorkTypeOK
  <1>9. PickedIsPending'
    <2> SUFFICES ASSUME NEW p \in Runtimes, batch'[p].intent # NoIntent
                 PROVE  /\ rows'[batch'[p].intent] # Absent
                        /\ p \in {owner} \cup retired
                        /\ p = owner => rows'[batch'[p].intent].status = "pending"
      BY <1>4 DEF PickedIsPending, Stored, Absent
    <2>1. batch'[p] = batch[p] /\ batch[p].intent \in Intents
      BY <1>7 DEF Writes, IInv, WorkTypeOK
    <2>2. /\ rows[batch[p].intent] # Absent
          /\ p \in {owner} \cup retired
          /\ p = owner => rows[batch[p].intent].status = "pending"
      BY <2>1 DEF IInv, PickedIsPending, Stored
    <2>3. CASE batch[p].intent = i
      BY <1>3, <2>1, <2>2, <2>3 DEF WritesWell
    <2>4. CASE batch[p].intent # i
      BY <1>1, <2>1, <2>2, <2>4
    <2> QED
      BY <2>3, <2>4
  <1>10. AnswersRequest'
    <2> SUFFICES ASSUME NEW p \in Runtimes, desk'[p] # NoWork
                 PROVE  desk'[p].nth \in 1..Len(approvals'[desk'[p].intent])
      BY DEF AnswersRequest, NoWork
    <2>1. desk'[p] = desk[p] /\ desk[p].intent \in Intents /\ desk[p].nth \in 1..Len(approvals[desk[p].intent])
      BY DEF Writes, IInv, WorkTypeOK, AnswersRequest, AnswerOK
    <2>2. CASE desk[p].intent = i
      <3>1. Len(approvals[i]) \in Nat /\ Len(q) \in Nat
        BY <1>2 DEF IInv, LedgerTypeOK
      <3> QED
        BY <1>1, <1>2, <2>1, <2>2, <3>1
    <2>3. CASE desk[p].intent # i
      BY <1>1, <2>1, <2>3
    <2> QED
      BY <2>2, <2>3
  <1>11. RequestsWait'
    <2> SUFFICES ASSUME NEW j \in Intents
                 PROVE  /\ approvals'[j] # <<>> => rows'[j] # Absent /\ rows'[j].status # "pending"
                        /\ PendingOf(approvals'[j]) # {} => rows'[j].status = "approval_required"
      BY DEF RequestsWait, Stored, Absent, PendingOf
    <2>1. CASE j = i
      BY <1>1, <1>2, <1>3, <2>1
    <2>2. CASE j # i
      BY <1>1, <2>2, Zenon DEF IInv, RequestsWait, Stored
    <2> QED
      BY <2>1, <2>2
  <1>12. OneQuestionOneAnswer'
    <2> SUFFICES ASSUME NEW j \in Intents
                 PROVE  /\ Len(approvals'[j]) <= 1
                        /\ j \in commands' <=> (rows'[j] # Absent /\ rows'[j].status = "approved")
                        /\ rows'[j] # Absent /\ rows'[j].status = "approval_required" =>
                              PendingOf(approvals'[j]) # {} \/ Withdrawn(j)'
      BY <1>4 DEF OneQuestionOneAnswer, Stored, Absent, PendingOf
    <2>1. CASE j = i
      BY <1>1, <1>2, <1>3, <2>1 DEF Writes
    <2>2. CASE j # i
      <3>1. j \in commands' <=> j \in commands
        BY <2>2 DEF Writes
      <3>2. Withdrawn(j) => Withdrawn(j)'
        BY <1>1, <1>4, <2>2 DEF Writes, Withdrawn
      <3> QED
        BY <1>1, <2>2, <3>1, <3>2 DEF IInv, OneQuestionOneAnswer, Stored
    <2> QED
      BY <2>1, <2>2
  <1> QED
    BY <1>5, <1>6, <1>8, <1>9, <1>10, <1>11, <1>12 DEF IInv

-----------------------------------------------------------------------------
(* The two transactions that evaluate an intent. *)

\* A command published in this step is of a stored intent and has its authority.
Published == \A i \in commands' \ commands : i \in Intents /\ RowOK(rows[i]) /\ Authority(i, approvals'[i])

\* What Settle writes, in terms of the outcome.
LEMMA SettleWrites ==
  ASSUME LedgerTypeOK, NEW i \in Intents, NEW out, NEW asked, NEW told \in Seq(Notices),
         Settle(i, out, asked, told), ~out.lapses
  PROVE  /\ rows' = [rows EXCEPT ![i].status = out.status]
         /\ approvals' = [approvals EXCEPT ![i] = IF out.asks THEN Append(asked, Request(i)) ELSE asked]
         /\ commands' = IF out.issues THEN commands \cup {i} ELSE commands
         /\ notices' \in [Intents -> Seq(Notices)] /\ \A j \in Intents \ {i} : notices'[j] = notices[j]
  <1>1. RequestsAfter(i, out, asked) = IF out.asks THEN Append(asked, Request(i)) ELSE asked
    BY DEF RequestsAfter
  <1>2. NoticesAfter(out, told) \in Seq(Notices)
    BY DEF NoticesAfter, Notices
  <1>3. notices' = [notices EXCEPT ![i] = NoticesAfter(out, told)]
    BY Zenon DEF Settle
  <1>4. notices' \in [Intents -> Seq(Notices)] /\ \A j \in Intents \ {i} : notices'[j] = notices[j]
    BY <1>2, <1>3 DEF LedgerTypeOK
  <1> QED
    BY <1>1, <1>4, Zenon DEF Settle, CommandsAfter

\* The evaluation of a pending intent keeps the invariant and publishes only
\* under authority: with no request so far, or with the one request approved.
LEMMA SettlePending ==
  ASSUME GovernanceAssumption, IInv, NEW i \in Intents, NEW at, NEW asked \in Seq(Requests), NEW told \in Seq(Notices),
         RowOK(rows[i]), i \notin commands,
         Settle(i, EvaluateLoaded(i, at, asked, "pending"), asked, told),
         asked = <<>> \/ (ApprovedOf(asked) # {} /\ Len(asked) <= 1),
         PendingOf(asked) = {}, Len(approvals[i]) <= Len(asked),
         UNCHANGED <<fenceVars, worldVars, controlVars, dispatch, deployment>>,
         batch' = [p \in Runtimes |-> batch'[p]], \A p \in Runtimes : batch'[p] \in {batch[p], NoWork},
         DOMAIN desk' = Runtimes, \A p \in Runtimes : desk'[p] \in {desk[p], NoWork},
         \A p \in Runtimes : p = owner => batch'[p].intent # i
  PROVE  IInv' /\ Published
  <1> DEFINE out == EvaluateLoaded(i, at, asked, "pending")
  <1>1. Len(asked) <= 1
    OBVIOUS
  <1>2. /\ Settle(i, out, asked, told)
        /\ \/ out = Issues /\ Authority(i, asked)
           \/ out = Asks /\ ApprovedOf(asked) = {}
           \/ \E s \in {"denied", "stale", "expired"} : out = Outcome(s)
    BY PendingOutcome
  <1> HIDE DEF out
  <1>3. CASE out = Issues /\ Authority(i, asked)
    <2>1. /\ rows' = [rows EXCEPT ![i].status = "approved"]
          /\ approvals' = [approvals EXCEPT ![i] = asked]
          /\ commands' = commands \cup {i}
          /\ notices' \in [Intents -> Seq(Notices)] /\ \A j \in Intents \ {i} : notices'[j] = notices[j]
      <3>1. out.status = "approved" /\ ~out.asks /\ out.issues /\ ~out.lapses
        BY <1>3, OutcomeOf
      <3>2. /\ rows' = [rows EXCEPT ![i].status = out.status]
            /\ approvals' = [approvals EXCEPT ![i] = IF out.asks THEN Append(asked, Request(i)) ELSE asked]
            /\ commands' = IF out.issues THEN commands \cup {i} ELSE commands
            /\ notices' \in [Intents -> Seq(Notices)] /\ \A j \in Intents \ {i} : notices'[j] = notices[j]
        BY <1>2, <3>1, SettleWrites DEF IInv
      <3> QED
        BY <3>1, <3>2, Zenon
    <2>2. Writes(i, "approved", asked)
      BY <2>1 DEF Writes
    <2>3. WritesWell(i, "approved", asked)
      BY <1>1 DEF WritesWell, IntentStatuses
    <2>4. approvals'[i] = asked
      BY <2>1 DEF IInv, LedgerTypeOK
    <2>5. \A j \in commands' \ commands : j = i
      BY <2>1
    <2>6. Published
      BY <1>3, <2>4, <2>5 DEF Published
    <2> QED
      BY <2>2, <2>3, <2>6, WritesKeep
  <1>4. CASE out = Asks /\ ApprovedOf(asked) = {}
    <2> DEFINE q == Append(<<>>, Request(i))
    <2>1. asked = <<>>
      BY <1>4
    <2>2. /\ rows' = [rows EXCEPT ![i].status = "approval_required"]
          /\ approvals' = [approvals EXCEPT ![i] = q]
          /\ commands' = commands
          /\ notices' \in [Intents -> Seq(Notices)] /\ \A j \in Intents \ {i} : notices'[j] = notices[j]
      <3>1. out.status = "approval_required" /\ out.asks /\ ~out.issues /\ ~out.lapses
        BY <1>4, OutcomeOf
      <3>2. /\ rows' = [rows EXCEPT ![i].status = out.status]
            /\ approvals' = [approvals EXCEPT ![i] = IF out.asks THEN Append(asked, Request(i)) ELSE asked]
            /\ commands' = IF out.issues THEN commands \cup {i} ELSE commands
            /\ notices' \in [Intents -> Seq(Notices)] /\ \A j \in Intents \ {i} : notices'[j] = notices[j]
        BY <1>2, <3>1, SettleWrites DEF IInv
      <3> QED
        BY <2>1, <3>1, <3>2, Zenon
    <2>3. Request(i) \in Requests /\ Request(i).status = "pending"
      BY DEF Request, Requests, RowOK
    <2>4. q \in Seq(Requests) /\ Len(q) = 1 /\ PendingOf(q) # {}
      BY <2>3, FirstRequest
    <2> HIDE DEF q
    <2>5. Writes(i, "approval_required", q)
      BY <2>2 DEF Writes
    <2>6. Len(approvals[i]) <= Len(q)
      BY <2>1, <2>4 DEF IInv, LedgerTypeOK
    <2>7. WritesWell(i, "approval_required", q)
      BY <2>4, <2>6 DEF WritesWell, IntentStatuses
    <2>8. Published
      BY <2>2 DEF Published
    <2> QED
      BY <2>5, <2>7, <2>8, WritesKeep
  <1>5. CASE \E s \in {"denied", "stale", "expired"} : out = Outcome(s)
    <2>1. PICK s \in {"denied", "stale", "expired"} : out = Outcome(s)
      BY <1>5
    <2>2. /\ rows' = [rows EXCEPT ![i].status = s]
          /\ approvals' = [approvals EXCEPT ![i] = asked]
          /\ commands' = commands
          /\ notices' \in [Intents -> Seq(Notices)] /\ \A j \in Intents \ {i} : notices'[j] = notices[j]
      <3>1. out.status = s /\ ~out.asks /\ ~out.issues /\ ~out.lapses
        BY <2>1, OutcomeOf
      <3>2. /\ rows' = [rows EXCEPT ![i].status = out.status]
            /\ approvals' = [approvals EXCEPT ![i] = IF out.asks THEN Append(asked, Request(i)) ELSE asked]
            /\ commands' = IF out.issues THEN commands \cup {i} ELSE commands
            /\ notices' \in [Intents -> Seq(Notices)] /\ \A j \in Intents \ {i} : notices'[j] = notices[j]
        BY <1>2, <3>1, SettleWrites DEF IInv
      <3> QED
        BY <3>1, <3>2, Zenon
    <2>3. Writes(i, s, asked)
      BY <2>2 DEF Writes
    <2>4. WritesWell(i, s, asked)
      BY <1>1 DEF WritesWell, IntentStatuses
    <2>5. Published
      BY <2>2 DEF Published
    <2> QED
      BY <2>3, <2>4, <2>5, WritesKeep
  <1> QED
    BY <1>2, <1>3, <1>4, <1>5

\* The governed batch: the intent a process picked is pending, so nobody was
\* asked about it yet.
LEMMA EvaluateStep ==
  ASSUME GovernanceAssumption, IInv, UNCHANGED deployment, NEW p \in Runtimes, EvaluateIntent(p)
  PROVE  IInv' /\ Published
  <1> DEFINE i == batch[p].intent
  <1>1. /\ i # NoIntent /\ owner = p
        /\ Settle(i, EvaluateLoaded(i, batch[p].at, approvals[i], rows[i].status), approvals[i], notices[i])
        /\ batch' = [batch EXCEPT ![p] = NoWork] /\ desk' = desk
        /\ UNCHANGED <<fenceVars, worldVars, controlVars, dispatch, deployment>>
    BY Zenon DEF EvaluateIntent, Holds
  <1>2. i \in Intents /\ batch \in [Runtimes -> [intent : Intents \cup {NoIntent}, at : Nat]] /\ DOMAIN desk = Runtimes
    BY <1>1 DEF IInv, WorkTypeOK
  <1>3. rows[i] # Absent /\ rows[i].status = "pending"
    BY <1>1 DEF IInv, PickedIsPending, Stored
  <1>4. RowOK(rows[i]) /\ approvals[i] \in Seq(Requests) /\ notices[i] \in Seq(Notices)
    BY <1>2, <1>3 DEF IInv, LedgerTypeOK
  <1>5. approvals[i] = <<>> /\ i \notin commands
    BY <1>2, <1>3 DEF IInv, RequestsWait, OneQuestionOneAnswer
  <1>6. PendingOf(approvals[i]) = {}
    BY <1>5, NoRequests
  <1>7. /\ batch' = [x \in Runtimes |-> batch'[x]] /\ \A x \in Runtimes : batch'[x] \in {batch[x], NoWork}
        /\ DOMAIN desk' = Runtimes /\ \A x \in Runtimes : desk'[x] \in {desk[x], NoWork}
        /\ \A x \in Runtimes : x = owner => batch'[x].intent # i
    BY <1>1, <1>2, Zenon DEF NoWork
  <1>8. Len(approvals[i]) <= Len(approvals[i])
    BY <1>4
  <1> HIDE DEF i
  <1> QED
    BY <1>1, <1>2, <1>3, <1>4, <1>5, <1>6, <1>7, <1>8, SettlePending, Zenon

\* A step that ends an answer and leaves the ledger alone.
LEMMA AnswerDropped ==
  ASSUME IInv, NEW p \in Runtimes, desk' = [desk EXCEPT ![p] = NoWork], UNCHANGED <<ledgerVars, deployment>>,
         UNCHANGED <<fenceVars, worldVars, controlVars, dispatch, batch>>
  PROVE  IInv' /\ Published
  <1>1. UNCHANGED <<owner, valid, retired, now, version, material, complete, killed, interlock, roster, rows, approvals,
                    notices, commands, deployment, dispatch, batch>>
    BY DEF fenceVars, worldVars, controlVars, ledgerVars
  <1>2. LedgerTypeOK' /\ ControlTypeOK' /\ PickedIsPending' /\ RequestsWait' /\ OneQuestionOneAnswer'
    BY <1>1, Unmoved DEF IInv
  <1>3. DOMAIN desk' = Runtimes /\ \A x \in Runtimes : desk'[x] = NoWork \/ desk'[x] = desk[x]
    BY DEF IInv, WorkTypeOK
  <1>4. WorkTypeOK' /\ AnswersRequest'
    BY <1>1, <1>3 DEF IInv, WorkTypeOK, AnswersRequest, AnswerOK, NoWork
  <1> QED
    BY <1>1, <1>2, <1>4 DEF IInv, Published

\* ResolveApproval: only a pending request can be answered, and the intent of
\* a pending request waits for it.
LEMMA ResolveStep ==
  ASSUME GovernanceAssumption, IInv, UNCHANGED deployment, NEW p \in Runtimes, ResolveApproval(p)
  PROVE  IInv' /\ Published
  <1> DEFINE r == desk[p]
             i == r.intent
             verdict == ApprovalDisposition(r, approvals[i][r.nth])
  <1>1. /\ r # NoWork /\ owner = p
        /\ \/ verdict = "resolved" /\ UNCHANGED ledgerVars
           \/ verdict = "stale" /\ CloseApproval(r, "denied", "denied", <<"withdrawn", "resolved">>)
           \/ verdict = "expired" /\ CloseApproval(r, "expired", "expired", <<"resolved">>)
           \/ verdict = "authorize" /\ Authorized(r) /\ RecordResolution(r)
           \/ verdict = "authorize" /\ ~Authorized(r) /\ UNCHANGED ledgerVars
        /\ desk' = [desk EXCEPT ![p] = NoWork] /\ batch' = batch
        /\ UNCHANGED <<fenceVars, worldVars, controlVars, dispatch, batch, deployment>>
    BY Zenon DEF ResolveApproval, Holds
  <1>2. CASE UNCHANGED ledgerVars
    BY <1>1, <1>2, AnswerDropped, Zenon
  <1>3. CASE verdict # "resolved" /\ ~UNCHANGED ledgerVars
    <2>1. AnswerOK(r) /\ r.nth \in 1..Len(approvals[i])
      BY <1>1 DEF IInv, WorkTypeOK, AnswersRequest
    <2>2. /\ i \in Intents /\ approvals[i] \in Seq(Requests) /\ Len(approvals[i]) <= 1
          /\ r.approver \in Principals /\ r.approved \in BOOLEAN
      BY <2>1 DEF AnswerOK, IInv, LedgerTypeOK, OneQuestionOneAnswer
    <2>3. approvals[i][r.nth].status = "pending"
      <3>1. \A x, asked : asked.status # "pending" => ApprovalDisposition(x, asked) = "resolved"
        BY DEF ApprovalDisposition
      <3> QED
        BY <1>3, <3>1, Zenon
    <2>4. rows[i].status = "approval_required" /\ rows[i] # Absent /\ i \notin commands
      <3>1. r.nth \in PendingOf(approvals[i])
        BY <2>1, <2>2, <2>3 DEF PendingOf
      <3>2. approvals[i] # <<>>
        BY <2>1, <2>2
      <3> QED
        BY <2>2, <3>1, <3>2, Zenon DEF IInv, RequestsWait, OneQuestionOneAnswer, Stored
    <2>5. RowOK(rows[i])
      BY <2>2, <2>4 DEF IInv, LedgerTypeOK
    <2>6. /\ batch' = [x \in Runtimes |-> batch'[x]] /\ \A x \in Runtimes : batch'[x] \in {batch[x], NoWork}
          /\ DOMAIN desk' = Runtimes /\ \A x \in Runtimes : desk'[x] \in {desk[x], NoWork}
      BY <1>1 DEF IInv, WorkTypeOK
    <2>7. \A x \in Runtimes : x = owner => batch'[x].intent # i
      <3> SUFFICES ASSUME NEW x \in Runtimes, x = owner, batch[x].intent = i PROVE FALSE
        BY <1>1
      <3>1. i # NoIntent
        BY <2>2 DEF GovernanceAssumption
      <3> QED
        BY <2>4, <3>1 DEF IInv, PickedIsPending
    <2>8. ASSUME NEW s \in {"denied", "expired"}, NEW who \in Principals \cup {NoIntent},
                 rows' = [rows EXCEPT ![i].status = s],
                 approvals' = [approvals EXCEPT ![i] = Decided(approvals[i], r.nth, s, who)], commands' = commands,
                 NEW told \in Seq(Notices), notices' = [notices EXCEPT ![i] = told]
          PROVE  IInv' /\ Published
      <3> DEFINE q == Decided(approvals[i], r.nth, s, who)
      <3>1. q \in Seq(Requests) /\ Len(q) = Len(approvals[i]) /\ PendingOf(q) = {}
        <4>1. q \in Seq(Requests) /\ Len(q) = Len(approvals[i])
          BY <2>1, <2>2, <2>3, DecidedRequest
        <4>2. PendingOf(q) = {}
          BY <2>1, <2>2, <2>3, DecidedOnly
        <4> QED
          BY <4>1, <4>2
      <3>6. notices' \in [Intents -> Seq(Notices)] /\ \A j \in Intents \ {i} : notices'[j] = notices[j]
        BY <2>2, <2>8 DEF IInv, LedgerTypeOK
      <3>2. Writes(i, s, q)
        BY <1>1, <2>6, <2>8, <3>6 DEF Writes
      <3> HIDE DEF q
      <3>3. Len(approvals[i]) <= Len(q) /\ Len(q) <= 1
        BY <2>2, <3>1
      <3>4. WritesWell(i, s, q)
        BY <2>2, <2>4, <2>5, <2>7, <3>1, <3>3 DEF WritesWell, IntentStatuses
      <3>5. Published
        BY <2>8 DEF Published
      <3> QED
        BY <3>2, <3>4, <3>5, WritesKeep
    <2>13. /\ notices[i] \o <<"withdrawn", "resolved">> \in Seq(Notices) /\ notices[i] \o <<"resolved">> \in Seq(Notices)
           /\ Append(notices[i], "resolved") \in Seq(Notices)
      <3>1. notices[i] \in Seq(Notices) /\ <<"withdrawn", "resolved">> \in Seq(Notices) /\ <<"resolved">> \in Seq(Notices)
        BY <2>2 DEF IInv, LedgerTypeOK, Notices
      <3> QED
        BY <3>1 DEF Notices
    <2>9. CASE verdict = "stale"
      BY <1>1, <1>3, <2>8, <2>9, <2>13, Zenon DEF CloseApproval
    <2>10. CASE verdict = "expired"
      BY <1>1, <1>3, <2>8, <2>10, <2>13, Zenon DEF CloseApproval
    <2>11. CASE RecordResolution(r) /\ ~r.approved
      <3>1. /\ rows' = [rows EXCEPT ![i].status = "denied"]
            /\ approvals' = [approvals EXCEPT ![i] = Decided(approvals[i], r.nth, "denied", r.approver)]
            /\ commands' = commands
            /\ notices' = [notices EXCEPT ![i] = Append(notices[i], "resolved")]
        BY <2>11, Zenon DEF RecordResolution
      <3> QED
        BY <2>2, <2>8, <2>13, <3>1, Zenon
    <2>12. CASE RecordResolution(r) /\ r.approved
      <3> DEFINE asked == Decided(approvals[i], r.nth, "approved", r.approver)
                 told == Append(notices[i], "resolved")
      <3>1. Settle(i, EvaluateLoaded(i, r.at, asked, "pending"), asked, told)
        BY <2>12, Zenon DEF RecordResolution
      <3>2. asked \in Seq(Requests) /\ Len(asked) = Len(approvals[i]) /\ PendingOf(asked) = {} /\ ApprovedOf(asked) # {}
        <4>1. r.approver \in Principals \cup {NoIntent}
          BY <2>2
        <4>2. asked \in Seq(Requests) /\ Len(asked) = Len(approvals[i])
          BY <2>1, <2>2, <2>3, <4>1, DecidedRequest
        <4>3. PendingOf(asked) = {} /\ ApprovedOf(asked) # {}
          BY <2>1, <2>2, <2>3, <4>1, DecidedOnly, Zenon
        <4> QED
          BY <4>2, <4>3
      <3>4. told \in Seq(Notices)
        BY <2>13
      <3> HIDE DEF asked, told
      <3>3. Len(asked) <= 1 /\ Len(approvals[i]) <= Len(asked)
        BY <2>2, <3>2
      <3> HIDE DEF i
      <3> QED
        BY <1>1, <2>2, <2>4, <2>5, <2>6, <2>7, <3>1, <3>2, <3>3, <3>4, SettlePending
    <2> QED
      BY <1>1, <1>3, <2>9, <2>10, <2>11, <2>12
  <1> QED
    BY <1>1, <1>2, <1>3

-----------------------------------------------------------------------------
(* The other steps. *)

\* Steps of the clock, the Situation, the operator and the episodes touch
\* neither the ledger nor what a process is working on.
LEMMA WorldSteps ==
  ASSUME IInv, UNCHANGED <<ledgerVars, batch, desk, deployment>>, ControlTypeOK', version' >= version,
         retired \subseteq retired',
         \A p \in Runtimes : p = owner' /\ p \in {owner} \cup retired => p = owner,
         \A p \in Runtimes : p = owner => p \in {owner'} \cup retired'
  PROVE  IInv' /\ Published
  <1>1. UNCHANGED <<rows, approvals, notices, commands>>
    BY DEF ledgerVars
  <1>2. LedgerTypeOK' /\ WorkTypeOK' /\ AnswersRequest' /\ RequestsWait'
    BY <1>1, Unmoved DEF IInv
  <1>3. PickedIsPending'
    BY <1>1 DEF IInv, PickedIsPending, Stored, Absent
  <1>4. OneQuestionOneAnswer'
    <2> SUFFICES ASSUME NEW i \in Intents
                 PROVE  /\ Len(approvals[i]) <= 1
                        /\ i \in commands <=> (rows[i] # Absent /\ rows[i].status = "approved")
                        /\ rows[i] # Absent /\ rows[i].status = "approval_required" =>
                              PendingOf(approvals[i]) # {} \/ Withdrawn(i)'
      BY <1>1 DEF OneQuestionOneAnswer, Stored, Absent, PendingOf
    <2>1. rows[i] # Absent => rows[i].version \in Nat
      BY DEF IInv, LedgerTypeOK, RowOK
    <2>2. version \in Nat /\ version' \in Nat
      BY DEF IInv, ControlTypeOK
    <2>3. rows[i] # Absent /\ Withdrawn(i) => Withdrawn(i)'
      BY <1>1, <2>1, <2>2 DEF Withdrawn
    <2> QED
      BY <2>3 DEF IInv, OneQuestionOneAnswer, Stored
  <1> QED
    BY <1>1, <1>2, <1>3, <1>4 DEF IInv, Published

\* A row made of a validated intent is what the catalog declares.
LEMMA NewRowOK ==
  ASSUME GovernanceAssumption, IInv, NEW p \in Runtimes, NEW d \in Decisions, Validate(d, now), NEW k \in DOMAIN d.intents
  PROVE  RowOK(NewRow(p, d.intents[k])) /\ NewRow(p, d.intents[k]).status = "pending"
  <1> DEFINE x == d.intents[k]
             row == NewRow(p, x)
  <1>1. x.type \in DOMAIN Catalog /\ x.risk = Catalog[x.type].risk
    BY DEF Validate, ValidateIntent, CheckIntentAuthority, CheckIntentRisk
  <1>2. x.expires \in Nat
    BY DEF GovernanceAssumption, IInv, ControlTypeOK, Decisions
  <1>3. dispatch[p] \in Nat
    BY DEF IInv, ControlTypeOK
  <1> HIDE DEF x
  <1>4. /\ ValidatedIntent(x).type = x.type /\ ValidatedIntent(x).risk = x.risk
        /\ ValidatedIntent(x).expires = x.expires /\ ValidatedIntent(x).approval = Catalog[x.type].approval
    BY DEF ValidatedIntent
  <1>5. /\ row = [status |-> "pending", version |-> dispatch[p], epoch |-> p, intent |-> ValidatedIntent(x)]
    BY DEF NewRow
  <1> HIDE DEF row
  <1>6. RowOK(row) /\ row.status = "pending"
    BY <1>1, <1>2, <1>3, <1>4, <1>5 DEF RowOK, IntentStatuses
  <1> QED
    BY <1>6 DEF row, x

\* The conclusion writes only rows that were absent, and writes them pending.
LEMMA ConcludeStep ==
  ASSUME GovernanceAssumption, IInv, UNCHANGED deployment, NEW p \in Runtimes, NEW d \in Decisions, Conclude(p, d)
  PROVE  IInv' /\ Published
  <1>1. /\ Validate(d, now) /\ \A k \in DOMAIN d.intents : rows[d.intents[k].id] = Absent
        /\ rows' = [i \in Intents |->
                      IF \E k \in DOMAIN d.intents : d.intents[k].id = i
                      THEN NewRow(p, d.intents[CHOOSE k \in DOMAIN d.intents : d.intents[k].id = i])
                      ELSE rows[i]]
        /\ dispatch' = [dispatch EXCEPT ![p] = 0]
    BY Zenon DEF Conclude, Stored
  <1>2. UNCHANGED <<owner, valid, retired, now, version, material, complete, killed, interlock, roster,
                    approvals, notices, commands, batch, desk, deployment>>
    BY DEF Conclude, fenceVars, worldVars, controlVars
  <1>3. ASSUME NEW i \in Intents
        PROVE  rows'[i] = rows[i] \/ (rows[i] = Absent /\ RowOK(rows'[i]) /\ rows'[i].status = "pending")
    <2>1. CASE \E k \in DOMAIN d.intents : d.intents[k].id = i
      <3> DEFINE k == CHOOSE k \in DOMAIN d.intents : d.intents[k].id = i
      <3>1. k \in DOMAIN d.intents /\ d.intents[k].id = i
        BY <2>1
      <3>2. rows'[i] = NewRow(p, d.intents[k])
        BY <1>1, <2>1
      <3> HIDE DEF k
      <3> QED
        BY <1>1, <3>1, <3>2, NewRowOK
    <2>2. CASE ~\E k \in DOMAIN d.intents : d.intents[k].id = i
      BY <1>1, <2>2
    <2> QED
      BY <2>1, <2>2
  <1>4. ControlTypeOK'
    BY <1>1, <1>2 DEF IInv, ControlTypeOK
  <1>5. LedgerTypeOK'
    <2>1. ASSUME NEW i \in Intents PROVE (rows[i] = Absent \/ RowOK(rows[i]))'
      <3>1. rows'[i] = Absent \/ RowOK(rows'[i])
        BY <1>3 DEF IInv, LedgerTypeOK
      <3> QED
        BY <3>1 DEF Absent, RowOK
    <2>2. DOMAIN rows' = Intents
      BY <1>1
    <2> QED
      BY <1>2, <2>1, <2>2 DEF IInv, LedgerTypeOK
  <1>6. WorkTypeOK' /\ AnswersRequest'
    BY <1>2, Unmoved DEF IInv
  <1>7. \A i \in Intents : rows'[i] = Absent => rows[i] = Absent
    BY <1>3, RowStored
  <1>8. \A i \in Intents : rows[i] # Absent => rows'[i] = rows[i]
    BY <1>3
  <1>9. PickedIsPending'
    <2> SUFFICES ASSUME NEW x \in Runtimes, batch[x].intent # NoIntent
                 PROVE  /\ rows'[batch[x].intent] # Absent
                        /\ x \in {owner} \cup retired
                        /\ x = owner => rows'[batch[x].intent].status = "pending"
      BY <1>2 DEF PickedIsPending, Stored, Absent
    <2>1. batch[x].intent \in Intents
      BY DEF IInv, WorkTypeOK
    <2> QED
      BY <1>8, <2>1 DEF IInv, PickedIsPending, Stored
  <1>10. RequestsWait' /\ OneQuestionOneAnswer'
    <2> SUFFICES ASSUME NEW i \in Intents
                 PROVE  /\ approvals[i] # <<>> => rows'[i] # Absent /\ rows'[i].status # "pending"
                        /\ PendingOf(approvals[i]) # {} => rows'[i].status = "approval_required"
                        /\ Len(approvals[i]) <= 1
                        /\ i \in commands <=> (rows'[i] # Absent /\ rows'[i].status = "approved")
                        /\ rows'[i] # Absent /\ rows'[i].status = "approval_required" =>
                              PendingOf(approvals[i]) # {} \/ Withdrawn(i)'
      BY <1>2 DEF RequestsWait, OneQuestionOneAnswer, Stored, Absent, PendingOf
    <2>1. CASE rows'[i] = rows[i]
      <3>1. Withdrawn(i) => Withdrawn(i)'
        BY <1>2, <2>1 DEF Withdrawn
      <3> QED
        BY <2>1, <3>1 DEF IInv, RequestsWait, OneQuestionOneAnswer, Stored
    <2>2. CASE rows[i] = Absent /\ RowOK(rows'[i]) /\ rows'[i].status = "pending"
      <3>1. approvals[i] = <<>> /\ i \notin commands
        BY <2>2 DEF IInv, RequestsWait, OneQuestionOneAnswer, Stored
      <3> QED
        BY <2>2, <3>1, NoRequests
    <2> QED
      BY <1>3, <2>1, <2>2
  <1> QED
    BY <1>2, <1>4, <1>5, <1>6, <1>9, <1>10 DEF IInv, Published

\* A batch that begins with a pending intent, or ends.
LEMMA BatchSteps ==
  ASSUME GovernanceAssumption, IInv, UNCHANGED deployment, NEW p \in Runtimes,
         BatchFails(p) \/ \E i \in Intents : PickIntent(p, i)
  PROVE  IInv' /\ Published
  <1>1. UNCHANGED <<owner, valid, retired, now, version, material, complete, killed, interlock, roster, dispatch,
                    rows, approvals, notices, commands, desk, deployment>>
    BY DEF BatchFails, PickIntent, fenceVars, worldVars, controlVars, ledgerVars
  <1>2. LedgerTypeOK' /\ ControlTypeOK' /\ AnswersRequest' /\ RequestsWait' /\ OneQuestionOneAnswer'
    BY <1>1, Unmoved DEF IInv
  <1>3. \E b \in [intent : Intents \cup {NoIntent}, at : Nat] :
           /\ batch' = [batch EXCEPT ![p] = b]
           /\ b.intent # NoIntent => rows[b.intent] # Absent /\ rows[b.intent].status = "pending" /\ owner = p
    <2>1. CASE BatchFails(p)
      <3>1. batch' = [batch EXCEPT ![p] = NoWork]
        BY <2>1, Zenon DEF BatchFails
      <3>2. NoWork \in [intent : Intents \cup {NoIntent}, at : Nat] /\ NoWork.intent = NoIntent
        BY DEF NoWork
      <3> QED
        BY <3>1, <3>2, Zenon
    <2>2. ASSUME NEW i \in Intents, PickIntent(p, i)
          PROVE  \E b \in [intent : Intents \cup {NoIntent}, at : Nat] :
                    /\ batch' = [batch EXCEPT ![p] = b]
                    /\ b.intent # NoIntent => rows[b.intent] # Absent /\ rows[b.intent].status = "pending" /\ owner = p
      <3> DEFINE b == [intent |-> i, at |-> now]
      <3>1. batch' = [batch EXCEPT ![p] = b] /\ rows[i] # Absent /\ rows[i].status = "pending" /\ owner = p
        BY <2>2, Zenon DEF PickIntent, Holds, Stored
      <3>2. b \in [intent : Intents \cup {NoIntent}, at : Nat] /\ b.intent = i
        BY DEF IInv, ControlTypeOK
      <3> HIDE DEF b
      <3> QED
        BY <3>1, <3>2, Zenon
    <2> QED
      BY <2>1, <2>2
  <1>4. PICK b \in [intent : Intents \cup {NoIntent}, at : Nat] :
           /\ batch' = [batch EXCEPT ![p] = b]
           /\ b.intent # NoIntent => rows[b.intent] # Absent /\ rows[b.intent].status = "pending" /\ owner = p
    BY <1>3, Zenon
  <1>5. WorkTypeOK'
    BY <1>1, <1>4 DEF IInv, WorkTypeOK, AnswerOK, NoWork
  <1>6. \A x \in Runtimes : batch'[x] = IF x = p THEN b ELSE batch[x]
    BY <1>4 DEF IInv, WorkTypeOK
  <1>7. PickedIsPending'
    <2> SUFFICES ASSUME NEW x \in Runtimes, batch'[x].intent # NoIntent
                 PROVE  /\ rows[batch'[x].intent] # Absent
                        /\ x \in {owner} \cup retired
                        /\ x = owner => rows[batch'[x].intent].status = "pending"
      BY <1>1 DEF PickedIsPending, Stored, Absent
    <2> QED
      BY <1>4, <1>6 DEF IInv, PickedIsPending, Stored
  <1> QED
    BY <1>1, <1>2, <1>5, <1>7 DEF IInv, Published

\* An answer that arrives names the latest request of its intent.
LEMMA ReceiveStep ==
  ASSUME GovernanceAssumption, IInv, UNCHANGED deployment, NEW p \in Runtimes, NEW i \in Intents,
         NEW a \in Principals, NEW r \in Principals, NEW k \in Keys, NEW yes \in BOOLEAN,
         ReceiveAnswer(p, i, a, r, k, yes)
  PROVE  IInv' /\ Published
  <1> DEFINE answer == [intent |-> i, nth |-> Len(approvals[i]), approver |-> a,
                        relay |-> r, key |-> k, approved |-> yes, at |-> now]
  <1>1. UNCHANGED <<owner, valid, retired, now, version, material, complete, killed, interlock, roster, dispatch,
                    rows, approvals, notices, commands, batch, deployment>>
    BY DEF ReceiveAnswer, fenceVars, worldVars, controlVars, ledgerVars
  <1>2. LedgerTypeOK' /\ ControlTypeOK' /\ PickedIsPending' /\ RequestsWait' /\ OneQuestionOneAnswer'
    BY <1>1, Unmoved DEF IInv
  <1>3. desk' = [desk EXCEPT ![p] = answer] /\ approvals[i] # <<>>
    BY Zenon DEF ReceiveAnswer
  <1>4. approvals[i] \in Seq(Requests)
    BY DEF IInv, LedgerTypeOK
  <1>5. Len(approvals[i]) \in Nat /\ Len(approvals[i]) \in 1..Len(approvals[i])
    BY <1>3, <1>4
  <1>6. AnswerOK(answer) /\ answer.nth \in 1..Len(approvals[answer.intent])
    BY <1>5 DEF AnswerOK
  <1> HIDE DEF answer
  <1>7. DOMAIN desk' = Runtimes /\ \A x \in Runtimes : desk'[x] = IF x = p THEN answer ELSE desk[x]
    BY <1>3 DEF IInv, WorkTypeOK
  <1>8. WorkTypeOK'
    <2>1. \A x \in Runtimes : desk'[x] = NoWork \/ AnswerOK(desk'[x])
      BY <1>6, <1>7 DEF IInv, WorkTypeOK
    <2> QED
      BY <1>1, <1>7, <2>1 DEF IInv, WorkTypeOK, AnswerOK, NoWork
  <1>9. AnswersRequest'
    BY <1>1, <1>6, <1>7 DEF IInv, AnswersRequest, NoWork
  <1> QED
    BY <1>1, <1>2, <1>8, <1>9 DEF IInv, Published

\* A withdrawal closes requests of intents bound to an older version only.
LEMMA WithdrawStep ==
  ASSUME GovernanceAssumption, IInv, UNCHANGED deployment, NEW p \in Runtimes, WithdrawSuperseded(p)
  PROVE  IInv' /\ Published
  <1>1. UNCHANGED <<owner, valid, retired, now, version, material, complete, killed, interlock, roster, dispatch,
                    rows, commands, batch, desk, deployment>>
    BY DEF WithdrawSuperseded, fenceVars, worldVars, controlVars
  <1>2. approvals' = [i \in Intents |->
           IF i \in SupersededApprovals
           THEN [k \in DOMAIN approvals[i] |-> Decided(approvals[i], k, "denied", NoIntent)[k]]
           ELSE approvals[i]]
    BY Zenon DEF WithdrawSuperseded
  <1>10. notices' = [i \in Intents |-> IF i \in SupersededApprovals THEN Append(notices[i], "withdrawn") ELSE notices[i]]
    BY Zenon DEF WithdrawSuperseded
  <1>3. approvals \in [Intents -> Seq(Requests)]
    BY DEF IInv, LedgerTypeOK
  <1>4. ASSUME NEW i \in Intents
        PROVE  /\ approvals'[i] \in Seq(Requests) /\ Len(approvals'[i]) = Len(approvals[i])
               /\ \/ approvals'[i] = approvals[i]
                  \/ PendingOf(approvals'[i]) = {} /\ rows[i].version < version
               /\ Withdrawn(i) \/ approvals'[i] # approvals[i] => Withdrawn(i)'
    <2>1. CASE i \in SupersededApprovals
      <3> DEFINE w == [k \in DOMAIN approvals[i] |-> Decided(approvals[i], k, "denied", NoIntent)[k]]
      <3>1. approvals'[i] = w
        BY <1>2, <2>1, Zenon
      <3>2. w \in Seq(Requests) /\ Len(w) = Len(approvals[i]) /\ PendingOf(w) = {}
        BY <1>3, WithdrawnRequests
      <3> HIDE DEF w
      <3>3. rows[i].version < version
        BY <2>1 DEF SupersededApprovals
      <3>4. notices[i] \in Seq(Notices) /\ notices'[i] = Append(notices[i], "withdrawn")
        BY <1>10, <2>1 DEF IInv, LedgerTypeOK
      <3>5. Withdrawn(i)'
        BY <1>1, <3>3, <3>4 DEF Withdrawn
      <3> QED
        BY <3>1, <3>2, <3>3, <3>5
    <2>2. CASE i \notin SupersededApprovals
      <3>1. approvals'[i] = approvals[i] /\ notices'[i] = notices[i]
        BY <1>2, <1>10, <2>2
      <3>2. Withdrawn(i) => Withdrawn(i)'
        BY <1>1, <3>1 DEF Withdrawn
      <3> QED
        BY <1>3, <3>1, <3>2
    <2> QED
      BY <2>1, <2>2
  <1>5. approvals' \in [Intents -> Seq(Requests)]
    BY <1>2, <1>4
  <1>6. ControlTypeOK' /\ WorkTypeOK' /\ PickedIsPending'
    BY <1>1, Unmoved DEF IInv
  <1>7. AnswersRequest'
    <2> SUFFICES ASSUME NEW x \in Runtimes, desk[x] # NoWork
                 PROVE  desk[x].nth \in 1..Len(approvals'[desk[x].intent])
      BY <1>1 DEF AnswersRequest, NoWork
    <2>1. desk[x].intent \in Intents /\ desk[x].nth \in 1..Len(approvals[desk[x].intent])
      BY DEF IInv, WorkTypeOK, AnswersRequest, AnswerOK
    <2> QED
      BY <1>4, <2>1
  <1>8. RequestsWait' /\ OneQuestionOneAnswer'
    <2> SUFFICES ASSUME NEW i \in Intents
                 PROVE  /\ approvals'[i] # <<>> => rows[i] # Absent /\ rows[i].status # "pending"
                        /\ PendingOf(approvals'[i]) # {} => rows[i].status = "approval_required"
                        /\ Len(approvals'[i]) <= 1
                        /\ i \in commands <=> (rows[i] # Absent /\ rows[i].status = "approved")
                        /\ rows[i] # Absent /\ rows[i].status = "approval_required" =>
                              PendingOf(approvals'[i]) # {} \/ Withdrawn(i)'
      BY <1>1 DEF RequestsWait, OneQuestionOneAnswer, Stored, Absent, PendingOf
    <2>1. approvals'[i] # <<>> => approvals[i] # <<>>
      BY <1>3, <1>4
    <2> QED
      BY <1>4, <2>1, Zenon DEF IInv, RequestsWait, OneQuestionOneAnswer, Stored
  <1>9. LedgerTypeOK'
    <2>1. notices' \in [Intents -> Seq(Notices)]
      BY <1>10 DEF IInv, LedgerTypeOK, Notices
    <2> QED
      BY <1>1, <1>5, <2>1 DEF IInv, LedgerTypeOK, Absent, RowOK
  <1> QED
    BY <1>1, <1>6, <1>7, <1>8, <1>9 DEF IInv, Published

-----------------------------------------------------------------------------
(* The theorems. *)

LEMMA InitInvariant ==
  ASSUME GovernanceAssumption, Init
  PROVE  IInv
  <1>1. LedgerTypeOK
    BY DEF Init, LedgerTypeOK
  <1>2. ControlTypeOK
    BY DEF Init, ControlTypeOK
  <1>3. NoWork \in [intent : Intents \cup {NoIntent}, at : Nat] /\ NoWork.intent = NoIntent
    BY DEF NoWork
  <1>4. WorkTypeOK /\ PickedIsPending /\ AnswersRequest
    BY <1>3 DEF Init, WorkTypeOK, PickedIsPending, AnswersRequest
  <1>5. \A i \in Intents : approvals[i] = <<>> /\ rows[i] = Absent /\ i \notin commands
    BY DEF Init
  <1>6. RequestsWait /\ OneQuestionOneAnswer
    BY <1>5, NoRequests DEF RequestsWait, OneQuestionOneAnswer, Stored
  <1> QED
    BY <1>1, <1>2, <1>4, <1>6 DEF IInv

\* The owner lease changes hands without giving it back to a displaced epoch.
LEMMA LeaseSteps ==
  ASSUME GovernanceAssumption, IInv, UNCHANGED deployment, LeaseEnds \/ \E e \in deployment.epochs : Claim(e)
  PROVE  IInv' /\ Published
  <1>1. UNCHANGED <<ledgerVars, batch, desk, deployment>> /\ ControlTypeOK' /\ version' = version
    BY DEF LeaseEnds, Claim, worldVars, controlVars, IInv, ControlTypeOK
  <1>2. CASE LeaseEnds
    <2>1. UNCHANGED <<owner, retired>>
      BY <1>2 DEF LeaseEnds, Lapse
    <2> QED
      BY <1>1, <2>1, WorldSteps DEF IInv, ControlTypeOK
  <1>3. ASSUME NEW e \in deployment.epochs, Claim(e)
        PROVE  IInv' /\ Published
    <2>1. e \notin retired /\ owner' = e /\ retired' = retired \cup ({owner} \ {e, NoEpoch})
      BY <1>3, Zenon DEF Claim, Take
    <2>2. \A p \in Runtimes : p # NoEpoch
      BY NoEpochAssumption DEF GovernanceAssumption
    <2>3. version' >= version
      BY <1>1 DEF IInv, ControlTypeOK
    <2>4. /\ retired \subseteq retired'
          /\ \A p \in Runtimes : p = owner' /\ p \in {owner} \cup retired => p = owner
          /\ \A p \in Runtimes : p = owner => p \in {owner'} \cup retired'
      BY <2>1, <2>2
    <2> QED
      BY <1>1, <2>3, <2>4, WorldSteps
  <1> QED
    BY <1>2, <1>3

\* The clock, the Situation, the operator's controls and the episodes.
LEMMA ControlSteps ==
  ASSUME GovernanceAssumption, IInv, UNCHANGED deployment,
         \/ Tick \/ \E p \in Runtimes, changed, whole \in BOOLEAN : PublishVersion(p, changed, whole)
         \/ Trip \/ \E o \in Epochs : Clear(o)
         \/ \E p \in Runtimes : Kill(p) \/ Dispatch(p)
         \/ \E o \in Epochs, document \in Rosters : ApplyPrincipals(o, document)
         \/ \E p \in Runtimes, d \in Decisions : Reject(p, d)
  PROVE  IInv' /\ Published
  <1>1. UNCHANGED <<ledgerVars, batch, desk, fenceVars>>
    BY DEF Tick, PublishVersion, Trip, Clear, Kill, Dispatch, ApplyPrincipals, Reject
  <1>2. UNCHANGED <<owner, retired>>
    BY <1>1 DEF fenceVars
  <1>3. ControlTypeOK' /\ version' >= version
    <2>1. /\ deployment \in Deployments /\ now \in Nat /\ version \in Nat /\ material \in Nat
          /\ dispatch \in [Runtimes -> Nat] /\ interlock \in {"ready", "tripped"}
      BY DEF IInv, ControlTypeOK
    <2>2. CASE Tick
      BY <2>1, <2>2 DEF Tick, controlVars, ControlTypeOK
    <2>3. ASSUME NEW p \in Runtimes, NEW changed \in BOOLEAN, NEW whole \in BOOLEAN, PublishVersion(p, changed, whole)
          PROVE  ControlTypeOK' /\ version' >= version
      BY <2>1, <2>3 DEF PublishVersion, controlVars, ControlTypeOK
    <2>4. CASE Trip \/ \E o \in Epochs : Clear(o)
      BY <2>1, <2>4 DEF Trip, Clear, worldVars, ControlTypeOK
    <2>5. ASSUME NEW p \in Runtimes, Kill(p) \/ Dispatch(p) PROVE ControlTypeOK' /\ version' >= version
      BY <2>1, <2>5 DEF Kill, Dispatch, worldVars, controlVars, ControlTypeOK
    <2>6. ASSUME NEW o \in Epochs, NEW document \in Rosters, ApplyPrincipals(o, document)
          PROVE  ControlTypeOK' /\ version' >= version
      BY <2>1, <2>6 DEF ApplyPrincipals, worldVars, ControlTypeOK
    <2>7. ASSUME NEW p \in Runtimes, NEW d \in Decisions, Reject(p, d)
          PROVE  ControlTypeOK' /\ version' >= version
      BY <2>1, <2>7 DEF Reject, worldVars, controlVars, ControlTypeOK
    <2> QED
      BY <2>2, <2>3, <2>4, <2>5, <2>6, <2>7
  <1> QED
    BY <1>1, <1>2, <1>3, WorldSteps

\* Every step keeps the invariant and publishes only under authority.
LEMMA StepInvariant ==
  ASSUME GovernanceAssumption, IInv, [Next]_<<vars, deployment>>
  PROVE  IInv' /\ Published
  <1>1. CASE UNCHANGED <<vars, deployment>>
    <2>1. UNCHANGED <<ledgerVars, batch, desk, deployment, owner, retired, version, worldVars, controlVars, dispatch>>
      BY <1>1 DEF vars, fenceVars, worldVars
    <2>2. ControlTypeOK' /\ version' >= version
      BY <2>1 DEF IInv, ControlTypeOK, worldVars, controlVars
    <2> QED
      BY <2>1, <2>2, WorldSteps
  <1>2. CASE Next
    <2>1. UNCHANGED deployment /\ Step
      BY <1>2 DEF Next
    <2>2. CASE LeaseEnds \/ \E e \in deployment.epochs : Claim(e)
      BY <2>1, <2>2, LeaseSteps
    <2>3. CASE \/ Tick \/ \E p \in Runtimes, changed, whole \in BOOLEAN : PublishVersion(p, changed, whole)
               \/ Trip \/ \E o \in Epochs : Clear(o)
               \/ \E p \in Runtimes : Kill(p) \/ Dispatch(p)
               \/ \E o \in Epochs, document \in Rosters : ApplyPrincipals(o, document)
               \/ \E p \in Runtimes, d \in Decisions : Reject(p, d)
      BY <2>1, <2>3, ControlSteps
    <2>4. ASSUME NEW p \in Runtimes, NEW d \in Decisions, Conclude(p, d) PROVE IInv' /\ Published
      BY <2>1, <2>4, ConcludeStep
    <2>5. ASSUME NEW p \in Runtimes, BatchFails(p) \/ \E i \in Intents : PickIntent(p, i) PROVE IInv' /\ Published
      BY <2>1, <2>5, BatchSteps
    <2>6. ASSUME NEW p \in Runtimes, EvaluateIntent(p) PROVE IInv' /\ Published
      BY <2>1, <2>6, EvaluateStep
    <2>7. ASSUME NEW p \in Runtimes, NEW i \in Intents, NEW a \in Principals, NEW r \in Principals, NEW k \in Keys,
                 NEW yes \in BOOLEAN, ReceiveAnswer(p, i, a, r, k, yes)
          PROVE  IInv' /\ Published
      BY <2>1, <2>7, ReceiveStep
    <2>8. ASSUME NEW p \in Runtimes, ResolveApproval(p) PROVE IInv' /\ Published
      BY <2>1, <2>8, ResolveStep
    <2>9. ASSUME NEW p \in Runtimes, AnswerFails(p) PROVE IInv' /\ Published
      BY <2>1, <2>9, AnswerDropped, Zenon DEF AnswerFails
    <2>10. ASSUME NEW p \in Runtimes, WithdrawSuperseded(p) PROVE IInv' /\ Published
      BY <2>1, <2>10, WithdrawStep
    <2> QED
      BY <2>1, <2>2, <2>3, <2>4, <2>5, <2>6, <2>7, <2>8, <2>9, <2>10, Zenon DEF Step
  <1> QED
    BY <1>1, <1>2

\* The inductive invariant holds of every reachable state of governance.
THEOREM GovernanceInvariance ==
  ASSUME GovernanceAssumption
  PROVE  Spec => []IInv
  <1>1. Init => IInv
    BY InitInvariant
  <1>2. IInv /\ [Next]_<<vars, deployment>> => IInv'
    BY StepInvariant
  <1> QED
    BY <1>1, <1>2, PTL DEF Spec

\* A request is asked once for an intent, an intent is approved exactly when it
\* has its command, and one that waits for a human has a request somebody can
\* answer, unless it was withdrawn for a newer Situation version and announced
\* as withdrawn (OneQuestionOneAnswer).
THEOREM AskedOnceAnsweredOnce ==
  ASSUME GovernanceAssumption
  PROVE  Spec => []OneQuestionOneAnswer
  <1>1. IInv => OneQuestionOneAnswer
    BY DEF IInv
  <1> QED
    BY <1>1, GovernanceInvariance, PTL

\* A step that publishes a command does so under the authority the catalog asks for.
LEMMA PublishedStep ==
  ASSUME IInv, Published, NEW i \in commands' \ commands
  PROVE  LET declared == Catalog[rows[i].intent.type] IN
         /\ rows[i].epoch \notin killed
         /\ interlock = "ready"
         /\ material <= rows[i].version
         /\ RouteFor(declared.risk, declared.approval) # "denied"
         /\ RouteFor(declared.risk, declared.approval) = "approval" => ApprovedOf(approvals'[i]) # {}
  <1>1. RowOK(rows[i]) /\ Authority(i, approvals'[i])
    BY DEF Published
  <1>2. interlock \in {"ready", "tripped"} /\ material \in Nat
    BY DEF IInv, ControlTypeOK
  <1>3. /\ rows[i].version \in Nat /\ rows[i].intent.risk = Catalog[rows[i].intent.type].risk
        /\ rows[i].intent.approval = Catalog[rows[i].intent.type].approval
    BY <1>1 DEF RowOK
  <1>4. /\ rows[i].epoch \notin killed /\ interlock # "tripped" /\ ~MateriallySuperseded(i)
        /\ RouteFor(rows[i].intent.risk, rows[i].intent.approval) \in {"automatic", "approval"}
        /\ RouteFor(rows[i].intent.risk, rows[i].intent.approval) = "approval" => ApprovedOf(approvals'[i]) # {}
    BY <1>1, Zenon DEF Authority
  <1>5. interlock = "ready" /\ material <= rows[i].version
    BY <1>2, <1>3, <1>4 DEF MateriallySuperseded
  <1> QED
    BY <1>3, <1>4, <1>5

\* A command is published only under a live authority: its epoch is not
\* killed, the interlock is ready, the Situation has not materially moved on,
\* and what the catalog declares as needing a human has a human approval
\* (PublishedUnderAuthority).
THEOREM CommandsHaveAuthority ==
  ASSUME GovernanceAssumption
  PROVE  Spec => PublishedUnderAuthority
  <1>1. IInv /\ [Next]_<<vars, deployment>> =>
          [\A i \in commands' \ commands :
             LET declared == Catalog[rows[i].intent.type] IN
             /\ rows[i].epoch \notin killed
             /\ interlock = "ready"
             /\ material <= rows[i].version
             /\ RouteFor(declared.risk, declared.approval) # "denied"
             /\ RouteFor(declared.risk, declared.approval) = "approval" => ApprovedOf(approvals'[i]) # {}]_vars
    BY StepInvariant, PublishedStep
  <1> QED
    BY <1>1, GovernanceInvariance, PTL DEF Spec, PublishedUnderAuthority
=============================================================================
