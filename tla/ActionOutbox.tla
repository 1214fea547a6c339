---------------------------- MODULE ActionOutbox ----------------------------
(***************************************************************************)
(* The action plane after policy: approved commands in the outbox, the      *)
(* dispatchers that lease them, prove their authority again, call the       *)
(* effector outside every transaction and record what they know, the        *)
(* reconciliation of unknown outcomes, and the interlock.                   *)
(*                                                                          *)
(* A dispatcher keeps what it read in work, so a lease may expire, the      *)
(* interlock trip, the process die or the owner change before its next      *)
(* transaction.  Lease times are abstracted: a lease is live until the step *)
(* LeaseExpires, which may come at any moment.                              *)
(***************************************************************************)
EXTENDS OwnerFence, Naturals, Sequences, FiniteSets

CONSTANTS
    Runtimes,       \* epochs of runtime processes; the others are operator commands
    Dispatchers,    \* goroutines that call DispatchOnce
    DispatcherOf,   \* the process a dispatcher belongs to
    Commands,       \* command ids, each with one outbox row
    Invalid,        \* commands whose stored document fails VerifiedDocument
    NoCommand,      \* a dispatcher holds no command
    MaxOutcomes     \* bound on the outcome rows of a command

ASSUME RuntimesAssumption == Runtimes \subseteq Epochs
ASSUME DispatchersAssumption == DispatcherOf \in [Dispatchers -> Runtimes]
ASSUME CommandsAssumption == NoCommand \notin Commands /\ Invalid \subseteq Commands
ASSUME OutcomesAssumption == MaxOutcomes \in Nat \ {0}

VARIABLES
    proc,       \* a process is new, up or down
    interlock,  \* runtime_interlock.status
    queue,      \* command outbox rows in the order of outbox_id
    cmd,        \* commands.status
    box,        \* outbox.status
    lease,      \* outbox.attempt_count, which stands for the fresh lease_owner of each lease
    live,       \* leased rows whose lease_until lies ahead
    lapsed,     \* commands whose approval, intent, decision or Situation is no longer current
    outcomes,   \* outcomes.status rows of a command by ordinal
    ver,        \* verifications.status
    work,       \* what a dispatcher holds between transactions
    calls,      \* how often the effector was called for a command
    applied     \* commands whose effect happened in the outside world

outboxVars == <<queue, cmd, box, lease, live, outcomes, ver>>
worldVars == <<calls, applied>>
vars == <<owner, valid, retired, proc, interlock, lapsed, outboxVars, work, worldVars>>

\* The statuses that await reconciliation; the code also lists outcome_unknown,
\* which no statement writes.
Unresolved == {"reconciling", "manual_review"}
FinalStatuses == {"succeeded", "failed", "manual_review"}
CommandStatuses == {"absent", "pending", "dispatching", "succeeded", "failed"} \cup Unresolved
Results == {"ok", "pending", "error", "unknown"}
Steps == {"idle", "leased", "authorized", "checked", "answered", "reconcile", "stopped"}

Idle == [cmd |-> NoCommand, lease |-> 0, step |-> "idle", res |-> "error", fin |-> ""]
Stopped == [Idle EXCEPT !.step = "stopped"]
Jobs == [cmd : Commands \cup {NoCommand}, lease : Nat, step : Steps,
         res : Results, fin : FinalStatuses \cup {""}]

\* Every variable holds a value its columns and Go types admit.
TypeOK ==
    /\ OwnerTypeOK
    /\ proc \in [Runtimes -> {"new", "up", "down"}]
    /\ interlock \in {"ready", "tripped"}
    /\ queue \in Seq(Commands)
    /\ cmd \in [Commands -> CommandStatuses]
    /\ box \in [Commands -> {"absent", "pending", "leased", "delivered", "failed"}]
    /\ lease \in [Commands -> Nat]
    /\ live \subseteq Commands
    /\ lapsed \subseteq Commands
    /\ outcomes \in [Commands -> Seq({"succeeded", "failed", "unknown", "reconcile_required", "reconciled"})]
    /\ ver \in [Commands -> {"none", "observed", "awaiting", "refuted", "reconciled", "inconclusive"}]
    /\ work \in [Dispatchers -> Jobs]
    /\ calls \in [Commands -> Nat]
    /\ applied \subseteq Commands

Init ==
    /\ OwnerInit
    /\ proc = [p \in Runtimes |-> "new"]
    /\ interlock = "ready"
    /\ queue = <<>>
    /\ cmd = [c \in Commands |-> "absent"]
    /\ box = [c \in Commands |-> "absent"]
    /\ lease = [c \in Commands |-> 0]
    /\ live = {}
    /\ lapsed = {}
    /\ outcomes = [c \in Commands |-> <<>>]
    /\ ver = [c \in Commands |-> "none"]
    /\ work = [d \in Dispatchers |-> Idle]
    /\ calls = [c \in Commands |-> 0]
    /\ applied = {}
----------------------------------------------------------------------------
(* Processes, the owner lease, the interlock and what policy does. *)

\* A runtime process claims the owner lease and serves.
Start(p) ==
    /\ proc[p] = "new"
    /\ Take(p)
    /\ proc' = [proc EXCEPT ![p] = "up"]
    /\ UNCHANGED <<interlock, lapsed, outboxVars, work, worldVars>>

\* The heartbeat prolongs the lease of the process that still owns it.
Renew(p) ==
    /\ proc[p] = "up"
    /\ owner = p
    /\ Take(p)
    /\ UNCHANGED <<proc, interlock, lapsed, outboxVars, work, worldVars>>

\* An operator command claims the lease for one change.
OperatorClaim(o) ==
    /\ o \notin Runtimes
    /\ Take(o)
    /\ UNCHANGED <<proc, interlock, lapsed, outboxVars, work, worldVars>>

\* The owner lease expires or is released.
LeaseEnds ==
    /\ Lapse
    /\ UNCHANGED <<proc, interlock, lapsed, outboxVars, work, worldVars>>

\* A process dies; its dispatchers and their provider calls die with it.
Crash(p) ==
    /\ proc[p] = "up"
    /\ proc' = [proc EXCEPT ![p] = "down"]
    /\ work' = [d \in Dispatchers |-> IF DispatcherOf[d] = p THEN Stopped ELSE work[d]]
    /\ UNCHANGED <<owner, valid, retired, interlock, lapsed, outboxVars, worldVars>>

\* Trip needs no owner lease, so an operator can stop a running system.
Trip ==
    /\ interlock = "ready"
    /\ interlock' = "tripped"
    /\ UNCHANGED <<owner, valid, retired, proc, lapsed, outboxVars, work, worldVars>>

\* Clear is fenced: the operator command must hold the owner lease.
Clear(o) ==
    /\ o \notin Runtimes
    /\ Holds(o)
    /\ interlock = "tripped"
    /\ interlock' = "ready"
    /\ UNCHANGED <<owner, valid, retired, proc, lapsed, outboxVars, work, worldVars>>

\* Policy publishes an approved command and its outbox row in one transaction.
Publish(p, c) ==
    /\ proc[p] = "up"
    /\ Holds(p)
    /\ interlock = "ready"
    /\ cmd[c] = "absent"
    /\ cmd' = [cmd EXCEPT ![c] = "pending"]
    /\ box' = [box EXCEPT ![c] = "pending"]
    /\ queue' = Append(queue, c)
    /\ UNCHANGED <<owner, valid, retired, proc, interlock, lapsed, lease, live, outcomes, ver,
                   work, worldVars>>

\* The intent expires, its approval ends or a newer Situation version appears.
AuthorityLapses(c) ==
    /\ cmd[c] \in {"pending", "dispatching"}
    /\ c \notin lapsed
    /\ lapsed' = lapsed \cup {c}
    /\ UNCHANGED <<owner, valid, retired, proc, interlock, outboxVars, work, worldVars>>

\* Time passes lease_until.
LeaseExpires(c) ==
    /\ c \in live
    /\ live' = live \ {c}
    /\ UNCHANGED <<owner, valid, retired, proc, interlock, lapsed, queue, cmd, box, lease,
                   outcomes, ver, work, worldVars>>
----------------------------------------------------------------------------
(* Leasing: the transaction of leaseNext. *)

Up(d) == proc[DispatcherOf[d]] = "up"
HoldsOwner(d) == Holds(DispatcherOf[d])

\* Fault: a row left leased by a dead process is not a candidate.
AvailablePendingOnly(c) == box[c] = "pending"

Available(c) == box[c] = "pending" \/ (box[c] = "leased" /\ c \notin live)

\* NextCandidate: the oldest outbox row that is pending or whose lease expired.
IsNextCandidate(c) ==
    \E i \in DOMAIN queue :
        /\ queue[i] = c
        /\ Available(c)
        /\ \A j \in 1 .. i - 1 : ~Available(queue[j])

MayLease(d, c) ==
    /\ Up(d)
    /\ work[d] = Idle
    /\ HoldsOwner(d)
    /\ IsNextCandidate(c)

\* A valid document in a pending row: take a fresh lease, mark it dispatching.
AcquireLease(d, c) ==
    /\ MayLease(d, c)
    /\ box[c] = "pending"
    /\ c \notin Invalid
    /\ box' = [box EXCEPT ![c] = "leased"]
    /\ lease' = [lease EXCEPT ![c] = @ + 1]
    /\ live' = live \cup {c}
    /\ cmd' = [cmd EXCEPT ![c] = IF @ \in {"pending", "failed", "dispatching"} THEN "dispatching" ELSE @]
    /\ work' = [work EXCEPT ![d] = [Idle EXCEPT !.cmd = c, !.lease = lease'[c], !.step = "leased"]]
    /\ UNCHANGED <<owner, valid, retired, proc, interlock, lapsed, queue, outcomes, ver, worldVars>>

\* A document that disagrees with its ledger row fails the command unsent.
FailInvalidCommand(d, c) ==
    /\ MayLease(d, c)
    /\ box[c] = "pending"
    /\ c \in Invalid
    /\ cmd' = [cmd EXCEPT ![c] = "failed"]
    /\ box' = [box EXCEPT ![c] = "failed"]
    /\ UNCHANGED <<owner, valid, retired, proc, interlock, lapsed, queue, lease, live, outcomes,
                   ver, work, worldVars>>

\* ClassifyDispatch: the ledger states of a dispatch result.
ClassifyDispatch(res) ==
    CASE res = "ok"      -> [out |-> "succeeded", cmd |-> "succeeded", box |-> "delivered", ver |-> "observed"]
      [] res = "error"   -> [out |-> "failed", cmd |-> "failed", box |-> "failed", ver |-> "refuted"]
      [] res = "unknown" -> [out |-> "unknown", cmd |-> "reconciling", box |-> "failed", ver |-> "awaiting"]
      [] res = "pending" -> [out |-> "reconcile_required", cmd |-> "manual_review", box |-> "delivered",
                             ver |-> "awaiting"]

\* recordFinalDispatch: outcome, command, outbox and verification together.
RecordFinalDispatch(c, res) ==
    LET result == ClassifyDispatch(res) IN
    /\ outcomes' = [outcomes EXCEPT ![c] = Append(@, result.out)]
    /\ cmd' = [cmd EXCEPT ![c] = IF @ = "dispatching" THEN result.cmd ELSE @]
    /\ box' = [box EXCEPT ![c] = result.box]
    /\ live' = live \ {c}
    /\ ver' = [ver EXCEPT ![c] = result.ver]
    /\ UNCHANGED <<queue, lease>>

\* Faults: an expired lease is taken again, or counts as not sent.
ReacquireExpiredLease(d, c) ==
    /\ MayLease(d, c)
    /\ box[c] = "leased"
    /\ lease' = [lease EXCEPT ![c] = @ + 1]
    /\ live' = live \cup {c}
    /\ work' = [work EXCEPT ![d] = [Idle EXCEPT !.cmd = c, !.lease = lease'[c], !.step = "leased"]]
    /\ UNCHANGED <<owner, valid, retired, proc, interlock, lapsed, queue, cmd, box, outcomes, ver, worldVars>>
ExpiryMeansNotSent(d, c) ==
    /\ MayLease(d, c)
    /\ box[c] = "leased"
    /\ RecordFinalDispatch(c, "error")
    /\ UNCHANGED <<owner, valid, retired, proc, interlock, lapsed, work, worldVars>>

\* A lease that expired in flight becomes an unknown outcome, unsent.
AbandonExpiredLease(d, c) ==
    /\ MayLease(d, c)
    /\ box[c] = "leased"
    /\ RecordFinalDispatch(c, "unknown")
    /\ UNCHANGED <<owner, valid, retired, proc, interlock, lapsed, work, worldVars>>

LeaseNext(d) ==
    \E c \in Commands : AcquireLease(d, c) \/ FailInvalidCommand(d, c) \/ AbandonExpiredLease(d, c)
----------------------------------------------------------------------------
(* Authorization and the effector call. *)

HoldsLease(d) == box[work[d].cmd] = "leased" /\ lease[work[d].cmd] = work[d].lease

\* Everything revalidateIn proves again in one transaction.
Authorized(d) ==
    /\ HoldsOwner(d)
    /\ HoldsLease(d)
    /\ work[d].cmd \in live
    /\ cmd[work[d].cmd] = "dispatching"
    /\ interlock = "ready"
    /\ work[d].cmd \notin lapsed

Answered(d, res, fin) ==
    work' = [work EXCEPT ![d].step = "answered", ![d].res = res, ![d].fin = fin]

\* revalidateAuthorization; a refusal is finalized as a failure, unsent.
Revalidate(d) ==
    /\ Up(d)
    /\ work[d].step = "leased"
    /\ IF Authorized(d) THEN work' = [work EXCEPT ![d].step = "authorized"] ELSE Answered(d, "error", "")
    /\ UNCHANGED <<owner, valid, retired, proc, interlock, lapsed, outboxVars, worldVars>>

\* The effector runs the final authorization check, which reads the interlock.
CheckInterlock(d) ==
    /\ Up(d)
    /\ work[d].step = "authorized"
    /\ IF interlock = "ready" THEN work' = [work EXCEPT ![d].step = "checked"] ELSE Answered(d, "error", "")
    /\ UNCHANGED <<owner, valid, retired, proc, interlock, lapsed, outboxVars, worldVars>>

\* What an effector and its verifier can report when the effect happened (done)
\* or did not.  An effector returns a plain error only when nothing was applied
\* (failedDeviceEffect).  A verifier that reads the device reports what it shows
\* (verifyObservedOutput, verifiedBy), nothing, an error, or manual_review for
\* an unknown result of a device without readback (unreadBy).
ProviderAnswers(done) ==
    IF done
    THEN {<<"ok", "none">>, <<"pending", "none">>, <<"pending", "succeeded">>, <<"pending", "error">>,
          <<"unknown", "none">>, <<"unknown", "succeeded">>, <<"unknown", "manual_review">>,
          <<"unknown", "error">>}
    ELSE {<<"error", "none">>, <<"pending", "none">>, <<"pending", "failed">>, <<"pending", "error">>,
          <<"unknown", "none">>, <<"unknown", "failed">>, <<"unknown", "manual_review">>,
          <<"unknown", "error">>}

\* ClassifyDeviceVerification folds the verdict into an accepted dispatch.
ClassifyDeviceVerification(res, verdict) ==
    IF res \in {"error", "unknown"} \/ verdict = "none" THEN res
    ELSE IF verdict = "error" THEN "unknown"
    ELSE IF verdict = "failed" THEN "error" ELSE "ok"

\* A verdict reconciles an outcome the transport itself left unknown.
ReconcilesUnknown(res, verdict) ==
    IF res = "unknown" /\ verdict \in FinalStatuses THEN verdict ELSE ""

\* The provider call and the device read, outside every transaction.
CallEffector(d) ==
    /\ Up(d)
    /\ work[d].step = "checked"
    /\ \E done \in BOOLEAN : \E answer \in ProviderAnswers(done) :
          /\ applied' = IF done THEN applied \cup {work[d].cmd} ELSE applied
          /\ Answered(d, ClassifyDeviceVerification(answer[1], answer[2]),
                      ReconcilesUnknown(answer[1], answer[2]))
    /\ calls' = [calls EXCEPT ![work[d].cmd] = @ + 1]
    /\ UNCHANGED <<owner, valid, retired, proc, interlock, lapsed, outboxVars>>
----------------------------------------------------------------------------
(* Recording the result. *)

AfterFinalize(d) ==
    IF work[d].fin = "" THEN Idle ELSE [work[d] EXCEPT !.step = "reconcile"]

\* Fault: a late result is recorded although the lease was closed.
FinalizeLate(d) ==
    /\ Up(d)
    /\ work[d].step = "answered"
    /\ HoldsOwner(d)
    /\ RecordFinalDispatch(work[d].cmd, work[d].res)
    /\ work' = [work EXCEPT ![d] = AfterFinalize(d)]
    /\ UNCHANGED <<owner, valid, retired, proc, interlock, lapsed, worldVars>>

\* finalizeIn while the lease is held: a live one keeps the provider's result,
\* an expired one replaces it by unknown.
Finalize(d) ==
    /\ Up(d)
    /\ work[d].step = "answered"
    /\ HoldsOwner(d)
    /\ HoldsLease(d)
    /\ RecordFinalDispatch(work[d].cmd, IF work[d].cmd \in live THEN work[d].res ELSE "unknown")
    /\ work' = [work EXCEPT ![d] = AfterFinalize(d)]
    /\ UNCHANGED <<owner, valid, retired, proc, interlock, lapsed, worldVars>>

\* finalizeIn after another worker closed the lease: the result is dropped.
DropLateResult(d) ==
    /\ Up(d)
    /\ work[d].step = "answered"
    /\ HoldsOwner(d)
    /\ ~HoldsLease(d)
    /\ work' = [work EXCEPT ![d] = AfterFinalize(d)]
    /\ UNCHANGED <<owner, valid, retired, proc, interlock, lapsed, outboxVars, worldVars>>

\* ReconciledVerificationStatus.
ReconciledVerification(fin) ==
    CASE fin = "succeeded" -> "reconciled" [] fin = "failed" -> "refuted" [] OTHER -> "inconclusive"

\* Fault: a settled command is reconciled again.
ReconcileSettled(c, fin) ==
    /\ cmd[c] \in Unresolved \cup {"succeeded", "failed"}
    /\ Len(outcomes[c]) < MaxOutcomes
    /\ outcomes' = [outcomes EXCEPT ![c] = Append(@, "reconciled")]
    /\ cmd' = [cmd EXCEPT ![c] = fin]
    /\ ver' = [ver EXCEPT ![c] = ReconciledVerification(fin)]
    /\ UNCHANGED <<queue, box, lease, live>>

\* reconcileIn: only a command that awaits reconciliation is closed.
Reconcile(c, fin) ==
    /\ cmd[c] \in Unresolved
    /\ Len(outcomes[c]) < MaxOutcomes
    /\ outcomes' = [outcomes EXCEPT ![c] = Append(@, "reconciled")]
    /\ cmd' = [cmd EXCEPT ![c] = fin]
    /\ ver' = [ver EXCEPT ![c] = ReconciledVerification(fin)]
    /\ UNCHANGED <<queue, box, lease, live>>

\* The dispatcher's second transaction closes what its verifier settled.
ReconcileUnknown(d) ==
    /\ Up(d)
    /\ work[d].step = "reconcile"
    /\ HoldsOwner(d)
    /\ Reconcile(work[d].cmd, work[d].fin)
    /\ work' = [work EXCEPT ![d] = Idle]
    /\ UNCHANGED <<owner, valid, retired, proc, interlock, lapsed, worldVars>>

\* An operator command resolves a command from evidence.
Resolve(o, c, fin) ==
    /\ o \notin Runtimes
    /\ Holds(o)
    /\ Reconcile(c, fin)
    /\ UNCHANGED <<owner, valid, retired, proc, interlock, lapsed, work, worldVars>>

\* A transaction returns an error, so DispatchOnce does, and its loop ends: the
\* owner lease is lost, or the evidence is not bound to the command's device.
StopOnError(d) ==
    /\ Up(d)
    /\ work[d].step = "reconcile" \/ (work[d].step \in {"idle", "answered"} /\ ~HoldsOwner(d))
    /\ work' = [work EXCEPT ![d] = Stopped]
    /\ UNCHANGED <<owner, valid, retired, proc, interlock, lapsed, outboxVars, worldVars>>
----------------------------------------------------------------------------
DispatchStep(d) ==
    \/ LeaseNext(d) \/ Revalidate(d) \/ CheckInterlock(d) \/ CallEffector(d)
    \/ Finalize(d) \/ DropLateResult(d) \/ ReconcileUnknown(d) \/ StopOnError(d)

Next ==
    \/ \E p \in Runtimes : Start(p) \/ Renew(p) \/ Crash(p) \/ \E c \in Commands : Publish(p, c)
    \/ \E o \in Epochs : OperatorClaim(o) \/ Clear(o)
    \/ \E o \in Epochs, c \in Commands, fin \in FinalStatuses : Resolve(o, c, fin)
    \/ \E c \in Commands : AuthorityLapses(c) \/ LeaseExpires(c)
    \/ \E d \in Dispatchers : DispatchStep(d)
    \/ LeaseEnds
    \/ Trip

Spec == Init /\ [][Next]_vars

\* Time passes, the maintenance ticker calls DispatchOnce on every round, and a
\* provider call returns at its deadline at the latest.
Fairness ==
    /\ \A c \in Commands : WF_vars(LeaseExpires(c))
    /\ \A d \in Dispatchers : WF_vars(DispatchStep(d))
----------------------------------------------------------------------------
(* Properties. *)

\* The effector is called at most once for a command, whatever expires, dies or
\* changes owner in between: an expired lease is never taken again but becomes
\* an unknown outcome ("it is never retried blindly").
EffectAtMostOnce == \A c \in Commands : calls[c] <= 1

\* The four ledgers of a command tell one story, whichever of the dispatcher,
\* the next lease holder and the operator closed it (CloseDispatch,
\* CloseReconciliation, FailInvalidCommand).
LedgersAgree ==
    \A c \in Commands :
        /\ box[c] = "pending" <=> cmd[c] = "pending"
        /\ box[c] = "leased" <=> cmd[c] = "dispatching"
        /\ c \in live => box[c] = "leased"
        /\ outcomes[c] = <<>> <=> ver[c] = "none"
        /\ outcomes[c] # <<>> =>
              /\ box[c] \in {"delivered", "failed"}
              /\ cmd[c] = "succeeded" <=> ver[c] \in {"observed", "reconciled"}
              /\ cmd[c] = "failed" <=> ver[c] = "refuted"
              /\ cmd[c] \in Unresolved <=> ver[c] \in {"awaiting", "inconclusive"}

\* What a dispatch settles without evidence is what happened: a command is only
\* succeeded when its effect was applied and only failed when it was not.  Where
\* the runtime cannot know, because a lease or a process died in flight, the
\* command is left unresolved (ClassifyDispatch, ExpiredLeaseResult).
SettledTruthfully ==
    \A c \in Commands : "reconciled" \notin {outcomes[c][i] : i \in DOMAIN outcomes[c]} =>
        /\ cmd[c] = "succeeded" => c \in applied
        /\ cmd[c] = "failed" => c \notin applied

\* A settled command keeps its status and a closed outbox row never opens again;
\* an unresolved command only moves by a reconciliation outcome.
SettledIsFinal ==
    [][\A c \in Commands :
         /\ cmd[c] \in {"succeeded", "failed"} => cmd'[c] = cmd[c] /\ outcomes'[c] = outcomes[c]
         /\ box[c] \in {"delivered", "failed"} => box'[c] = box[c]
         /\ cmd[c] \in Unresolved /\ cmd'[c] # cmd[c] => outcomes'[c] = Append(outcomes[c], "reconciled")]_vars

\* A dispatcher of the lease owner that has not stopped.
Serving(d) == Up(d) /\ HoldsOwner(d) /\ work[d].step # "stopped"

\* While one dispatcher keeps serving, again and again no command is left in
\* the outbox, so every one leaves it (a closed row stays closed): the one a
\* dead process left in flight is abandoned once its lease expires, and no row
\* waits for ever behind it (nextCandidateSQL, Admit).
RowsClose ==
    (\E d \in Dispatchers : <>[]Serving(d)) => []<>(\A c \in Commands : box[c] \notin {"pending", "leased"})

-----------------------------------------------------------------------------
(* Instance for TLC: dispatchers d1 and d2 run in process r1, d3 in the     *)
(* process r2 that may take over from it.                                   *)
MCDispatcherOf == [d \in Dispatchers |-> IF d = "d3" THEN "r2" ELSE "r1"]
=============================================================================
