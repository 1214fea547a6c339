------------------------- MODULE ActionOutboxProofs -------------------------
(***************************************************************************)
(* Proofs about the action outbox, for any processes, dispatchers and       *)
(* commands: no command's effect is called twice, the ledgers of a command  *)
(* agree, a dispatch settles a command truthfully, and what is settled      *)
(* stays settled.                                                           *)
(*                                                                          *)
(* None of the properties is inductive: each depends on what a dispatcher   *)
(* holds in memory between its transactions.  Safe adds that a command has  *)
(* at most one dispatcher at work on it, that one which has not called the  *)
(* effector yet works on a command nobody called it for, and that the       *)
(* answer a dispatcher carries is what happened.                            *)
(***************************************************************************)
EXTENDS ActionOutbox, TLAPS

\* A dispatcher is at work on a command, and has not called the effector.
Holding(d) == work[d].step \notin {"idle", "stopped"}
Unsent(d) == work[d].step \in {"leased", "authorized", "checked"}

Reconciled(c) == "reconciled" \in {outcomes[c][i] : i \in DOMAIN outcomes[c]}

JobsHeld ==
    \A d \in Dispatchers : Holding(d) =>
        /\ work[d].cmd \in Commands
        /\ box[work[d].cmd] \in {"leased", "delivered", "failed"}
        /\ work[d].step = "reconcile" => work[d].fin # ""

OneHolder ==
    \A d, f \in Dispatchers : Holding(d) /\ Holding(f) /\ work[d].cmd = work[f].cmd => d = f

UnsentUncalled ==
    \A d \in Dispatchers : Unsent(d) =>
        /\ calls[work[d].cmd] = 0
        /\ work[d].cmd \notin applied
        /\ Reconciled(work[d].cmd) \/ cmd[work[d].cmd] \notin {"succeeded", "failed"}

AnswersTrue ==
    \A d \in Dispatchers : work[d].step = "answered" =>
        /\ work[d].res = "ok" => work[d].cmd \in applied
        /\ work[d].res = "error" => work[d].cmd \notin applied

RowsUnsent ==
    \A c \in Commands :
        /\ box[c] = "absent" <=> cmd[c] = "absent"
        /\ box[c] \in {"absent", "pending"} => calls[c] = 0 /\ c \notin applied

Truthful ==
    \A c \in Commands : ~Reconciled(c) =>
        /\ cmd[c] = "succeeded" => c \in applied
        /\ cmd[c] = "failed" => c \notin applied

Safe == /\ JobsHeld /\ OneHolder /\ UnsentUncalled /\ AnswersTrue /\ RowsUnsent
        /\ EffectAtMostOnce /\ LedgersAgree /\ Truthful

IInv == TypeOK /\ Safe
-----------------------------------------------------------------------------
(* Outcome rows. *)

\* A recorded outcome is one more row, and the rows before it stay.
LEMMA AppendRow ==
  ASSUME NEW S, NEW s \in Seq(S), NEW x \in S
  PROVE  /\ Append(s, x) \in Seq(S)
         /\ Append(s, x) # <<>>
         /\ {Append(s, x)[i] : i \in DOMAIN Append(s, x)} = {s[i] : i \in DOMAIN s} \cup {x}
  <1>1. /\ Append(s, x) \in Seq(S) /\ Len(Append(s, x)) = Len(s) + 1
        /\ DOMAIN Append(s, x) = 1 .. Len(s) + 1 /\ DOMAIN s = 1 .. Len(s) /\ Len(s) \in Nat
    OBVIOUS
  <1>2. \A i \in 1 .. Len(s) : Append(s, x)[i] = s[i]
    OBVIOUS
  <1>3. Append(s, x)[Len(s) + 1] = x
    OBVIOUS
  <1>4. ASSUME NEW y PROVE y \in {Append(s, x)[i] : i \in DOMAIN Append(s, x)}
                             <=> y \in {s[i] : i \in DOMAIN s} \cup {x}
    <2>1. ASSUME NEW i \in 1 .. Len(s) + 1, y = Append(s, x)[i] PROVE y \in {s[j] : j \in DOMAIN s} \cup {x}
      <3>1. CASE i = Len(s) + 1
        BY <2>1, <3>1, <1>3
      <3>2. CASE i \in 1 .. Len(s)
        BY <2>1, <3>2, <1>1, <1>2
      <3> QED
        BY <1>1, <3>1, <3>2
    <2>2. ASSUME NEW i \in 1 .. Len(s) PROVE s[i] \in {Append(s, x)[j] : j \in DOMAIN Append(s, x)}
      <3>1. i \in DOMAIN Append(s, x) /\ s[i] = Append(s, x)[i]
        BY <1>1, <1>2
      <3> QED
        BY <3>1
    <2>3. x \in {Append(s, x)[j] : j \in DOMAIN Append(s, x)}
      <3>1. Len(s) + 1 \in DOMAIN Append(s, x)
        BY <1>1
      <3> QED
        BY <3>1, <1>3
    <2> QED
      BY <2>1, <2>2, <2>3, <1>1
  <1>5. Append(s, x) # <<>>
    BY <1>1
  <1> QED
    BY <1>1, <1>4, <1>5, Zenon

Outs == {"succeeded", "failed", "unknown", "reconcile_required", "reconciled"}
-----------------------------------------------------------------------------
(* Types. *)

\* Every step is one of these; a quiet one leaves the rows, the dispatchers and
\* the outside world alone.
Quiet == UNCHANGED <<outboxVars, work, worldVars>>

LEMMA StepCases ==
  ASSUME [Next]_vars
  PROVE  \/ Quiet
         \/ \E p \in Runtimes : Crash(p) \/ \E c \in Commands : Publish(p, c)
         \/ \E o \in Epochs, c \in Commands, fin \in FinalStatuses : Resolve(o, c, fin)
         \/ \E c \in Commands : LeaseExpires(c)
         \/ \E d \in Dispatchers, c \in Commands :
               AcquireLease(d, c) \/ FailInvalidCommand(d, c) \/ AbandonExpiredLease(d, c)
         \/ \E d \in Dispatchers :
               \/ Revalidate(d) \/ CheckInterlock(d) \/ CallEffector(d) \/ Finalize(d)
               \/ DropLateResult(d) \/ ReconcileUnknown(d) \/ StopOnError(d)
  BY Zenon DEF Next, vars, Quiet, Start, Renew, OperatorClaim, Clear, AuthorityLapses, LeaseEnds, Trip,
               DispatchStep, LeaseNext

OwnTypeOK ==
    /\ OwnerTypeOK
    /\ proc \in [Runtimes -> {"new", "up", "down"}]
    /\ interlock \in {"ready", "tripped"}
    /\ lapsed \subseteq Commands

RowTypeOK ==
    /\ queue \in Seq(Commands)
    /\ cmd \in [Commands -> CommandStatuses]
    /\ box \in [Commands -> {"absent", "pending", "leased", "delivered", "failed"}]
    /\ lease \in [Commands -> Nat]
    /\ live \subseteq Commands
    /\ outcomes \in [Commands -> Seq(Outs)]
    /\ ver \in [Commands -> {"none", "observed", "awaiting", "refuted", "reconciled", "inconclusive"}]

JobTypeOK ==
    /\ work \in [Dispatchers -> Jobs]
    /\ calls \in [Commands -> Nat]
    /\ applied \subseteq Commands

LEMMA TypeParts == TypeOK <=> OwnTypeOK /\ RowTypeOK /\ JobTypeOK
  BY Zenon DEF TypeOK, OwnTypeOK, RowTypeOK, JobTypeOK, Outs

LEMMA TypePartsNext == OwnTypeOK' /\ RowTypeOK' /\ JobTypeOK' => TypeOK'
  BY TypeParts, PTL

LEMMA OwnTypeStep == OwnTypeOK /\ [Next]_vars => OwnTypeOK'
  <1> SUFFICES ASSUME OwnTypeOK, [Next]_vars PROVE OwnTypeOK'
    OBVIOUS
  <1> USE NoEpochAssumption, RuntimesAssumption DEF OwnTypeOK, OwnerTypeOK
  <1>1. ASSUME NEW p \in Runtimes, Start(p) \/ Renew(p) \/ Crash(p) PROVE OwnTypeOK'
    BY <1>1, Zenon DEF Start, Renew, Crash, Take
  <1>2. ASSUME NEW o \in Epochs, OperatorClaim(o) \/ Clear(o) PROVE OwnTypeOK'
    BY <1>2, Zenon DEF OperatorClaim, Clear, Take
  <1>3. ASSUME NEW c \in Commands, AuthorityLapses(c) PROVE OwnTypeOK'
    BY <1>3 DEF AuthorityLapses
  <1>4. CASE LeaseEnds \/ Trip
    BY <1>4, Zenon DEF LeaseEnds, Trip, Lapse
  <1>5. CASE UNCHANGED <<owner, valid, retired, proc, interlock, lapsed>>
    BY <1>5
  <1>6. \/ \E p \in Runtimes : Start(p) \/ Renew(p) \/ Crash(p)
        \/ \E o \in Epochs : OperatorClaim(o) \/ Clear(o)
        \/ \E c \in Commands : AuthorityLapses(c)
        \/ LeaseEnds \/ Trip
        \/ UNCHANGED <<owner, valid, retired, proc, interlock, lapsed>>
    <2>1. ASSUME NEW d \in Dispatchers, DispatchStep(d)
          PROVE  UNCHANGED <<owner, valid, retired, proc, interlock, lapsed>>
      BY Zenon, <2>1 DEF DispatchStep, LeaseNext, AcquireLease, FailInvalidCommand, AbandonExpiredLease,
           Revalidate, CheckInterlock, CallEffector, Finalize, DropLateResult, ReconcileUnknown, StopOnError
    <2>2. ASSUME NEW p \in Runtimes, NEW c \in Commands, Publish(p, c)
          PROVE  UNCHANGED <<owner, valid, retired, proc, interlock, lapsed>>
      BY <2>2 DEF Publish
    <2>3. ASSUME NEW o \in Epochs, NEW c \in Commands, NEW fin \in FinalStatuses, Resolve(o, c, fin)
          PROVE  UNCHANGED <<owner, valid, retired, proc, interlock, lapsed>>
      BY <2>3 DEF Resolve
    <2>4. ASSUME NEW c \in Commands, LeaseExpires(c)
          PROVE  UNCHANGED <<owner, valid, retired, proc, interlock, lapsed>>
      BY <2>4 DEF LeaseExpires
    <2> QED
      BY Zenon, <2>1, <2>2, <2>3, <2>4 DEF Next, vars
  <1> QED
    BY <1>1, <1>2, <1>3, <1>4, <1>5, <1>6

\* What recording the result of a dispatch leaves in the ledgers.
LEMMA ClassifiedResult ==
  ASSUME NEW res \in Results
  PROVE  /\ ClassifyDispatch(res).out \in Outs \ {"reconciled"}
         /\ ClassifyDispatch(res).box \in {"delivered", "failed"}
         /\ ClassifyDispatch(res).cmd \in {"succeeded", "failed"} \cup Unresolved
         /\ ClassifyDispatch(res).ver \in {"observed", "awaiting", "refuted"}
         /\ ClassifyDispatch(res).cmd = "succeeded" <=> res = "ok"
         /\ ClassifyDispatch(res).cmd = "failed" <=> res = "error"
         /\ ClassifyDispatch(res).ver = "observed" <=> res = "ok"
         /\ ClassifyDispatch(res).ver = "refuted" <=> res = "error"
  BY DEF ClassifyDispatch, Results, Outs, Unresolved

\* A reconciliation leaves a command status and a verification that agree.
LEMMA ReconciledStatus ==
  ASSUME NEW fin \in FinalStatuses
  PROVE  /\ fin \in CommandStatuses \ {"absent", "pending", "dispatching"}
         /\ ReconciledVerification(fin) \in {"reconciled", "refuted", "inconclusive"}
         /\ ReconciledVerification(fin) = "reconciled" <=> fin = "succeeded"
         /\ ReconciledVerification(fin) = "refuted" <=> fin = "failed"
  BY DEF ReconciledVerification, FinalStatuses, CommandStatuses, Unresolved

LEMMA RecordTypes ==
  ASSUME RowTypeOK, NEW c \in Commands, NEW res \in Results, RecordFinalDispatch(c, res)
  PROVE  RowTypeOK'
  <1> DEFINE result == ClassifyDispatch(res)
  <1>1. /\ result.out \in Outs /\ result.box \in {"delivered", "failed"} /\ result.cmd \in CommandStatuses
        /\ result.ver \in {"observed", "awaiting", "refuted"}
    BY ClassifiedResult DEF CommandStatuses
  <1>2. Append(outcomes[c], result.out) \in Seq(Outs)
    BY <1>1, AppendRow DEF RowTypeOK
  <1> HIDE DEF result
  <1>3. /\ outcomes' = [outcomes EXCEPT ![c] = Append(@, result.out)]
        /\ cmd' = [cmd EXCEPT ![c] = IF @ = "dispatching" THEN result.cmd ELSE @]
        /\ box' = [box EXCEPT ![c] = result.box] /\ live' = live \ {c}
        /\ ver' = [ver EXCEPT ![c] = result.ver] /\ UNCHANGED <<queue, lease>>
    BY DEF RecordFinalDispatch, result
  <1> QED
    BY <1>1, <1>2, <1>3 DEF RowTypeOK

LEMMA ReconcileTypes ==
  ASSUME RowTypeOK, NEW c \in Commands, NEW fin \in FinalStatuses, Reconcile(c, fin)
  PROVE  RowTypeOK'
  <1>1. fin \in CommandStatuses /\ ReconciledVerification(fin) \in {"reconciled", "refuted", "inconclusive"}
    BY ReconciledStatus
  <1>2. Append(outcomes[c], "reconciled") \in Seq(Outs)
    BY AppendRow DEF RowTypeOK, Outs
  <1> QED
    BY <1>1, <1>2 DEF RowTypeOK, Reconcile

LEMMA RowTypeStep == TypeOK /\ JobsHeld /\ [Next]_vars => RowTypeOK'
  <1> SUFFICES ASSUME RowTypeOK, JobTypeOK, JobsHeld, [Next]_vars PROVE RowTypeOK'
    BY TypeParts
  <1>1. CASE Quiet
    BY <1>1 DEF Quiet, outboxVars, RowTypeOK
  <1>2. ASSUME NEW p \in Runtimes, Crash(p) PROVE RowTypeOK'
    BY <1>2 DEF Crash, outboxVars, RowTypeOK
  <1>3. ASSUME NEW p \in Runtimes, NEW c \in Commands, Publish(p, c) PROVE RowTypeOK'
    BY <1>3 DEF Publish, RowTypeOK, CommandStatuses
  <1>4. ASSUME NEW o \in Epochs, NEW c \in Commands, NEW fin \in FinalStatuses, Resolve(o, c, fin) PROVE RowTypeOK'
    BY <1>4, ReconcileTypes DEF Resolve
  <1>5. ASSUME NEW c \in Commands, LeaseExpires(c) PROVE RowTypeOK'
    BY <1>5 DEF LeaseExpires, RowTypeOK
  <1>6. ASSUME NEW d \in Dispatchers, NEW c \in Commands, AcquireLease(d, c) PROVE RowTypeOK'
    BY <1>6 DEF AcquireLease, RowTypeOK, CommandStatuses
  <1>7. ASSUME NEW d \in Dispatchers, NEW c \in Commands, FailInvalidCommand(d, c) PROVE RowTypeOK'
    BY <1>7 DEF FailInvalidCommand, RowTypeOK, CommandStatuses
  <1>8. ASSUME NEW d \in Dispatchers, NEW c \in Commands, AbandonExpiredLease(d, c) PROVE RowTypeOK'
    BY <1>8, RecordTypes DEF AbandonExpiredLease, Results
  <1>9. ASSUME NEW d \in Dispatchers, Revalidate(d) \/ CheckInterlock(d) \/ CallEffector(d) \/ DropLateResult(d) \/ StopOnError(d)
        PROVE  RowTypeOK'
    BY <1>9 DEF Revalidate, CheckInterlock, CallEffector, DropLateResult, StopOnError, outboxVars, RowTypeOK
  <1>10. ASSUME NEW d \in Dispatchers, Finalize(d) PROVE RowTypeOK'
    <2>1. work[d].cmd \in Commands /\ work[d].res \in Results
      BY <1>10 DEF Finalize, JobsHeld, Holding, JobTypeOK, Jobs
    <2>2. (IF work[d].cmd \in live THEN work[d].res ELSE "unknown") \in Results
      BY <2>1 DEF Results
    <2> QED
      BY <1>10, <2>1, <2>2, RecordTypes DEF Finalize
  <1>11. ASSUME NEW d \in Dispatchers, ReconcileUnknown(d) PROVE RowTypeOK'
    <2>1. work[d].cmd \in Commands /\ work[d].fin \in FinalStatuses
      BY <1>11 DEF ReconcileUnknown, JobsHeld, Holding, JobTypeOK, Jobs
    <2> QED
      BY <1>11, <2>1, ReconcileTypes DEF ReconcileUnknown
  <1> QED
    BY Zenon, StepCases, <1>1, <1>2, <1>3, <1>4, <1>5, <1>6, <1>7, <1>8, <1>9, <1>10, <1>11

\* What the effector reports and its verifier reads is a result, and it is a
\* success only when the effect happened and an error only when it did not.
LEMMA AnswersClassified ==
  ASSUME NEW done \in BOOLEAN, NEW answer \in ProviderAnswers(done)
  PROVE  LET res == ClassifyDeviceVerification(answer[1], answer[2])
         IN  /\ res \in Results
             /\ res = "ok" => done
             /\ res = "error" => ~done
             /\ ReconcilesUnknown(answer[1], answer[2]) \in FinalStatuses \cup {""}
  <1>1. CASE done
    <2>1. /\ answer[1] \in {"ok", "pending", "unknown"} /\ answer[2] # "failed"
          /\ answer[2] \in {"none", "succeeded", "manual_review", "error"}
          /\ answer[2] = "manual_review" => answer[1] = "unknown"
      BY <1>1 DEF ProviderAnswers
    <2> QED
      BY <1>1, <2>1 DEF ClassifyDeviceVerification, ReconcilesUnknown, Results, FinalStatuses
  <1>2. CASE ~done
    <2>1. /\ answer[1] \in {"error", "pending", "unknown"}
          /\ answer[2] \in {"none", "failed", "manual_review", "error"}
          /\ answer[2] = "manual_review" => answer[1] = "unknown"
      BY <1>2 DEF ProviderAnswers
    <2> QED
      BY <1>2, <2>1 DEF ClassifyDeviceVerification, ReconcilesUnknown, Results, FinalStatuses
  <1> QED
    BY <1>1, <1>2

LEMMA AnswerTypes ==
  ASSUME work \in [Dispatchers -> Jobs], NEW d \in Dispatchers, NEW s \in Steps, NEW res \in Results,
         NEW fin \in FinalStatuses \cup {""}
  PROVE  [work EXCEPT ![d].step = s, ![d].res = res, ![d].fin = fin] \in [Dispatchers -> Jobs]
  BY ZenonT(60) DEF Jobs

LEMMA AnsweredEffect ==
  ASSUME work \in [Dispatchers -> Jobs], NEW d \in Dispatchers, NEW res, NEW fin, Answered(d, res, fin)
  PROVE  /\ work'[d].cmd = work[d].cmd /\ work'[d].step = "answered"
         /\ work'[d].res = res /\ work'[d].fin = fin
         /\ \A f \in Dispatchers : f # d => work'[f] = work[f]
  BY DEF Answered, Jobs

LEMMA JobTypeStep == TypeOK /\ JobsHeld /\ [Next]_vars => JobTypeOK'
  <1> SUFFICES ASSUME RowTypeOK, JobTypeOK, JobsHeld, [Next]_vars PROVE JobTypeOK'
    BY TypeParts
  <1> USE DEF JobTypeOK
  <1>0. Idle \in Jobs /\ Stopped \in Jobs
    BY DEF Idle, Stopped, Jobs, Steps, Results
  <1>1. CASE Quiet
    BY <1>1 DEF Quiet, worldVars
  <1>2. ASSUME NEW p \in Runtimes, Crash(p) PROVE JobTypeOK'
    BY <1>0, <1>2 DEF Crash, worldVars
  <1>3. ASSUME NEW p \in Runtimes, NEW c \in Commands, Publish(p, c) PROVE JobTypeOK'
    BY <1>3 DEF Publish, worldVars
  <1>4. ASSUME NEW o \in Epochs, NEW c \in Commands, NEW fin \in FinalStatuses, Resolve(o, c, fin) PROVE JobTypeOK'
    BY <1>4 DEF Resolve, worldVars
  <1>5. ASSUME NEW c \in Commands, LeaseExpires(c) PROVE JobTypeOK'
    BY <1>5 DEF LeaseExpires, worldVars
  <1>6. ASSUME NEW d \in Dispatchers, NEW c \in Commands, AcquireLease(d, c) PROVE JobTypeOK'
    <2>1. [Idle EXCEPT !.cmd = c, !.lease = lease'[c], !.step = "leased"] \in Jobs
      <3>1. lease'[c] \in Nat
        BY <1>6 DEF AcquireLease, RowTypeOK
      <3> HIDE DEF Idle
      <3> QED
        BY <1>0, <3>1 DEF Jobs, Steps
    <2> QED
      BY <1>6, <2>1 DEF AcquireLease, worldVars
  <1>7. ASSUME NEW d \in Dispatchers, NEW c \in Commands, FailInvalidCommand(d, c) \/ AbandonExpiredLease(d, c)
        PROVE  JobTypeOK'
    BY <1>7 DEF FailInvalidCommand, AbandonExpiredLease, worldVars
  <1>8. ASSUME NEW d \in Dispatchers, Revalidate(d) \/ CheckInterlock(d) PROVE JobTypeOK'
    <2>1. ASSUME Answered(d, "error", "") PROVE work' \in [Dispatchers -> Jobs]
      BY <2>1, AnswerTypes, ZenonT(60) DEF Answered, Steps, Results
    <2>2. ASSUME NEW s \in Steps, work' = [work EXCEPT ![d].step = s] PROVE work' \in [Dispatchers -> Jobs]
      BY <2>2 DEF Jobs
    <2>3. work' \in [Dispatchers -> Jobs]
      BY <1>8, <2>1, <2>2 DEF Revalidate, CheckInterlock, Steps
    <2> QED
      BY <1>8, <2>3, ZenonT(60) DEF Revalidate, CheckInterlock, worldVars
  <1>9. ASSUME NEW d \in Dispatchers, CallEffector(d) PROVE JobTypeOK'
    <2>1. PICK done \in BOOLEAN : \E answer \in ProviderAnswers(done) :
            /\ applied' = IF done THEN applied \cup {work[d].cmd} ELSE applied
            /\ Answered(d, ClassifyDeviceVerification(answer[1], answer[2]), ReconcilesUnknown(answer[1], answer[2]))
      BY <1>9 DEF CallEffector
    <2>0. PICK answer \in ProviderAnswers(done) :
            /\ applied' = IF done THEN applied \cup {work[d].cmd} ELSE applied
            /\ Answered(d, ClassifyDeviceVerification(answer[1], answer[2]), ReconcilesUnknown(answer[1], answer[2]))
      BY <2>1
    <2>2. work[d].cmd \in Commands
      BY <1>9 DEF CallEffector, JobsHeld, Holding
    <2>3. /\ ClassifyDeviceVerification(answer[1], answer[2]) \in Results
          /\ ReconcilesUnknown(answer[1], answer[2]) \in FinalStatuses \cup {""}
      BY AnswersClassified
    <2>4. work' \in [Dispatchers -> Jobs]
      BY <2>0, <2>3, AnswerTypes, ZenonT(60) DEF Answered, Steps
    <2> QED
      BY <1>9, <2>0, <2>2, <2>4 DEF CallEffector
  <1>10. ASSUME NEW d \in Dispatchers, Finalize(d) \/ DropLateResult(d) PROVE JobTypeOK'
    <2>1. AfterFinalize(d) \in Jobs
      BY <1>0 DEF AfterFinalize, Jobs, Steps
    <2> QED
      BY <1>10, <2>1 DEF Finalize, DropLateResult, worldVars
  <1>11. ASSUME NEW d \in Dispatchers, ReconcileUnknown(d) \/ StopOnError(d) PROVE JobTypeOK'
    BY <1>0, <1>11 DEF ReconcileUnknown, StopOnError, worldVars
  <1> QED
    BY Zenon, StepCases, <1>1, <1>2, <1>3, <1>4, <1>5, <1>6, <1>7, <1>8, <1>9, <1>10, <1>11

-----------------------------------------------------------------------------
(* Each kind of step keeps the invariant. *)

USE DEF Holding, Unsent

LEMMA SafeInit == Init => Safe
  <1> SUFFICES ASSUME Init PROVE Safe
    OBVIOUS
  <1>1. \A d \in Dispatchers : work[d].step = "idle"
    BY DEF Init, Idle
  <1>2. \A c \in Commands : cmd[c] = "absent" /\ box[c] = "absent" /\ calls[c] = 0 /\ c \notin applied
                            /\ c \notin live /\ outcomes[c] = <<>> /\ ver[c] = "none"
    BY DEF Init
  <1>3. JobsHeld /\ OneHolder /\ UnsentUncalled /\ AnswersTrue
    BY <1>1 DEF JobsHeld, OneHolder, UnsentUncalled, AnswersTrue
  <1>4. RowsUnsent /\ EffectAtMostOnce /\ Truthful
    BY <1>2 DEF RowsUnsent, EffectAtMostOnce, Truthful
  <1>5. LedgersAgree
    BY <1>2 DEF LedgersAgree
  <1> QED
    BY <1>3, <1>4, <1>5 DEF Safe

\* The rows and the outside world are as they were.
LEMMA RowsKeep ==
  ASSUME Safe, UNCHANGED <<outboxVars, worldVars>>
  PROVE  /\ RowsUnsent' /\ EffectAtMostOnce' /\ LedgersAgree' /\ Truthful'
         /\ \A c \in Commands : Reconciled(c)' = Reconciled(c)
  <1>1. /\ cmd' = cmd /\ box' = box /\ live' = live /\ outcomes' = outcomes /\ ver' = ver
        /\ calls' = calls /\ applied' = applied
    BY DEF outboxVars, worldVars
  <1>2. RowsUnsent' /\ EffectAtMostOnce'
    BY <1>1 DEF Safe, RowsUnsent, EffectAtMostOnce
  <1>3. LedgersAgree'
    BY Zenon, <1>1 DEF Safe, LedgersAgree
  <1>4. \A c \in Commands : Reconciled(c)' = Reconciled(c)
    BY Zenon, <1>1 DEF Reconciled
  <1>5. Truthful'
    BY Zenon, <1>1, <1>4 DEF Safe, Truthful
  <1> QED
    BY <1>2, <1>3, <1>4, <1>5


\* A step that only moves dispatchers: each keeps its job and comes to an error
\* unsent or a step further, or keeps its answer, or gives its job up.
MovesOn(d) ==
    \/ work'[d] = work[d]
    \/ ~Holding(d)'
    \/ /\ Unsent(d)
       /\ work'[d].cmd = work[d].cmd
       /\ Unsent(d)' \/ (work'[d].step = "answered" /\ work'[d].res = "error")
    \/ /\ Holding(d)
       /\ work'[d].cmd = work[d].cmd
       /\ work'[d].step = "reconcile" /\ work'[d].fin # ""

LEMMA MovesKeep ==
  ASSUME IInv, UNCHANGED <<outboxVars, worldVars>>, \A d \in Dispatchers : MovesOn(d)
  PROVE  Safe'
  <1> USE DEF IInv, Safe, outboxVars, worldVars, MovesOn
  <1>1. \A d \in Dispatchers : Holding(d)' => Holding(d) /\ work'[d].cmd = work[d].cmd
    OBVIOUS
  <1>2. JobsHeld'
    BY <1>1 DEF JobsHeld
  <1>3. OneHolder'
    BY <1>1 DEF OneHolder
  <1>4. UnsentUncalled' /\ AnswersTrue'
    <2>1. \A c \in Commands : Reconciled(c)' = Reconciled(c)
      BY RowsKeep
    <2>2. UnsentUncalled'
      BY <1>2, <2>1 DEF UnsentUncalled, JobsHeld
    <2>3. AnswersTrue'
      BY DEF AnswersTrue, UnsentUncalled
    <2> QED
      BY <2>2, <2>3
  <1>5. RowsUnsent' /\ EffectAtMostOnce' /\ LedgersAgree' /\ Truthful'
    BY RowsKeep
  <1> QED
    BY <1>2, <1>3, <1>4, <1>5

LEMMA QuietKeeps == IInv /\ Quiet => Safe'
  BY MovesKeep DEF Quiet, MovesOn

LEMMA DispatcherMoves ==
  ASSUME IInv,
         \/ \E p \in Runtimes : Crash(p)
         \/ \E d \in Dispatchers : Revalidate(d) \/ CheckInterlock(d) \/ DropLateResult(d) \/ StopOnError(d)
  PROVE  Safe'
  <1> USE DEF MovesOn
  <1>1. work \in [Dispatchers -> Jobs]
    BY DEF IInv, TypeOK
  <1>2. ASSUME NEW p \in Runtimes, Crash(p) PROVE Safe'
    <2>1. \A d \in Dispatchers : MovesOn(d)
      BY <1>2 DEF Crash, Stopped, Idle
    <2> QED
      BY <1>2, <2>1, MovesKeep DEF Crash
  <1>3. ASSUME NEW d \in Dispatchers, Revalidate(d) \/ CheckInterlock(d) PROVE Safe'
    <2>1. \A f \in Dispatchers : MovesOn(f)
      <3>1. CASE Answered(d, "error", "")
        <4>1. Unsent(d)
          BY <1>3 DEF Revalidate, CheckInterlock
        <4>2. /\ work'[d].cmd = work[d].cmd /\ work'[d].step = "answered" /\ work'[d].res = "error"
              /\ \A f \in Dispatchers : f # d => work'[f] = work[f]
          BY <1>1, <3>1, AnsweredEffect
        <4> QED
          BY <4>1, <4>2
      <3>2. ASSUME NEW s \in {"authorized", "checked"}, work' = [work EXCEPT ![d].step = s]
            PROVE  \A f \in Dispatchers : MovesOn(f)
        BY <1>1, <1>3, <3>2 DEF Revalidate, CheckInterlock, Jobs
      <3> QED
        BY <1>3, <3>1, <3>2 DEF Revalidate, CheckInterlock
    <2> QED
      BY <1>3, <2>1, MovesKeep DEF Revalidate, CheckInterlock
  <1>4. ASSUME NEW d \in Dispatchers, DropLateResult(d) PROVE Safe'
    <2>1. \A f \in Dispatchers : MovesOn(f)
      BY <1>1, <1>4 DEF DropLateResult, AfterFinalize, Idle, Jobs
    <2> QED
      BY <1>4, <2>1, MovesKeep DEF DropLateResult
  <1>5. ASSUME NEW d \in Dispatchers, StopOnError(d) PROVE Safe'
    <2>1. \A f \in Dispatchers : MovesOn(f)
      BY <1>1, <1>5 DEF StopOnError, Stopped, Idle
    <2> QED
      BY <1>5, <2>1, MovesKeep DEF StopOnError
  <1> QED
    BY <1>2, <1>3, <1>4, <1>5

\* The invariant of one command's rows.
RowOK(c) ==
    /\ box[c] = "absent" <=> cmd[c] = "absent"
    /\ box[c] \in {"absent", "pending"} => calls[c] = 0 /\ c \notin applied
    /\ calls[c] <= 1
    /\ box[c] = "pending" <=> cmd[c] = "pending"
    /\ box[c] = "leased" <=> cmd[c] = "dispatching"
    /\ c \in live => box[c] = "leased"
    /\ outcomes[c] = <<>> <=> ver[c] = "none"
    /\ outcomes[c] # <<>> =>
          /\ box[c] \in {"delivered", "failed"}
          /\ cmd[c] = "succeeded" <=> ver[c] \in {"observed", "reconciled"}
          /\ cmd[c] = "failed" <=> ver[c] = "refuted"
          /\ cmd[c] \in Unresolved <=> ver[c] \in {"awaiting", "inconclusive"}
    /\ ~Reconciled(c) =>
          /\ cmd[c] = "succeeded" => c \in applied
          /\ cmd[c] = "failed" => c \notin applied

LEMMA RowByRow == (\A c \in Commands : RowOK(c)) <=> RowsUnsent /\ EffectAtMostOnce /\ LedgersAgree /\ Truthful
  <1>1. ASSUME \A c \in Commands : RowOK(c) PROVE RowsUnsent /\ EffectAtMostOnce /\ LedgersAgree /\ Truthful
    BY Zenon, <1>1 DEF RowOK, RowsUnsent, EffectAtMostOnce, LedgersAgree, Truthful
  <1>2. ASSUME RowsUnsent, EffectAtMostOnce, LedgersAgree, Truthful, NEW c \in Commands PROVE RowOK(c)
    BY Zenon, <1>2 DEF RowOK, RowsUnsent, EffectAtMostOnce, LedgersAgree, Truthful
  <1> QED
    BY <1>1, <1>2

SameRow(c) ==
    /\ cmd'[c] = cmd[c] /\ box'[c] = box[c] /\ (c \in live' <=> c \in live)
    /\ outcomes'[c] = outcomes[c] /\ ver'[c] = ver[c]
    /\ calls'[c] = calls[c] /\ (c \in applied' <=> c \in applied)

LEMMA SameRowKeeps ==
  ASSUME NEW c \in Commands, SameRow(c), RowOK(c)
  PROVE  RowOK(c)' /\ (Reconciled(c)' <=> Reconciled(c))
  <1>1. Reconciled(c)' <=> Reconciled(c)
    BY DEF SameRow, Reconciled
  <1> QED
    BY Zenon, <1>1 DEF SameRow, RowOK

\* A step that rewrites the row of one command keeps the others.
LEMMA OneRow ==
  ASSUME IInv, NEW c \in Commands, RowOK(c)', \A x \in Commands \ {c} : SameRow(x)
  PROVE  /\ RowsUnsent' /\ EffectAtMostOnce' /\ LedgersAgree' /\ Truthful'
         /\ \A x \in Commands \ {c} : Reconciled(x)' <=> Reconciled(x)
  <1>1. \A x \in Commands : RowOK(x)
    BY RowByRow DEF IInv, Safe
  <1>2. \A x \in Commands \ {c} : RowOK(x)' /\ (Reconciled(x)' <=> Reconciled(x))
    BY <1>1, SameRowKeeps
  <1>3. (\A x \in Commands : RowOK(x))'
    BY <1>2
  <1>4. RowsUnsent' /\ EffectAtMostOnce' /\ LedgersAgree' /\ Truthful'
    BY Zenon, <1>3 DEF RowOK, RowsUnsent, EffectAtMostOnce, LedgersAgree, Truthful
  <1> QED
    BY Zenon, <1>2, <1>4

\* Jobs on other commands than the rewritten one keep their part of the invariant.
LEMMA OtherJobs ==
  ASSUME IInv, NEW c \in Commands, RowOK(c)', \A x \in Commands \ {c} : SameRow(x),
         work' = work,
         box[c] \in {"leased", "delivered", "failed"} => box'[c] \in {"leased", "delivered", "failed"},
         calls'[c] = calls[c], c \in applied' <=> c \in applied,
         box[c] \in {"leased", "delivered", "failed"} => Reconciled(c)' \/ cmd'[c] \notin {"succeeded", "failed"}
                                                          \/ (cmd'[c] = cmd[c] /\ (Reconciled(c) => Reconciled(c)'))
  PROVE  Safe'
  <1>1. /\ RowsUnsent' /\ EffectAtMostOnce' /\ LedgersAgree' /\ Truthful'
        /\ \A x \in Commands \ {c} : Reconciled(x)' <=> Reconciled(x)
    BY OneRow
  <1> USE DEF IInv, Safe
  <1>2. JobsHeld'
    BY DEF JobsHeld, SameRow
  <1>3. OneHolder'
    BY DEF OneHolder
  <1>4. AnswersTrue'
    BY DEF AnswersTrue, JobsHeld, SameRow
  <1>5. UnsentUncalled'
    <2> SUFFICES ASSUME NEW d \in Dispatchers, Unsent(d)'
                 PROVE  /\ calls'[work'[d].cmd] = 0 /\ work'[d].cmd \notin applied'
                        /\ Reconciled(work[d].cmd)' \/ cmd'[work[d].cmd] \notin {"succeeded", "failed"}
      BY DEF UnsentUncalled
    <2>1. /\ work[d].cmd \in Commands /\ box[work[d].cmd] \in {"leased", "delivered", "failed"}
          /\ calls[work[d].cmd] = 0 /\ work[d].cmd \notin applied
          /\ Reconciled(work[d].cmd) \/ cmd[work[d].cmd] \notin {"succeeded", "failed"}
      BY DEF UnsentUncalled, JobsHeld
    <2>2. CASE work[d].cmd = c
      BY <2>1, <2>2
    <2>3. CASE work[d].cmd # c
      BY <1>1, <2>1, <2>3 DEF SameRow
    <2> QED
      BY <2>2, <2>3
  <1> QED
    BY <1>1, <1>2, <1>3, <1>4, <1>5

LEMMA RowTypes ==
  ASSUME IInv, NEW c \in Commands
  PROVE  /\ cmd[c] \in CommandStatuses /\ box[c] \in {"absent", "pending", "leased", "delivered", "failed"}
         /\ outcomes[c] \in Seq(Outs) /\ calls[c] \in Nat /\ RowOK(c)
  <1>1. \A x \in Commands : RowOK(x)
    BY RowByRow DEF IInv, Safe
  <1> QED
    BY <1>1 DEF IInv, TypeOK, Outs

LEMMA PublishKeeps ==
  ASSUME IInv, NEW p \in Runtimes, NEW c \in Commands, Publish(p, c)
  PROVE  Safe'
  <1>1. /\ cmd[c] = "absent" /\ box[c] = "absent" /\ cmd'[c] = "pending" /\ box'[c] = "pending" /\ work' = work
        /\ outcomes' = outcomes /\ ver' = ver /\ live' = live /\ calls' = calls /\ applied' = applied
        /\ \A x \in Commands \ {c} : cmd'[x] = cmd[x] /\ box'[x] = box[x]
    BY RowTypes DEF Publish, RowOK, IInv, TypeOK, worldVars
  <1>2. \A x \in Commands \ {c} : SameRow(x)
    BY <1>1 DEF SameRow
  <1>3. RowOK(c)'
    <2>1. RowOK(c) /\ (Reconciled(c)' <=> Reconciled(c))
      BY <1>1, RowTypes DEF Reconciled
    <2> QED
      BY <1>1, <2>1 DEF RowOK, Unresolved
  <1> QED
    BY <1>1, <1>2, <1>3, OtherJobs

LEMMA LeaseExpiresKeeps ==
  ASSUME IInv, NEW c \in Commands, LeaseExpires(c)
  PROVE  Safe'
  <1>1. /\ cmd' = cmd /\ box' = box /\ work' = work /\ live' = live \ {c}
        /\ outcomes' = outcomes /\ ver' = ver /\ calls' = calls /\ applied' = applied
    BY DEF LeaseExpires, worldVars
  <1>2. \A x \in Commands \ {c} : SameRow(x)
    BY <1>1 DEF SameRow
  <1>3. Reconciled(c)' <=> Reconciled(c)
    BY <1>1 DEF Reconciled
  <1>4. RowOK(c)'
    BY <1>1, <1>3, RowTypes DEF RowOK
  <1> QED
    BY <1>1, <1>2, <1>3, <1>4, OtherJobs

LEMMA FailInvalidKeeps ==
  ASSUME IInv, NEW d \in Dispatchers, NEW c \in Commands, FailInvalidCommand(d, c)
  PROVE  Safe'
  <1>1. /\ box[c] = "pending" /\ cmd'[c] = "failed" /\ box'[c] = "failed" /\ work' = work /\ live' = live
        /\ outcomes' = outcomes /\ ver' = ver /\ calls' = calls /\ applied' = applied
        /\ \A x \in Commands \ {c} : cmd'[x] = cmd[x] /\ box'[x] = box[x]
    BY DEF FailInvalidCommand, IInv, TypeOK, worldVars
  <1>2. \A x \in Commands \ {c} : SameRow(x)
    BY <1>1 DEF SameRow
  <1>3. Reconciled(c)' <=> Reconciled(c)
    BY <1>1 DEF Reconciled
  <1>4. RowOK(c)'
    BY <1>1, <1>3, RowTypes DEF RowOK, Unresolved
  <1> QED
    BY <1>1, <1>2, <1>3, <1>4, OtherJobs

\* Recording a result closes a leased row as the result says.
LEMMA RecordEffect ==
  ASSUME IInv, NEW c \in Commands, NEW res \in Results, box[c] = "leased", RecordFinalDispatch(c, res),
         calls' = calls, applied' = applied,
         res = "ok" => c \in applied, res = "error" => c \notin applied
  PROVE  /\ RowOK(c)' /\ \A x \in Commands \ {c} : SameRow(x)
         /\ box'[c] \in {"delivered", "failed"}
         /\ res = "unknown" => cmd'[c] \in Unresolved
  <1> DEFINE result == ClassifyDispatch(res)
  <1>1. /\ result.out \in Outs \ {"reconciled"} /\ result.box \in {"delivered", "failed"}
        /\ result.cmd \in {"succeeded", "failed"} \cup Unresolved
        /\ result.ver \in {"observed", "awaiting", "refuted"}
        /\ result.cmd = "succeeded" <=> res = "ok"
        /\ result.cmd = "failed" <=> res = "error"
        /\ result.ver = "observed" <=> res = "ok"
        /\ result.ver = "refuted" <=> res = "error"
    BY ClassifiedResult
  <1>2. /\ cmd[c] = "dispatching" /\ outcomes[c] = <<>> /\ calls[c] <= 1
    BY RowTypes DEF RowOK
  <1> HIDE DEF result
  <1>3. /\ outcomes' = [outcomes EXCEPT ![c] = Append(@, result.out)]
        /\ cmd' = [cmd EXCEPT ![c] = IF @ = "dispatching" THEN result.cmd ELSE @]
        /\ box' = [box EXCEPT ![c] = result.box] /\ live' = live \ {c}
        /\ ver' = [ver EXCEPT ![c] = result.ver]
    BY DEF RecordFinalDispatch, result
  <1>4. /\ cmd'[c] = result.cmd /\ box'[c] = result.box /\ ver'[c] = result.ver /\ c \notin live'
        /\ outcomes'[c] = Append(outcomes[c], result.out)
    BY <1>2, <1>3 DEF IInv, TypeOK
  <1>5. outcomes'[c] # <<>>
    BY <1>1, <1>4, RowTypes, AppendRow
  <1>6. \A x \in Commands \ {c} : SameRow(x)
    BY <1>3 DEF SameRow, IInv, TypeOK
  <1>7. RowOK(c)'
    BY <1>1, <1>2, <1>4, <1>5 DEF RowOK, Unresolved
  <1> QED
    BY <1>1, <1>4, <1>6, <1>7 DEF Unresolved

LEMMA AbandonKeeps ==
  ASSUME IInv, NEW d \in Dispatchers, NEW c \in Commands, AbandonExpiredLease(d, c)
  PROVE  Safe'
  <1>1. /\ box[c] = "leased" /\ RecordFinalDispatch(c, "unknown") /\ "unknown" \in Results
        /\ work' = work /\ calls' = calls /\ applied' = applied
    BY DEF AbandonExpiredLease, worldVars, Results
  <1>2. /\ RowOK(c)' /\ \A x \in Commands \ {c} : SameRow(x)
        /\ box'[c] \in {"delivered", "failed"} /\ cmd'[c] \in Unresolved
    BY <1>1, RecordEffect
  <1> QED
    BY <1>1, <1>2, OtherJobs DEF Unresolved

\* A reconciliation closes an unresolved command with its evidence.
LEMMA ReconcileEffect ==
  ASSUME IInv, NEW c \in Commands, NEW fin \in FinalStatuses, Reconcile(c, fin), calls' = calls, applied' = applied
  PROVE  /\ RowOK(c)' /\ \A x \in Commands \ {c} : SameRow(x)
         /\ box'[c] = box[c] /\ Reconciled(c)'
  <1>1. /\ fin \in CommandStatuses \ {"absent", "pending", "dispatching"}
        /\ ReconciledVerification(fin) \in {"reconciled", "refuted", "inconclusive"}
        /\ ReconciledVerification(fin) = "reconciled" <=> fin = "succeeded"
        /\ ReconciledVerification(fin) = "refuted" <=> fin = "failed"
    BY ReconciledStatus
  <1>2. /\ cmd[c] \in Unresolved /\ box' = box /\ live' = live
        /\ cmd'[c] = fin /\ ver'[c] = ReconciledVerification(fin)
        /\ outcomes'[c] = Append(outcomes[c], "reconciled")
    BY DEF Reconcile, IInv, TypeOK
  <1>3. /\ outcomes'[c] # <<>>
        /\ {outcomes'[c][i] : i \in DOMAIN outcomes'[c]} = {outcomes[c][i] : i \in DOMAIN outcomes[c]} \cup {"reconciled"}
    BY <1>2, RowTypes, AppendRow DEF Outs
  <1>4. Reconciled(c)'
    BY <1>3 DEF Reconciled
  <1>5. \A x \in Commands \ {c} : SameRow(x)
    BY DEF Reconcile, SameRow, IInv, TypeOK
  <1>6. box[c] \in {"delivered", "failed"} /\ calls[c] <= 1 /\ c \notin live
    BY <1>2, RowTypes DEF RowOK, Unresolved
  <1>7. RowOK(c)'
    BY <1>1, <1>2, <1>3, <1>4, <1>6 DEF RowOK, Unresolved, CommandStatuses
  <1> QED
    BY <1>2, <1>4, <1>5, <1>7

LEMMA ResolveKeeps ==
  ASSUME IInv, NEW o \in Epochs, NEW c \in Commands, NEW fin \in FinalStatuses, Resolve(o, c, fin)
  PROVE  Safe'
  <1>1. Reconcile(c, fin) /\ work' = work /\ calls' = calls /\ applied' = applied
    BY DEF Resolve, worldVars
  <1>2. /\ RowOK(c)' /\ (\A x \in Commands \ {c} : SameRow(x)) /\ box'[c] = box[c] /\ Reconciled(c)'
    BY <1>1, ReconcileEffect
  <1> QED
    BY <1>1, <1>2, OtherJobs

\* UnsentUncalled after a step, with the command of each job named.
LEMMA UnsentNext ==
  ASSUME \A f \in Dispatchers : \A x : Unsent(f)' /\ x = work'[f].cmd =>
            /\ calls'[x] = 0 /\ x \notin applied'
            /\ Reconciled(x)' \/ cmd'[x] \notin {"succeeded", "failed"}
  PROVE  UnsentUncalled'
  BY DEF UnsentUncalled, Reconciled

\* A dispatcher rewrites the row of its command and ends its job or goes on to
\* reconcile it; no other dispatcher works on that command.
LEMMA OwnRow ==
  ASSUME IInv, NEW d \in Dispatchers, Holding(d), NEW c \in Commands, c = work[d].cmd,
         RowOK(c)', \A x \in Commands \ {c} : SameRow(x),
         box'[c] \in {"leased", "delivered", "failed"},
         \A f \in Dispatchers : f # d => work'[f] = work[f],
         Holding(d)' => work'[d].cmd = c,
         work'[d].step \in {"idle", "reconcile", "answered"},
         work'[d].step = "reconcile" => work'[d].fin # "",
         work'[d].step = "answered" => /\ work'[d].res = "ok" => c \in applied'
                                       /\ work'[d].res = "error" => c \notin applied'
  PROVE  Safe'
  <1>1. /\ RowsUnsent' /\ EffectAtMostOnce' /\ LedgersAgree' /\ Truthful'
        /\ \A x \in Commands \ {c} : Reconciled(x)' <=> Reconciled(x)
    BY OneRow
  <1> USE DEF IInv, Safe
  <1>2. \A f \in Dispatchers : f # d /\ Holding(f) => work[f].cmd \in Commands \ {c}
    BY DEF OneHolder, JobsHeld
  <1>3. ASSUME NEW f \in Dispatchers, f # d, Holding(f)'
        PROVE  \E x \in Commands \ {c} :
                  /\ Holding(f) /\ work'[f] = work[f] /\ work[f].cmd = x
                  /\ SameRow(x) /\ (Reconciled(x)' <=> Reconciled(x))
    BY <1>1, <1>2, <1>3
  <1>4. JobsHeld'
    <2> SUFFICES ASSUME NEW f \in Dispatchers, Holding(f)'
                 PROVE  /\ work'[f].cmd \in Commands
                        /\ box'[work'[f].cmd] \in {"leased", "delivered", "failed"}
                        /\ work'[f].step = "reconcile" => work'[f].fin # ""
      BY DEF JobsHeld
    <2>1. CASE f = d
      BY <2>1
    <2>2. CASE f # d
      <3>1. PICK x \in Commands \ {c} : Holding(f) /\ work'[f] = work[f] /\ work[f].cmd = x /\ SameRow(x)
        BY <1>3, <2>2
      <3> QED
        BY <3>1, ZenonT(60) DEF JobsHeld, SameRow
    <2> QED
      BY <2>1, <2>2
  <1>5. OneHolder'
    <2> SUFFICES ASSUME NEW f \in Dispatchers, NEW g \in Dispatchers, Holding(f)', Holding(g)', f # g
                 PROVE  work'[f].cmd # work'[g].cmd
      BY DEF OneHolder
    <2>1. CASE f # d /\ g # d
      BY <1>3, <2>1 DEF OneHolder
    <2>2. CASE f = d \/ g = d
      BY <1>3, <2>2, ZenonT(60)
    <2> QED
      BY <2>1, <2>2
  <1>6. AnswersTrue'
    <2> SUFFICES ASSUME NEW f \in Dispatchers, work'[f].step = "answered"
                 PROVE  /\ work'[f].res = "ok" => work'[f].cmd \in applied'
                        /\ work'[f].res = "error" => work'[f].cmd \notin applied'
      BY DEF AnswersTrue
    <2>1. CASE f = d
      BY <2>1
    <2>2. CASE f # d
      <3>0. Holding(f)'
        OBVIOUS
      <3>1. PICK x \in Commands \ {c} : work'[f] = work[f] /\ work[f].cmd = x /\ SameRow(x)
        BY <1>3, <2>2, <3>0
      <3>2. /\ work[f].res = "ok" => x \in applied
            /\ work[f].res = "error" => x \notin applied
        BY <3>1 DEF AnswersTrue
      <3>3. x \in applied' <=> x \in applied
        BY <3>1 DEF SameRow
      <3> QED
        BY <3>1, <3>2, <3>3
    <2> QED
      BY <2>1, <2>2
  <1>7. UnsentUncalled'
    <2> SUFFICES ASSUME NEW f \in Dispatchers, Unsent(f)', NEW x, x = work'[f].cmd
                 PROVE  /\ calls'[x] = 0 /\ x \notin applied'
                        /\ Reconciled(x)' \/ cmd'[x] \notin {"succeeded", "failed"}
      BY UnsentNext
    <2>1. f # d
      OBVIOUS
    <2>2. /\ Unsent(f) /\ work'[f] = work[f] /\ work[f].cmd = x
          /\ SameRow(x) /\ (Reconciled(x)' <=> Reconciled(x))
      BY <1>3, <2>1, ZenonT(60)
    <2>3. /\ calls[x] = 0 /\ x \notin applied
          /\ Reconciled(x) \/ cmd[x] \notin {"succeeded", "failed"}
      BY <2>2 DEF UnsentUncalled
    <2> QED
      BY <2>2, <2>3 DEF SameRow
  <1> QED
    BY <1>1, <1>4, <1>5, <1>6, <1>7

LEMMA ReconcileUnknownKeeps ==
  ASSUME IInv, NEW d \in Dispatchers, ReconcileUnknown(d)
  PROVE  Safe'
  <1>1. PICK c \in Commands :
          /\ Holding(d) /\ c = work[d].cmd /\ work[d].fin \in FinalStatuses
          /\ box[c] \in {"leased", "delivered", "failed"}
    BY DEF ReconcileUnknown, IInv, Safe, JobsHeld, TypeOK, Jobs
  <1>2. Reconcile(c, work[d].fin) /\ calls' = calls /\ applied' = applied
    BY <1>1 DEF ReconcileUnknown, worldVars
  <1>3. work'[d].step = "idle" /\ \A f \in Dispatchers : f # d => work'[f] = work[f]
    BY DEF ReconcileUnknown, IInv, TypeOK, Idle
  <1>4. /\ RowOK(c)' /\ (\A x \in Commands \ {c} : SameRow(x)) /\ box'[c] = box[c]
    BY <1>1, <1>2, ReconcileEffect
  <1> QED
    BY <1>1, <1>3, <1>4, OwnRow

LEMMA FinalizeKeeps ==
  ASSUME IInv, NEW d \in Dispatchers, Finalize(d)
  PROVE  Safe'
  <1>1. PICK c \in Commands :
          /\ Holding(d) /\ c = work[d].cmd /\ box[c] = "leased" /\ work[d].res \in Results
          /\ work[d].res = "ok" => c \in applied
          /\ work[d].res = "error" => c \notin applied
    BY DEF Finalize, HoldsLease, IInv, Safe, JobsHeld, AnswersTrue, TypeOK, Jobs
  <1>2. PICK res \in Results :
          /\ res = IF c \in live THEN work[d].res ELSE "unknown"
          /\ res = "ok" => c \in applied
          /\ res = "error" => c \notin applied
    BY <1>1 DEF Results
  <1>3. RecordFinalDispatch(c, res) /\ calls' = calls /\ applied' = applied
    BY <1>1, <1>2 DEF Finalize, worldVars
  <1>4. /\ \A f \in Dispatchers : f # d => work'[f] = work[f]
        /\ Holding(d)' => work'[d].cmd = c
        /\ work'[d].step \in {"idle", "reconcile"}
        /\ work'[d].step = "reconcile" => work'[d].fin # ""
    BY <1>1, ZenonT(60) DEF Finalize, AfterFinalize, IInv, TypeOK, Idle, Jobs
  <1>5. /\ RowOK(c)' /\ (\A x \in Commands \ {c} : SameRow(x)) /\ box'[c] \in {"delivered", "failed"}
    BY <1>1, <1>2, <1>3, RecordEffect
  <1> QED
    BY <1>1, <1>4, <1>5, OwnRow

\* The one call of a command's effect: its dispatcher is the only one at work on
\* it, and nobody called before.
LEMMA CallKeeps ==
  ASSUME IInv, NEW d \in Dispatchers, CallEffector(d)
  PROVE  Safe'
  <1>1. PICK c \in Commands :
          /\ Holding(d) /\ c = work[d].cmd /\ box[c] \in {"leased", "delivered", "failed"}
          /\ calls[c] = 0 /\ c \notin applied
          /\ Reconciled(c) \/ cmd[c] \notin {"succeeded", "failed"}
    BY DEF CallEffector, IInv, Safe, JobsHeld, UnsentUncalled
  <1>2. PICK done \in BOOLEAN : \E answer \in ProviderAnswers(done) :
          /\ applied' = IF done THEN applied \cup {work[d].cmd} ELSE applied
          /\ Answered(d, ClassifyDeviceVerification(answer[1], answer[2]), ReconcilesUnknown(answer[1], answer[2]))
    BY DEF CallEffector
  <1>3. PICK answer \in ProviderAnswers(done) :
          Answered(d, ClassifyDeviceVerification(answer[1], answer[2]), ReconcilesUnknown(answer[1], answer[2]))
    BY <1>2
  <1>4. PICK res \in Results : /\ res = ClassifyDeviceVerification(answer[1], answer[2])
                               /\ res = "ok" => done
                               /\ res = "error" => ~done
    BY AnswersClassified
  <1>5. /\ \A f \in Dispatchers : f # d => work'[f] = work[f]
        /\ work'[d].cmd = c /\ work'[d].step = "answered" /\ work'[d].res = res
    BY <1>1, <1>3, <1>4, AnsweredEffect DEF IInv, TypeOK
  <1>6. /\ cmd' = cmd /\ box' = box /\ live' = live /\ outcomes' = outcomes /\ ver' = ver
        /\ calls' = [calls EXCEPT ![c] = @ + 1]
        /\ applied' = IF done THEN applied \cup {c} ELSE applied
    BY <1>1, <1>2 DEF CallEffector, outboxVars
  <1>7. calls'[c] = 1 /\ \A x \in Commands \ {c} : SameRow(x)
    BY <1>1, <1>6 DEF SameRow, IInv, TypeOK
  <1>8. RowOK(c)'
    <2>1. Reconciled(c)' <=> Reconciled(c)
      BY <1>6 DEF Reconciled
    <2>2. RowOK(c)
      BY RowTypes
    <2>3. calls'[c] <= 1 /\ box'[c] \notin {"absent", "pending"}
      BY <1>1, <1>6, <1>7
    <2>4. ~Reconciled(c)' => cmd'[c] \notin {"succeeded", "failed"}
      BY <1>1, <1>6, <2>1
    <2>5. /\ cmd'[c] = cmd[c] /\ box'[c] = box[c] /\ outcomes'[c] = outcomes[c] /\ ver'[c] = ver[c]
          /\ c \in live' <=> c \in live
      BY <1>6
    <2> QED
      BY <2>2, <2>3, <2>4, <2>5 DEF RowOK
  <1>9. (res = "ok" => c \in applied') /\ (res = "error" => c \notin applied')
    BY <1>1, <1>4, <1>6
  <1> QED
    BY <1>1, <1>5, <1>6, <1>7, <1>8, <1>9, OwnRow

\* A fresh lease: nobody was at work on a pending row.
LEMMA AcquireKeeps ==
  ASSUME IInv, NEW d \in Dispatchers, NEW c \in Commands, AcquireLease(d, c)
  PROVE  Safe'
  <1> USE DEF IInv, Safe
  <1>1. /\ box[c] = "pending" /\ cmd[c] = "pending" /\ calls[c] = 0 /\ c \notin applied /\ RowOK(c)
        /\ ~Holding(d)
    <2>1. box[c] = "pending" /\ work[d].step = "idle"
      <3>1. MayLease(d, c) /\ box[c] = "pending"
        BY DEF AcquireLease
      <3>2. work[d] = Idle
        BY <3>1 DEF MayLease
      <3>3. Idle.step = "idle"
        BY DEF Idle
      <3> QED
        BY <3>1, <3>2, <3>3
    <2>2. RowOK(c)
      BY RowTypes
    <2> QED
      BY <2>1, <2>2 DEF RowOK
  <1>2. /\ cmd'[c] = "dispatching" /\ box'[c] = "leased" /\ live' = live \cup {c}
        /\ outcomes' = outcomes /\ ver' = ver /\ calls' = calls /\ applied' = applied
        /\ \A x \in Commands \ {c} : cmd'[x] = cmd[x] /\ box'[x] = box[x]
    BY <1>1 DEF AcquireLease, TypeOK, worldVars
  <1>3. /\ work'[d].cmd = c /\ work'[d].step = "leased"
        /\ \A f \in Dispatchers : f # d => work'[f] = work[f]
    BY DEF AcquireLease, TypeOK, Idle
  <1>4. \A x \in Commands \ {c} : SameRow(x)
    BY <1>2 DEF SameRow
  <1>5. Reconciled(c)' <=> Reconciled(c)
    BY <1>2 DEF Reconciled
  <1>6. RowOK(c)'
    BY <1>1, <1>2, <1>5 DEF RowOK, Unresolved
  <1>7. /\ RowsUnsent' /\ EffectAtMostOnce' /\ LedgersAgree' /\ Truthful'
        /\ \A x \in Commands \ {c} : Reconciled(x)' <=> Reconciled(x)
    BY <1>4, <1>6, OneRow
  <1>8. \A f \in Dispatchers : Holding(f) => work[f].cmd \in Commands \ {c}
    BY <1>1 DEF JobsHeld
  <1>9. JobsHeld'
    <2> SUFFICES ASSUME NEW f \in Dispatchers, Holding(f)'
                 PROVE  /\ work'[f].cmd \in Commands
                        /\ box'[work'[f].cmd] \in {"leased", "delivered", "failed"}
                        /\ work'[f].step = "reconcile" => work'[f].fin # ""
      BY DEF JobsHeld
    <2>1. CASE f = d
      BY <1>2, <1>3, <2>1
    <2>2. CASE f # d
      BY <1>2, <1>3, <1>8, <2>2, ZenonT(60) DEF JobsHeld
    <2> QED
      BY <2>1, <2>2
  <1>10. OneHolder'
    BY <1>3, <1>8 DEF OneHolder
  <1>11. AnswersTrue'
    BY <1>2, <1>3 DEF AnswersTrue
  <1>12. UnsentUncalled'
    <2> SUFFICES ASSUME NEW f \in Dispatchers, Unsent(f)', NEW x, x = work'[f].cmd
                 PROVE  /\ calls'[x] = 0 /\ x \notin applied'
                        /\ Reconciled(x)' \/ cmd'[x] \notin {"succeeded", "failed"}
      BY UnsentNext
    <2>1. CASE f = d
      BY <1>1, <1>2, <1>3, <2>1
    <2>2. CASE f # d
      <3>1. work[f].cmd = x /\ x \in Commands \ {c} /\ Unsent(f)
        BY <1>3, <1>8, <2>2
      <3>2. /\ calls[x] = 0 /\ x \notin applied
            /\ Reconciled(x) \/ cmd[x] \notin {"succeeded", "failed"}
        BY <3>1 DEF UnsentUncalled
      <3> QED
        BY <1>2, <1>7, <3>1, <3>2
    <2> QED
      BY <2>1, <2>2
  <1> QED
    BY <1>7, <1>9, <1>10, <1>11, <1>12

\* The inductive step, one case for each action.
LEMMA SafeStep == IInv /\ [Next]_vars => Safe'
  <1> SUFFICES ASSUME IInv, [Next]_vars PROVE Safe'
    OBVIOUS
  <1> HIDE DEF Holding, Unsent
  <1>1. ASSUME NEW p \in Runtimes, Crash(p) \/ \E c \in Commands : Publish(p, c) PROVE Safe'
    BY <1>1, DispatcherMoves, PublishKeeps
  <1>2. ASSUME NEW o \in Epochs, NEW c \in Commands, NEW fin \in FinalStatuses, Resolve(o, c, fin) PROVE Safe'
    BY <1>2, ResolveKeeps
  <1>3. ASSUME NEW c \in Commands, LeaseExpires(c) PROVE Safe'
    BY <1>3, LeaseExpiresKeeps
  <1>4. ASSUME NEW d \in Dispatchers, NEW c \in Commands,
               AcquireLease(d, c) \/ FailInvalidCommand(d, c) \/ AbandonExpiredLease(d, c)
        PROVE  Safe'
    BY <1>4, AcquireKeeps, FailInvalidKeeps, AbandonKeeps
  <1>5. ASSUME NEW d \in Dispatchers,
               \/ Revalidate(d) \/ CheckInterlock(d) \/ CallEffector(d) \/ Finalize(d)
               \/ DropLateResult(d) \/ ReconcileUnknown(d) \/ StopOnError(d)
        PROVE  Safe'
    <2>1. CASE Revalidate(d) \/ CheckInterlock(d) \/ DropLateResult(d) \/ StopOnError(d)
      BY <2>1, DispatcherMoves
    <2>2. CASE CallEffector(d)
      BY <2>2, CallKeeps
    <2>3. CASE Finalize(d)
      BY <2>3, FinalizeKeeps
    <2>4. CASE ReconcileUnknown(d)
      BY <2>4, ReconcileUnknownKeeps
    <2> QED
      BY <1>5, <2>1, <2>2, <2>3, <2>4
  <1> QED
    BY <1>1, <1>2, <1>3, <1>4, <1>5, StepCases, QuietKeeps

\* The runtime starts with an empty outbox, no dispatcher at work, nothing
\* called and nothing applied, and every step of every process keeps IInv.
THEOREM OutboxInvariance == Spec => []IInv
  <1>1. Init => IInv
    <2> SUFFICES ASSUME Init PROVE TypeOK
      BY SafeInit DEF IInv
    <2>1. OwnTypeOK
      BY NoEpochAssumption, RuntimesAssumption, Zenon DEF Init, OwnerInit, OwnTypeOK, OwnerTypeOK
    <2>2. RowTypeOK
      BY DEF Init, RowTypeOK, CommandStatuses, Outs
    <2>3. JobTypeOK
      <3>1. Idle \in Jobs
        BY DEF Idle, Jobs, Steps, Results
      <3> QED
        BY <3>1 DEF Init, JobTypeOK
    <2> QED
      BY <2>1, <2>2, <2>3, TypeParts
  <1>2. IInv /\ [Next]_vars => IInv'
    <2> SUFFICES ASSUME IInv, [Next]_vars PROVE TypeOK' /\ Safe'
      BY DEF IInv
    <2>1. TypeOK /\ JobsHeld
      BY DEF IInv, Safe
    <2>2. OwnTypeOK' /\ RowTypeOK' /\ JobTypeOK'
      BY <2>1, TypeParts, OwnTypeStep, RowTypeStep, JobTypeStep
    <2>3. TypeOK'
      BY <2>2, TypePartsNext
    <2> QED
      BY <2>3, SafeStep
  <1> QED
    BY <1>1, <1>2, PTL DEF Spec

\* Every variable of the outbox keeps its type: rows, jobs, leases and owner.
THEOREM OutboxTypes == Spec => []TypeOK
  <1>1. IInv => TypeOK
    BY DEF IInv
  <1> QED
    BY <1>1, OutboxInvariance, PTL

\* DispatchOnce never calls the effector twice for one command, whatever leases
\* expire, processes die or owners change: every lease is a first lease.
THEOREM CalledAtMostOnce == Spec => []EffectAtMostOnce
  <1>1. IInv => EffectAtMostOnce
    BY DEF IInv, Safe
  <1> QED
    BY <1>1, OutboxInvariance, PTL

\* Outbox row, command status, outcomes and verification of a command agree in
\* every state, whoever closed the dispatch.
THEOREM OneStory == Spec => []LedgersAgree
  <1>1. IInv => LedgersAgree
    BY DEF IInv, Safe
  <1> QED
    BY <1>1, OutboxInvariance, PTL

\* A command that no reconciliation closed is recorded succeeded only when its
\* effect was applied and failed only when it was not.
THEOREM RecordedAsHappened == Spec => []SettledTruthfully
  <1>1. IInv => SettledTruthfully
    BY DEF IInv, Safe, Truthful, Reconciled, SettledTruthfully
  <1> QED
    BY <1>1, OutboxInvariance, PTL

-----------------------------------------------------------------------------
(* What a step does to the row of a command: nothing, a move of an open     *)
(* row, or a reconciliation of an unresolved one.                           *)
RowMove(c) ==
    \/ cmd'[c] = cmd[c] /\ box'[c] = box[c] /\ outcomes'[c] = outcomes[c]
    \/ box[c] \in {"absent", "pending", "leased"}
    \/ /\ cmd[c] \in Unresolved /\ box'[c] = box[c]
       /\ outcomes'[c] = Append(outcomes[c], "reconciled")

\* A step on the row of c leaves the rows of the other commands alone.
LEMMA OneRowMoves ==
  ASSUME NEW c \in Commands, RowMove(c), \A x \in Commands \ {c} : SameRow(x)
  PROVE  \A x \in Commands : RowMove(x)
  BY DEF RowMove, SameRow

LEMMA ReconcileMoves ==
  ASSUME IInv, NEW c \in Commands, NEW fin \in FinalStatuses, Reconcile(c, fin), calls' = calls, applied' = applied
  PROVE  \A x \in Commands : RowMove(x)
  <1>1. RowMove(c)
    BY DEF Reconcile, RowMove, IInv, TypeOK
  <1> QED
    BY <1>1, ReconcileEffect, OneRowMoves

\* Only open rows are leased, failed unsent, abandoned or finalized.
LEMMA OpenRowMoves ==
  ASSUME IInv, NEW d \in Dispatchers, NEW c \in Commands,
         AcquireLease(d, c) \/ FailInvalidCommand(d, c) \/ AbandonExpiredLease(d, c)
  PROVE  \A x \in Commands : RowMove(x)
  <1>1. box[c] \in {"absent", "pending", "leased"}
    BY DEF AcquireLease, FailInvalidCommand, AbandonExpiredLease
  <1>2. \A x \in Commands \ {c} : cmd'[x] = cmd[x] /\ box'[x] = box[x] /\ outcomes'[x] = outcomes[x]
    BY DEF AcquireLease, FailInvalidCommand, AbandonExpiredLease, RecordFinalDispatch, IInv, TypeOK
  <1> QED
    BY <1>1, <1>2 DEF RowMove

LEMMA FinalizeMoves ==
  ASSUME IInv, NEW d \in Dispatchers, Finalize(d)
  PROVE  \A x \in Commands : RowMove(x)
  <1>1. PICK c \in Commands : c = work[d].cmd /\ box[c] = "leased"
    BY DEF Finalize, HoldsLease, IInv, Safe, JobsHeld
  <1>2. \A x \in Commands \ {c} : cmd'[x] = cmd[x] /\ box'[x] = box[x] /\ outcomes'[x] = outcomes[x]
    BY <1>1 DEF Finalize, RecordFinalDispatch, IInv, TypeOK
  <1> QED
    BY <1>1, <1>2 DEF RowMove

LEMMA RowsMove ==
  ASSUME IInv, [Next]_vars
  PROVE  \A c \in Commands : RowMove(c)
  <1>1. ASSUME cmd' = cmd, box' = box, outcomes' = outcomes PROVE \A c \in Commands : RowMove(c)
    BY <1>1 DEF RowMove
  <1>2. ASSUME NEW p \in Runtimes, NEW c \in Commands, Publish(p, c) PROVE \A x \in Commands : RowMove(x)
    <2>1. /\ box[c] = "absent" /\ outcomes' = outcomes
          /\ \A x \in Commands \ {c} : cmd'[x] = cmd[x] /\ box'[x] = box[x]
      BY <1>2, RowTypes DEF Publish, RowOK, IInv, TypeOK
    <2> QED
      BY <2>1 DEF RowMove
  <1>3. ASSUME NEW o \in Epochs, NEW c \in Commands, NEW fin \in FinalStatuses, Resolve(o, c, fin)
        PROVE  \A x \in Commands : RowMove(x)
    BY <1>3, ReconcileMoves DEF Resolve, worldVars
  <1>4. ASSUME NEW d \in Dispatchers, ReconcileUnknown(d) PROVE \A x \in Commands : RowMove(x)
    <2>1. PICK c \in Commands : c = work[d].cmd /\ work[d].fin \in FinalStatuses
      BY <1>4 DEF ReconcileUnknown, IInv, TypeOK, Safe, JobsHeld, Jobs
    <2> QED
      BY <1>4, <2>1, ReconcileMoves DEF ReconcileUnknown, worldVars
  <1>5. CASE Quiet
    BY <1>1, <1>5 DEF Quiet, outboxVars
  <1>6. ASSUME NEW d \in Dispatchers,
               Revalidate(d) \/ CheckInterlock(d) \/ CallEffector(d) \/ DropLateResult(d) \/ StopOnError(d)
        PROVE  \A x \in Commands : RowMove(x)
    BY <1>1, <1>6 DEF Revalidate, CheckInterlock, CallEffector, DropLateResult, StopOnError, outboxVars
  <1>7. ASSUME NEW p \in Runtimes, Crash(p) PROVE \A x \in Commands : RowMove(x)
    BY <1>1, <1>7 DEF Crash, outboxVars
  <1>8. ASSUME NEW c \in Commands, LeaseExpires(c) PROVE \A x \in Commands : RowMove(x)
    BY <1>1, <1>8 DEF LeaseExpires
  <1> QED
    BY <1>2, <1>3, <1>4, <1>5, <1>6, <1>7, <1>8, StepCases, OpenRowMoves, FinalizeMoves

\* A command a dispatch or a reconciliation settled keeps its status and its
\* outcomes, a closed row never opens again, and only a reconciliation moves an
\* unresolved command.
THEOREM SettledStaysSettled == Spec => SettledIsFinal
  <1>1. ASSUME IInv, [Next]_vars
        PROVE  [\A c \in Commands :
                  /\ cmd[c] \in {"succeeded", "failed"} => cmd'[c] = cmd[c] /\ outcomes'[c] = outcomes[c]
                  /\ box[c] \in {"delivered", "failed"} => box'[c] = box[c]
                  /\ cmd[c] \in Unresolved /\ cmd'[c] # cmd[c] =>
                        outcomes'[c] = Append(outcomes[c], "reconciled")]_vars
    <2> SUFFICES ASSUME NEW c \in Commands
                 PROVE  /\ cmd[c] \in {"succeeded", "failed"} => cmd'[c] = cmd[c] /\ outcomes'[c] = outcomes[c]
                        /\ box[c] \in {"delivered", "failed"} => box'[c] = box[c]
                        /\ cmd[c] \in Unresolved /\ cmd'[c] # cmd[c] =>
                              outcomes'[c] = Append(outcomes[c], "reconciled")
      OBVIOUS
    <2>1. RowMove(c) /\ RowOK(c)
      BY <1>1, RowsMove, RowTypes
    <2>2. box[c] \in {"absent", "pending", "leased"} => cmd[c] \in {"absent", "pending", "dispatching"}
      BY <2>1 DEF RowOK
    <2> QED
      BY <2>1, <2>2 DEF RowMove, Unresolved
  <1> QED
    BY <1>1, OutboxInvariance, PTL DEF Spec, SettledIsFinal
=============================================================================
