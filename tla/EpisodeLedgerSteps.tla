------------------------ MODULE EpisodeLedgerSteps ------------------------
(***************************************************************************)
(* The inductive invariant of the episode ledger, the proof that every     *)
(* step keeps the types of its tables, and the proof that the steps that   *)
(* start, kill, publish, admit and quarantine keep the invariant.          *)
(***************************************************************************)
EXTENDS EpisodeLedger, TLAPS

\* An attempt row belongs to an admitted episode, the current attempt of an
\* episode is one of its rows, and an episode without an admission has neither
\* an attempt nor a reservation.
RowsRecorded ==
    /\ \A a \in Attempts : att[a].st # "absent" =>
         /\ att[a].ep \in Items
         /\ att[a].owner \in Runtimes
         /\ ep[att[a].ep].life # "absent"
    /\ \A e \in Items : ep[e].life = "absent" => cost[e] = "none" /\ ep[e].cur = NoAttempt
    /\ \A e \in Items : cost[e] = "none" => ep[e].life = "absent"
    /\ \A e \in Items : ep[e].cur # NoAttempt => att[ep[e].cur].ep = e /\ att[ep[e].cur].st # "absent"

\* A runner executes a recorded attempt; an admission loop holds a queued item.
InMemory ==
    /\ \A r \in Runners : work[r] # NoClaim => work[r].ep \in Items /\ work[r].att \in Attempts
    /\ \A p \in Runtimes : adm[p].step # "idle" => adm[p].item \in Items

\* A live episode still has its reservation.
LiveReserved == \A e \in Items : Live(e) => cost[e] = "reserved"

\* A live episode of a killed epoch, admitted by a transaction that began
\* before the kill or retained for a retry, has no attempt in flight.
KilledIdle ==
    \A e \in Items : Live(e) /\ Killed(e) => \A a \in Attempts : Unfinished(a) => att[a].ep # e

\* What the proofs carry besides the types.
Safe ==
    /\ RowsRecorded
    /\ InMemory
    /\ AttemptFencing
    /\ RecoveryComplete
    /\ OneDecision
    /\ LiveReserved
    /\ KilledIdle
    /\ ReservationHeld
    /\ OneLiveEpisode

IInv == TypeOK /\ Safe
----------------------------------------------------------------------------
(* Types. *)

\* The steps that write no row of episodes, attempts, decisions or reservations.
Bookkeeping ==
    \/ \E p \in Runtimes : \/ Renew(p) \/ Crash(p) \/ Poll(p) \/ RefuseAdmission(p)
                           \/ SkipItem(p) \/ GiveUpAdmission(p) \/ Drain(p)
                           \/ \E i \in Items : ExpireItem(p, i)
    \/ \E o \in Epochs : OperatorClaim(o)
    \/ LeaseEnds
    \/ \E r \in Runners : RefuseResult(r)
    \/ UNCHANGED vars

USE DEF LiveLifecycles, ClosedLifecycles, UnfinishedStatuses, FailureStatuses, TerminalStatuses

LEMMA RowUpdate ==
  ASSUME NEW row \in Rows, NEW s \in UnfinishedStatuses \cup TerminalStatuses
  PROVE  [row EXCEPT !.st = s] \in Rows
  BY DEF Rows

LEMMA LifeUpdate ==
  ASSUME NEW row \in Episodes, NEW l \in LiveLifecycles \cup ClosedLifecycles
  PROVE  [row EXCEPT !.life = l] \in Episodes
  BY DEF Episodes, Lifecycles

LEMMA RebindUpdate ==
  ASSUME NEW row \in Episodes, NEW n \in Nat
  PROVE  [row EXCEPT !.life = "abandoned", !.rebinds = n] \in Episodes
  BY Zenon DEF Episodes, Lifecycles

LEMMA FenceUpdate ==
  ASSUME NEW row \in Episodes, NEW a \in Attempts, NEW f \in Nat, NEW n \in Nat
  PROVE  [row EXCEPT !.life = "running", !.cur = a, !.fence = f, !.rebinds = n] \in Episodes
  BY Zenon DEF Episodes, Lifecycles

LEMMA TypeInit == Init => TypeOK
  <1> SUFFICES ASSUME Init PROVE TypeOK
    OBVIOUS
  <1>1. ep \in [Items -> Episodes]
    BY DEF Init, NoEpisode, Episodes, Lifecycles
  <1>2. att \in [Attempts -> Rows]
    BY DEF Init, NoRow, Rows
  <1>3. adm \in [Runtimes -> Polls] /\ work \in [Runners -> Claims]
    BY DEF Init, NoClaim, Idle, Claims, Polls
  <1>4. decided \in [Items -> SUBSET Attempts]
    BY DEF Init
  <1>5. OwnerTypeOK
    BY Zenon DEF Init, OwnerInit, OwnerTypeOK
  <1> QED
    BY <1>1, <1>2, <1>3, <1>4, <1>5 DEF Init, TypeOK

\* Lease, process, control and queue steps keep the types.
LEMMA TypeBookkeeping == TypeOK /\ Bookkeeping => TypeOK'
  <1> SUFFICES ASSUME TypeOK, Bookkeeping PROVE TypeOK'
    OBVIOUS
  <1> USE RuntimesAssumption DEF TypeOK, OwnerTypeOK, ledgerVars
  <1>1. ASSUME NEW p \in Runtimes, Renew(p) PROVE TypeOK'
    BY <1>1 DEF Renew, Take
  <1>2. ASSUME NEW p \in Runtimes, Crash(p) PROVE TypeOK'
    BY <1>2 DEF Crash, Idle, Polls, NoClaim, Claims
  <1>3. ASSUME NEW p \in Runtimes, Poll(p) PROVE TypeOK'
    BY <1>3 DEF Poll, Polls
  <1>4. ASSUME NEW p \in Runtimes, RefuseAdmission(p) PROVE TypeOK'
    BY <1>4 DEF RefuseAdmission, Polls
  <1>5. ASSUME NEW p \in Runtimes, SkipItem(p) PROVE TypeOK'
    BY Zenon, <1>5 DEF SkipItem, Polls, Idle
  <1>6. ASSUME NEW p \in Runtimes, GiveUpAdmission(p) PROVE TypeOK'
    BY <1>6 DEF GiveUpAdmission, Polls, Idle
  <1>7. ASSUME NEW p \in Runtimes, Drain(p) PROVE TypeOK'
    BY <1>7 DEF Drain
  <1>8. ASSUME NEW p \in Runtimes, NEW i \in Items, ExpireItem(p, i) PROVE TypeOK'
    BY <1>8 DEF ExpireItem
  <1>9. ASSUME NEW o \in Epochs, OperatorClaim(o) PROVE TypeOK'
    BY <1>9 DEF OperatorClaim, Take
  <1>10. CASE LeaseEnds
    BY Zenon, <1>10 DEF LeaseEnds, Lapse
  <1>11. ASSUME NEW r \in Runners, RefuseResult(r) PROVE TypeOK'
    BY <1>11 DEF RefuseResult, NoClaim, Claims
  <1>12. CASE UNCHANGED vars
    BY <1>12 DEF vars
  <1> QED
    BY <1>1, <1>2, <1>3, <1>4, <1>5, <1>6, <1>7, <1>8, <1>9, <1>10, <1>11, <1>12 DEF Bookkeeping

\* Every other step: claims of the lease, admissions, claims of episodes, results.
LEMMA TypeStep == TypeOK /\ InMemory /\ [Next]_vars => TypeOK'
  <1> SUFFICES ASSUME TypeOK, InMemory, [Next]_vars PROVE TypeOK'
    OBVIOUS
  <1>0. /\ ep \in [Items -> Episodes] /\ att \in [Attempts -> Rows]
        /\ work \in [Runners -> Claims]
        /\ \A e \in Items : ep[e].rebinds \in Nat /\ ep[e].fence \in Nat
    BY DEF TypeOK, Episodes
  <1>1. ASSUME NEW p \in Runtimes, Start(p) PROVE TypeOK'
    <2>1. att' \in [Attempts -> Rows]
      BY Zenon, <1>0, <1>1, RowUpdate DEF Start, RecoverUnfinishedAttempts
    <2>2. ep' \in [Items -> Episodes]
      BY Zenon, <1>0, <1>1, LifeUpdate DEF Start, RecoverUnfinishedAttempts
    <2> QED
      BY <1>1, <2>1, <2>2, RuntimesAssumption
         DEF Start, Take, RecoverUnfinishedAttempts, TypeOK, OwnerTypeOK
  <1>2. ASSUME NEW p \in Runtimes, Kill(p) PROVE TypeOK'
    <2>1. ep' \in [Items -> Episodes]
      BY Zenon, <1>0, <1>2, LifeUpdate DEF Kill
    <2> QED
      BY <1>2, <2>1 DEF Kill, TypeOK, OwnerTypeOK
  <1>3. ASSUME NEW p \in Runtimes, NEW s, NEW new \in SUBSET Items, Publish(p, s, new) PROVE TypeOK'
    <2>1. att' \in [Attempts -> Rows]
      BY Zenon, <1>0, <1>3, RowUpdate DEF Publish
    <2>2. ep' \in [Items -> Episodes]
      BY Zenon, <1>0, <1>3, LifeUpdate DEF Publish
    <2> QED
      BY <1>3, <2>1, <2>2 DEF Publish, TypeOK, OwnerTypeOK
  <1>4. ASSUME NEW p \in Runtimes, Admit(p) PROVE TypeOK'
    <2>1. ep' \in [Items -> Episodes]
      BY Zenon, <1>4 DEF Admit, TypeOK, Episodes, Lifecycles, NoEpisode
    <2>2. adm' \in [Runtimes -> Polls]
      BY <1>4 DEF Admit, TypeOK, Polls, Idle
    <2>3. order' \in Seq(Items)
      BY <1>4 DEF Admit, TypeOK, InMemory
    <2> QED
      BY <1>4, <2>1, <2>2, <2>3 DEF Admit, TypeOK, OwnerTypeOK
  <1>5. ASSUME NEW r \in Runners, NEW e \in Items,
               QuarantineStale(r, e) \/ QuarantineRebindFailure(r, e) \/ QuarantineRefusedEpoch(r, e)
        PROVE  TypeOK'
    <2>1. BoundRebinds(e) \in Nat
      BY <1>0 DEF BoundRebinds
    <2>2. ep' = [ep EXCEPT ![e].life = "abandoned"]
          \/ ep' = [ep EXCEPT ![e].life = "abandoned", ![e].rebinds = BoundRebinds(e)]
      BY <1>5 DEF QuarantineStale, QuarantineRebindFailure, QuarantineRefusedEpoch
    <2>3. ep' \in [Items -> Episodes]
      <3>1. CASE ep' = [ep EXCEPT ![e].life = "abandoned"]
        BY Zenon, <1>0, <3>1, LifeUpdate
      <3>2. CASE ep' = [ep EXCEPT ![e].life = "abandoned", ![e].rebinds = BoundRebinds(e)]
        <4>1. [ep[e] EXCEPT !.life = "abandoned", !.rebinds = BoundRebinds(e)] \in Episodes
          BY Zenon, <1>0, <2>1, RebindUpdate
        <4> QED
          BY <1>0, <3>2, <4>1
      <3> QED
        BY <2>2, <3>1, <3>2
    <2> QED
      BY <1>5, <2>3 DEF QuarantineStale, QuarantineRebindFailure, QuarantineRefusedEpoch,
                        TypeOK, OwnerTypeOK
  <1>6. ASSUME NEW r \in Runners, NEW e \in Items, NEW a \in Attempts, StartAttempt(r, e, a)
        PROVE  TypeOK'
    <2>1. BoundRebinds(e) \in Nat
      BY <1>0 DEF BoundRebinds
    <2>2. ep' \in [Items -> Episodes]
      <3>1. ep' = [ep EXCEPT ![e].life = "running", ![e].cur = a, ![e].fence = ep[e].fence + 1,
                             ![e].rebinds = BoundRebinds(e)]
        BY <1>6 DEF StartAttempt
      <3>2. ep[e] \in Episodes /\ ep[e].fence + 1 \in Nat
        BY <1>0
      <3> QED
        BY Zenon, <1>0, <2>1, <3>1, <3>2, FenceUpdate
    <2>3. att' \in [Attempts -> Rows]
      <3>1. att' = [att EXCEPT ![a] = [st |-> "running", ep |-> e, fence |-> ep[e].fence + 1,
                                       owner |-> RunnerOf[r]]]
        BY <1>6 DEF StartAttempt
      <3>2. [st |-> "running", ep |-> e, fence |-> ep[e].fence + 1, owner |-> RunnerOf[r]] \in Rows
        BY <1>0, RunnersAssumption DEF Rows
      <3> QED
        BY <1>0, <3>1, <3>2
    <2>4. work' \in [Runners -> Claims]
      BY <1>0, <1>6 DEF StartAttempt, Claims
    <2> QED
      BY <1>6, <2>2, <2>3, <2>4 DEF StartAttempt, TypeOK, OwnerTypeOK
  <1>7. ASSUME NEW r \in Runners, NEW s \in FailureStatuses, RecordFailure(r, s) PROVE TypeOK'
    <2> DEFINE c == work[r]
    <2>1. c.ep \in Items /\ c.att \in Attempts
      BY <1>7 DEF RecordFailure, InMemory
    <2>2. \/ ep' = [ep EXCEPT ![c.ep].life = "running"]
          \/ ep' = [ep EXCEPT ![c.ep].life = "concluded"]
          \/ ep' = ep
      BY <1>7 DEF RecordFailure
    <2>3. ep' \in [Items -> Episodes]
      <3>1. CASE ep' = [ep EXCEPT ![c.ep].life = "running"]
        BY Zenon, <1>0, <2>1, <3>1, LifeUpdate
      <3>2. CASE ep' = [ep EXCEPT ![c.ep].life = "concluded"]
        BY Zenon, <1>0, <2>1, <3>2, LifeUpdate
      <3> QED
        BY <1>0, <2>2, <3>1, <3>2
    <2>4. att' = [att EXCEPT ![c.att].st = s] /\ work' = [work EXCEPT ![r] = NoClaim]
      BY <1>7 DEF RecordFailure
    <2>5. att' \in [Attempts -> Rows]
      BY Zenon, <1>0, <2>1, <2>4, RowUpdate
    <2>6. work' \in [Runners -> Claims]
      BY <1>0, <2>4 DEF Claims, NoClaim
    <2> QED
      BY <1>7, <2>3, <2>5, <2>6 DEF RecordFailure, TypeOK, OwnerTypeOK
  <1>8. ASSUME NEW r \in Runners, NEW s \in OutcomeStatuses, NEW actual \in Actuals,
               RecordOutcome(r, s, actual)
        PROVE  TypeOK'
    <2> DEFINE c == work[r]
    <2>1. c.ep \in Items /\ c.att \in Attempts
      BY <1>8 DEF RecordOutcome, InMemory
    <2>2. /\ ep' = [ep EXCEPT ![c.ep].life = "concluded"]
          /\ att' = [att EXCEPT ![c.att].st = s]
          /\ work' = [work EXCEPT ![r] = NoClaim]
      BY <1>8 DEF RecordOutcome
    <2>3. ep' \in [Items -> Episodes]
      BY Zenon, <1>0, <2>1, <2>2, LifeUpdate
    <2>4. att' \in [Attempts -> Rows]
      BY Zenon, <1>0, <2>1, <2>2, RowUpdate DEF OutcomeStatuses
    <2>5. work' \in [Runners -> Claims]
      BY <1>0, <2>2 DEF Claims, NoClaim
    <2>6. decided' \in [Items -> SUBSET Attempts]
      BY <1>8, <2>1 DEF RecordOutcome, TypeOK
    <2> QED
      BY <1>8, <2>3, <2>4, <2>5, <2>6 DEF RecordOutcome, Actuals, TypeOK, OwnerTypeOK
  <1>9. ASSUME NEW r \in Runners, NEW actual \in Actuals, AbandonAfterExecute(r, actual)
        PROVE  TypeOK'
    <2> DEFINE c == work[r]
    <2>1. c.ep \in Items /\ c.att \in Attempts
      BY <1>9 DEF AbandonAfterExecute, InMemory
    <2>2. /\ ep' = [ep EXCEPT ![c.ep].life = "abandoned"]
          /\ att' = [att EXCEPT ![c.att].st = "abandoned"]
          /\ work' = [work EXCEPT ![r] = NoClaim]
      BY <1>9 DEF AbandonAfterExecute
    <2>3. ep' \in [Items -> Episodes]
      BY Zenon, <1>0, <2>1, <2>2, LifeUpdate
    <2>4. att' \in [Attempts -> Rows]
      BY Zenon, <1>0, <2>1, <2>2, RowUpdate
    <2>5. work' \in [Runners -> Claims]
      BY <1>0, <2>2 DEF Claims, NoClaim
    <2> QED
      BY <1>9, <2>3, <2>4, <2>5 DEF AbandonAfterExecute, Actuals, TypeOK, OwnerTypeOK
  <1>10. CASE Bookkeeping
    BY <1>10, TypeBookkeeping
  <1> QED
    BY <1>1, <1>2, <1>3, <1>4, <1>5, <1>6, <1>7, <1>8, <1>9, <1>10
       DEF Next, Work, Serve, AdmissionLoop, ClaimEpisode, RecordExecution, Bookkeeping

-----------------------------------------------------------------------------
(* Each kind of step keeps the invariant. *)

LEMMA SafeInit == Init => Safe
  <1> SUFFICES ASSUME Init PROVE Safe
    OBVIOUS
  <1>1. /\ \A a \in Attempts : att[a].st = "absent"
        /\ \A e \in Items : /\ ep[e].life = "absent" /\ ep[e].cur = NoAttempt
                            /\ cost[e] = "none" /\ decided[e] = {}
        /\ \A r \in Runners : work[r] = NoClaim
        /\ \A p \in Runtimes : adm[p].step = "idle"
    BY DEF Init, NoEpisode, NoRow, Idle
  <1> QED
    BY <1>1 DEF Safe, RowsRecorded, InMemory, AttemptFencing, RecoveryComplete, OneDecision,
                LiveReserved, KilledIdle, ReservationHeld, OneLiveEpisode, Live, Unfinished, AttemptsOf

\* What Bookkeeping leaves alone.
LEMMA BookkeepingEffect ==
  ASSUME TypeOK, Bookkeeping
  PROVE  /\ UNCHANGED <<ep, att, decided, cost>>
         /\ owner' = owner \/ owner' \notin Runtimes
         /\ \A p \in Runtimes : control'[p] = "killed" => control[p] = "killed"
  <1>1. UNCHANGED <<ep, att, decided, cost>>
    BY DEF Bookkeeping, ledgerVars, vars, Renew, Crash, Poll, RefuseAdmission, SkipItem,
           GiveUpAdmission, Drain, ExpireItem, OperatorClaim, LeaseEnds, RefuseResult
  <1>2. owner' = owner \/ owner' \notin Runtimes
    BY DEF Bookkeeping, ledgerVars, vars, Renew, Crash, Poll, RefuseAdmission, SkipItem,
           GiveUpAdmission, Drain, ExpireItem, OperatorClaim, LeaseEnds, RefuseResult, Take, Lapse
  <1>3. \A p \in Runtimes : control'[p] = "killed" => control[p] = "killed"
    <2> SUFFICES ASSUME NEW p \in Runtimes, control'[p] = "killed" PROVE control[p] = "killed"
      OBVIOUS
    <2>1. ASSUME NEW q \in Runtimes, Drain(q) PROVE control[p] = "killed"
      BY <2>1 DEF Drain, TypeOK
    <2>2. CASE UNCHANGED control
      BY <2>2
    <2> QED
      BY <2>1, <2>2
         DEF Bookkeeping, ledgerVars, vars, Renew, Crash, Poll, RefuseAdmission, SkipItem,
             GiveUpAdmission, ExpireItem, OperatorClaim, LeaseEnds, RefuseResult
  <1> QED
    BY <1>1, <1>2, <1>3

LEMMA BookkeepingKeepsInMemory == TypeOK /\ InMemory /\ Bookkeeping => InMemory'
  <1> SUFFICES ASSUME TypeOK, InMemory, Bookkeeping PROVE InMemory'
    OBVIOUS
  <1>1. ASSUME NEW p \in Runtimes, Crash(p) PROVE InMemory'
    BY <1>1 DEF Crash, InMemory, TypeOK, Idle
  <1>2. ASSUME NEW p \in Runtimes, Poll(p) PROVE InMemory'
    BY <1>2 DEF Poll, InMemory, TypeOK
  <1>3. ASSUME NEW p \in Runtimes, RefuseAdmission(p) PROVE InMemory'
    BY <1>3 DEF RefuseAdmission, InMemory, TypeOK, Polls
  <1>4. ASSUME NEW p \in Runtimes, SkipItem(p) \/ GiveUpAdmission(p) PROVE InMemory'
    BY <1>4 DEF SkipItem, GiveUpAdmission, InMemory, TypeOK, Idle
  <1>5. ASSUME NEW r \in Runners, RefuseResult(r) PROVE InMemory'
    BY <1>5 DEF RefuseResult, InMemory, TypeOK
  <1>6. CASE UNCHANGED <<adm, work>>
    BY <1>6 DEF InMemory
  <1> QED
    BY <1>1, <1>2, <1>3, <1>4, <1>5, <1>6
       DEF Bookkeeping, vars, Renew, Drain, ExpireItem, OperatorClaim, LeaseEnds

LEMMA BookkeepingKeeps == IInv /\ Bookkeeping => Safe'
  <1> SUFFICES ASSUME TypeOK, Safe, Bookkeeping PROVE Safe'
    BY DEF IInv
  <1>1. /\ UNCHANGED <<ep, att, decided, cost>>
        /\ owner' = owner \/ owner' \notin Runtimes
        /\ \A p \in Runtimes : control'[p] = "killed" => control[p] = "killed"
    BY BookkeepingEffect
  <1>2. InMemory'
    BY BookkeepingKeepsInMemory DEF Safe
  <1>3. RowsRecorded' /\ AttemptFencing' /\ OneDecision' /\ LiveReserved' /\ ReservationHeld' /\ OneLiveEpisode'
    BY <1>1 DEF Safe, RowsRecorded, AttemptFencing, OneDecision, LiveReserved, ReservationHeld,
                OneLiveEpisode, Live, Unfinished, AttemptsOf
  <1>4. RecoveryComplete'
    BY <1>1 DEF Safe, RecoveryComplete, Unfinished
  <1>5. KilledIdle'
    BY <1>1 DEF Safe, KilledIdle, Killed, Live, Unfinished
  <1> QED
    BY <1>2, <1>3, <1>4, <1>5 DEF Safe

\* Claiming the lease abandons what older owners left unfinished.
LEMMA StartKeeps == ASSUME IInv, NEW p \in Runtimes, Start(p) PROVE Safe'
  <1>0. /\ TypeOK /\ RowsRecorded /\ InMemory /\ AttemptFencing /\ RecoveryComplete /\ OneDecision
        /\ LiveReserved /\ KilledIdle /\ ReservationHeld /\ OneLiveEpisode
    BY DEF IInv, Safe
  <1>1. \A a \in Attempts :
          /\ att'[a].ep = att[a].ep /\ att'[a].fence = att[a].fence /\ att'[a].owner = att[a].owner
          /\ att'[a].st = IF a \in OrphansOf(p) THEN "abandoned" ELSE att[a].st
    BY <1>0 DEF Start, RecoverUnfinishedAttempts, TypeOK, Rows
  <1>2. \A e \in Items :
          /\ ep'[e].cur = ep[e].cur /\ ep'[e].fence = ep[e].fence /\ ep'[e].epoch = ep[e].epoch
          /\ ep'[e].life = IF e \in CancelledBy(p) /\ ~Closed(e) THEN "abandoned" ELSE ep[e].life
          /\ cost'[e] = IF e \in CancelledBy(p) THEN "released" ELSE cost[e]
    BY <1>0 DEF Start, RecoverUnfinishedAttempts, TypeOK, Episodes
  <1>3. owner' = p /\ UNCHANGED <<control, decided, adm, work>>
    BY DEF Start, Take
  <1>4. \A a \in Attempts : Unfinished(a)' <=> Unfinished(a) /\ att[a].owner = p
    BY <1>1 DEF OrphansOf, Unfinished
  <1>5. \A e \in Items : Live(e)' => Live(e) /\ e \notin CancelledBy(p)
    BY <1>2 DEF Live, Closed
  <1>6. \A e \in CancelledBy(p) : \E a \in Attempts : Unfinished(a) /\ att[a].owner # p /\ att[a].ep = e
    BY DEF CancelledBy, OrphansOf
  <1>7. RowsRecorded'
    <2>1. \A e \in CancelledBy(p) : e \in Items /\ ep[e].life # "absent"
      BY <1>0, <1>6 DEF RowsRecorded, Unfinished
    <2>2. \A a \in Attempts : att'[a].st # "absent" <=> att[a].st # "absent"
      BY <1>1 DEF OrphansOf, Unfinished
    <2>3. \A e \in Items : ep'[e].life = "absent" <=> ep[e].life = "absent"
      BY <1>2, <2>1
    <2>4. \A e \in Items : ep[e].cur \in Attempts \cup {NoAttempt}
      BY <1>0 DEF TypeOK, Episodes
    <2> QED
      BY <1>0, <1>1, <1>2, <2>1, <2>2, <2>3, <2>4 DEF RowsRecorded
  <1>8. InMemory'
    BY <1>0, <1>3 DEF InMemory
  <1>9. AttemptFencing'
    BY <1>0, <1>1, <1>2, <1>4 DEF AttemptFencing
  <1>10. RecoveryComplete'
    BY <1>1, <1>3, <1>4 DEF RecoveryComplete
  <1>11. OneDecision'
    <2>1. \A e \in Items : ep[e].life = "concluded" => ep'[e].life = "concluded"
      BY <1>2 DEF Closed
    <2>2. \A a \in Attempts : att[a].st = "produced" => att'[a].st = "produced"
      BY <1>1 DEF OrphansOf, Unfinished
    <2>3. \A e \in Items : decided[e] \subseteq Attempts
      BY <1>0 DEF TypeOK
    <2> QED
      BY <1>0, <1>2, <1>3, <2>1, <2>2, <2>3 DEF OneDecision
  <1>12. LiveReserved'
    BY <1>0, <1>2, <1>5 DEF LiveReserved
  <1>13. KilledIdle'
    BY <1>0, <1>1, <1>2, <1>3, <1>4, <1>5 DEF KilledIdle, Killed
  <1>14. ReservationHeld'
    <2>1. ASSUME NEW e \in Items, NEW a \in Attempts, Unfinished(a)', att[a].ep = e
          PROVE  e \notin CancelledBy(p)
      BY <1>0, <1>4, <1>6, <2>1 DEF AttemptFencing
    <2>2. \A e \in Items : ep'[e].life = "concluded" => ep[e].life = "concluded"
      BY <1>2
    <2>3. \A e \in Items : (\E a \in Attempts : Unfinished(a)' /\ att'[a].ep = e) => cost'[e] = "reserved"
      BY <1>0, <1>1, <1>2, <1>4, <2>1 DEF ReservationHeld, AttemptsOf, Unfinished
    <2> QED
      BY <1>0, <1>2, <2>2, <2>3 DEF ReservationHeld, AttemptsOf, Actuals
  <1>15. OneLiveEpisode'
    BY <1>0, <1>5 DEF OneLiveEpisode
  <1> QED
    BY <1>7, <1>8, <1>9, <1>10, <1>11, <1>12, <1>13, <1>14, <1>15 DEF Safe

\* A kill closes the live episodes of its epoch and releases the unstarted ones.
LEMMA KillKeeps == ASSUME IInv, NEW p \in Runtimes, Kill(p) PROVE Safe'
  <1>0. /\ TypeOK /\ RowsRecorded /\ InMemory /\ AttemptFencing /\ RecoveryComplete /\ OneDecision
        /\ LiveReserved /\ KilledIdle /\ ReservationHeld /\ OneLiveEpisode
    BY DEF IInv, Safe
  <1>1. \A e \in Items :
          /\ ep'[e].cur = ep[e].cur /\ ep'[e].fence = ep[e].fence /\ ep'[e].epoch = ep[e].epoch
          /\ ep'[e].life = IF ep[e].epoch = p /\ Live(e) THEN "superseded" ELSE ep[e].life
          /\ cost'[e] = IF e \in UnstartedReserved(p) THEN "released" ELSE cost[e]
    BY <1>0 DEF Kill, TypeOK, Episodes
  <1>2. /\ UNCHANGED <<owner, att, decided, adm, work>>
        /\ \A q \in Runtimes : q # p => control'[q] = control[q]
    BY <1>0 DEF Kill, TypeOK
  <1>3. \A e \in Items : Live(e)' => Live(e) /\ ep[e].epoch # p
    BY <1>1 DEF Live
  <1>4. \A e \in UnstartedReserved(p) : ep[e].epoch = p /\ Live(e) /\ ep[e].cur = NoAttempt
    BY DEF UnstartedReserved, Live
  <1>5. RowsRecorded'
    BY <1>0, <1>1, <1>2, <1>4 DEF RowsRecorded, Live
  <1>6. InMemory' /\ RecoveryComplete'
    BY <1>0, <1>2 DEF InMemory, RecoveryComplete, Unfinished
  <1>7. AttemptFencing'
    BY <1>0, <1>1, <1>2 DEF AttemptFencing, Unfinished
  <1>8. OneDecision'
    BY <1>0, <1>1, <1>2 DEF OneDecision, Live
  <1>9. LiveReserved'
    BY <1>0, <1>1, <1>3, <1>4 DEF LiveReserved
  <1>10. KilledIdle'
    BY <1>0, <1>1, <1>2, <1>3 DEF KilledIdle, Killed, Unfinished
  <1>11. ReservationHeld'
    <2>1. ASSUME NEW a \in Attempts, Unfinished(a) PROVE att[a].ep \notin UnstartedReserved(p)
      BY <1>0, <1>4, <2>1, AttemptsAssumption DEF AttemptFencing
    <2> QED
      BY <1>0, <1>1, <1>2, <1>4, <2>1 DEF ReservationHeld, AttemptsOf, Unfinished, Live
  <1>12. OneLiveEpisode'
    BY <1>0, <1>3 DEF OneLiveEpisode
  <1> QED
    BY <1>5, <1>6, <1>7, <1>8, <1>9, <1>10, <1>11, <1>12 DEF Safe

\* Publishing a version closes live episodes and asks their attempts to cancel.
LEMMA PublishKeeps ==
  ASSUME IInv, NEW p \in Runtimes, NEW s, NEW new \in SUBSET Items, Publish(p, s, new)
  PROVE  Safe'
  <1>0. /\ TypeOK /\ RowsRecorded /\ InMemory /\ AttemptFencing /\ RecoveryComplete /\ OneDecision
        /\ LiveReserved /\ KilledIdle /\ ReservationHeld /\ OneLiveEpisode
    BY DEF IInv, Safe
  <1>1. \A e \in Items :
          /\ ep'[e].cur = ep[e].cur /\ ep'[e].fence = ep[e].fence /\ ep'[e].epoch = ep[e].epoch
          /\ ep'[e].life = ep[e].life \/ (Live(e) /\ ep'[e].life = "superseded")
    BY <1>0 DEF Publish, TypeOK, Episodes
  <1>2. \A a \in Attempts :
          /\ att'[a].ep = att[a].ep /\ att'[a].fence = att[a].fence /\ att'[a].owner = att[a].owner
          /\ att'[a].st = att[a].st
               \/ (att[a].st \in {"dispatched", "running"} /\ att'[a].st = "cancelling")
    BY <1>0 DEF Publish, TypeOK, Rows
  <1>3. UNCHANGED <<owner, control, decided, cost, adm, work>>
    BY DEF Publish
  <1>4. \A a \in Attempts : Unfinished(a)' <=> Unfinished(a)
    BY <1>2 DEF Unfinished
  <1>5. \A e \in Items : Live(e)' => Live(e)
    BY <1>1 DEF Live
  <1>6. RowsRecorded'
    <2>1. \A a \in Attempts : att'[a].st # "absent" <=> att[a].st # "absent"
      BY <1>2
    <2>2. \A e \in Items : ep'[e].life = "absent" <=> ep[e].life = "absent"
      BY <1>1 DEF Live
    <2>3. \A e \in Items : ep[e].cur \in Attempts \cup {NoAttempt}
      BY <1>0 DEF TypeOK, Episodes
    <2> QED
      BY <1>0, <1>1, <1>2, <1>3, <2>1, <2>2, <2>3 DEF RowsRecorded
  <1>7. InMemory'
    BY <1>0, <1>3 DEF InMemory
  <1>8. RecoveryComplete'
    BY <1>0, <1>2, <1>3, <1>4 DEF RecoveryComplete
  <1>9. AttemptFencing'
    BY <1>0, <1>1, <1>2, <1>4 DEF AttemptFencing
  <1>10. OneDecision'
    <2>1. \A e \in Items : decided[e] \subseteq Attempts
      BY <1>0 DEF TypeOK
    <2> QED
      BY <1>0, <1>1, <1>2, <1>3, <2>1 DEF OneDecision, Live
  <1>11. LiveReserved'
    BY <1>0, <1>3, <1>5 DEF LiveReserved
  <1>12. KilledIdle'
    BY <1>0, <1>1, <1>2, <1>3, <1>4, <1>5 DEF KilledIdle, Killed
  <1>13. ReservationHeld'
    <2>1. \A e \in Items : ep'[e].life = "concluded" => ep[e].life = "concluded"
      BY <1>1
    <2>2. \A e \in Items : (\E a \in Attempts : Unfinished(a)' /\ att'[a].ep = e) => cost'[e] = "reserved"
      BY <1>0, <1>2, <1>3, <1>4 DEF ReservationHeld, AttemptsOf, Unfinished
    <2> QED
      BY <1>0, <1>3, <2>1, <2>2 DEF ReservationHeld, AttemptsOf
  <1>14. OneLiveEpisode'
    BY <1>0, <1>5 DEF OneLiveEpisode
  <1> QED
    BY <1>6, <1>7, <1>8, <1>9, <1>10, <1>11, <1>12, <1>13, <1>14 DEF Safe

\* An admission writes the first row of an episode, with its reservation.
LEMMA AdmitKeeps == ASSUME IInv, NEW p \in Runtimes, Admit(p) PROVE Safe'
  <1>0. /\ TypeOK /\ RowsRecorded /\ InMemory /\ AttemptFencing /\ RecoveryComplete /\ OneDecision
        /\ LiveReserved /\ KilledIdle /\ ReservationHeld /\ OneLiveEpisode
    BY DEF IInv, Safe
  <1> DEFINE i == adm[p].item
  <1>1. i \in Items /\ cost[i] = "none" /\ ep[i].life = "absent" /\ MayBeLive(i)
    BY <1>0 DEF Admit, InMemory, RowsRecorded
  <1>2. /\ ep'[i].life = "admitted" /\ ep'[i].cur = NoAttempt /\ cost'[i] = "reserved"
        /\ \A e \in Items : e # i => ep'[e] = ep[e] /\ cost'[e] = cost[e]
    BY <1>0, <1>1 DEF Admit, TypeOK, NoEpisode
  <1>3. UNCHANGED <<owner, control, att, decided, work>>
    BY DEF Admit
  <1>4. \A a \in Attempts : att[a].st # "absent" => att[a].ep \in Items /\ att[a].ep # i
    BY <1>0, <1>1 DEF RowsRecorded
  <1>5. RowsRecorded'
    BY <1>0, <1>1, <1>2, <1>3, <1>4 DEF RowsRecorded
  <1>6. InMemory'
    BY <1>0 DEF Admit, InMemory, TypeOK, Idle
  <1>7. AttemptFencing' /\ RecoveryComplete'
    BY <1>0, <1>2, <1>3, <1>4 DEF AttemptFencing, RecoveryComplete, Unfinished
  <1>8. OneDecision'
    BY <1>0, <1>1, <1>2, <1>3 DEF OneDecision
  <1>9. LiveReserved'
    BY <1>0, <1>1, <1>2 DEF LiveReserved, Live
  <1>10. KilledIdle'
    BY <1>0, <1>2, <1>3, <1>4 DEF KilledIdle, Killed, Live, Unfinished
  <1>11. ReservationHeld'
    BY <1>0, <1>2, <1>3, <1>4 DEF ReservationHeld, AttemptsOf, Unfinished
  <1>12. OneLiveEpisode'
    BY <1>0, <1>1, <1>2 DEF OneLiveEpisode, MayBeLive, Live
  <1> QED
    BY <1>5, <1>6, <1>7, <1>8, <1>9, <1>10, <1>11, <1>12 DEF Safe

\* A quarantine abandons one dispatchable episode; only one without an attempt
\* in flight loses its reservation.
LEMMA QuarantineKeeps ==
  ASSUME IInv, NEW r \in Runners, NEW e \in Items,
         QuarantineStale(r, e) \/ QuarantineRebindFailure(r, e) \/ QuarantineRefusedEpoch(r, e)
  PROVE  Safe'
  <1>0. /\ TypeOK /\ RowsRecorded /\ InMemory /\ AttemptFencing /\ RecoveryComplete /\ OneDecision
        /\ LiveReserved /\ KilledIdle /\ ReservationHeld /\ OneLiveEpisode
    BY DEF IInv, Safe
  <1>1. Dispatchable(e)
    BY DEF QuarantineStale, QuarantineRebindFailure, QuarantineRefusedEpoch, Selects, NextDispatchable
  <1>2. /\ ep'[e].life = "abandoned"
        /\ ep'[e].cur = ep[e].cur /\ ep'[e].fence = ep[e].fence /\ ep'[e].epoch = ep[e].epoch
        /\ \A f \in Items : f # e => ep'[f] = ep[f] /\ cost'[f] = cost[f]
    BY <1>0 DEF QuarantineStale, QuarantineRebindFailure, QuarantineRefusedEpoch, TypeOK, Episodes
  <1>3. cost'[e] = cost[e] \/ (Killed(e) /\ cost'[e] = "released")
    BY <1>0 DEF QuarantineStale, QuarantineRebindFailure, QuarantineRefusedEpoch, TypeOK
  <1>4. UNCHANGED <<owner, control, att, decided, adm, work>>
    BY DEF QuarantineStale, QuarantineRebindFailure, QuarantineRefusedEpoch
  <1>5. ep[e].life # "absent" /\ ep[e].life # "concluded"
    BY <1>1 DEF Dispatchable, Live
  <1>6. RowsRecorded'
    BY <1>0, <1>2, <1>3, <1>4, <1>5 DEF RowsRecorded
  <1>7. InMemory' /\ RecoveryComplete'
    BY <1>0, <1>4 DEF InMemory, RecoveryComplete, Unfinished
  <1>8. AttemptFencing'
    BY <1>0, <1>2, <1>4 DEF AttemptFencing, Unfinished
  <1>9. OneDecision'
    BY <1>0, <1>2, <1>4, <1>5 DEF OneDecision
  <1>10. LiveReserved'
    BY <1>0, <1>2 DEF LiveReserved, Live
  <1>11. KilledIdle'
    BY <1>0, <1>2, <1>4 DEF KilledIdle, Killed, Live, Unfinished
  <1>12. ReservationHeld'
    <2>1. ASSUME Killed(e), NEW a \in Attempts, Unfinished(a) PROVE att[a].ep # e
      BY <1>0, <1>1, <2>1, AttemptsAssumption DEF KilledIdle, AttemptFencing, Dispatchable
    <2>2. \A f \in Items : (\E a \in Attempts : Unfinished(a)' /\ att'[a].ep = f) => cost'[f] = "reserved"
      BY <1>0, <1>2, <1>3, <1>4, <2>1 DEF ReservationHeld, AttemptsOf, Unfinished
    <2> QED
      BY <1>0, <1>2, <2>2 DEF ReservationHeld, AttemptsOf
  <1>13. OneLiveEpisode'
    BY <1>0, <1>2 DEF OneLiveEpisode, Live
  <1> QED
    BY <1>6, <1>7, <1>8, <1>9, <1>10, <1>11, <1>12, <1>13 DEF Safe
============================================================================
