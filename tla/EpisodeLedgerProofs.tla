----------------------- MODULE EpisodeLedgerProofs -----------------------
(***************************************************************************)
(* The safety of the episode ledger for every number of processes, runners,*)
(* items and attempts and for every retry and re-bind budget: the steps    *)
(* that claim and record, and the theorems.                                *)
(***************************************************************************)
EXTENDS EpisodeLedgerSteps

USE DEF LiveLifecycles, ClosedLifecycles, UnfinishedStatuses, FailureStatuses, TerminalStatuses

\* A new attempt fences out every earlier one.
LEMMA StartAttemptKeeps ==
  ASSUME IInv, NEW r \in Runners, NEW e \in Items, NEW a \in Attempts, StartAttempt(r, e, a)
  PROVE  Safe'
  <1>0. /\ TypeOK /\ RowsRecorded /\ InMemory /\ AttemptFencing /\ RecoveryComplete /\ OneDecision
        /\ LiveReserved /\ KilledIdle /\ ReservationHeld /\ OneLiveEpisode
    BY DEF IInv, Safe
  <1> DEFINE p == RunnerOf[r]
  <1>1. Live(e) /\ ~Killed(e) /\ owner = p /\ att[a].st = "absent"
    BY DEF StartAttempt, Startable, Holds, NoRow
  <1>2. p \in Runtimes
    BY RunnersAssumption
  <1>3. /\ ep'[e].life = "running" /\ ep'[e].cur = a /\ ep'[e].fence = ep[e].fence + 1
        /\ ep'[e].epoch = ep[e].epoch
        /\ \A f \in Items : f # e => ep'[f] = ep[f]
    BY <1>0 DEF StartAttempt, TypeOK, Episodes
  <1>4. /\ att'[a].st = "running" /\ att'[a].ep = e /\ att'[a].fence = ep[e].fence + 1
        /\ att'[a].owner = p
        /\ \A b \in Attempts : b # a => att'[b] = att[b]
    BY <1>0 DEF StartAttempt, TypeOK
  <1>5. UNCHANGED <<owner, control, decided, cost, adm>>
    BY DEF StartAttempt
  <1>6. \A b \in Attempts : Unfinished(b) => att[b].ep \in Items /\ att[b].ep # e
    BY <1>0 DEF AttemptFencing, StartAttempt, Startable
  <1>7. \A f \in Items : ep[f].cur # a
    BY <1>0, <1>1, AttemptsAssumption DEF RowsRecorded
  <1>8. \A f \in Items : ep[f].cur \in Attempts \cup {NoAttempt}
    BY <1>0 DEF TypeOK, Episodes
  <1>9. \A b \in Attempts : Unfinished(b)' => b = a \/ Unfinished(b)
    BY <1>4 DEF Unfinished
  <1>10. RowsRecorded'
    <2>1. \A f \in Items : ep'[f].life = "absent" <=> ep[f].life = "absent"
      BY <1>1, <1>3 DEF Live
    <2>2. \A f \in Items : ep'[f].cur # NoAttempt =>
                             att'[ep'[f].cur].ep = f /\ att'[ep'[f].cur].st # "absent"
      BY <1>0, <1>3, <1>4, <1>7, <1>8, AttemptsAssumption DEF RowsRecorded
    <2>3. \A b \in Attempts : att'[b].st # "absent" =>
            att'[b].ep \in Items /\ att'[b].owner \in Runtimes /\ ep'[att'[b].ep].life # "absent"
      BY <1>0, <1>2, <1>3, <1>4, <2>1 DEF RowsRecorded
    <2> QED
      BY <1>0, <1>3, <1>5, <2>1, <2>2, <2>3 DEF RowsRecorded
  <1>11. InMemory'
    BY <1>0, <1>5 DEF StartAttempt, InMemory, TypeOK
  <1>12. AttemptFencing'
    BY <1>0, <1>3, <1>4, <1>6, <1>9 DEF AttemptFencing
  <1>13. RecoveryComplete'
    BY <1>0, <1>1, <1>4, <1>5, <1>9 DEF RecoveryComplete
  <1>14. OneDecision'
    BY <1>0, <1>1, <1>3, <1>4, <1>5, <1>7, <1>8 DEF OneDecision, Live, TypeOK
  <1>15. LiveReserved'
    BY <1>0, <1>1, <1>3, <1>5 DEF LiveReserved, Live
  <1>16. KilledIdle'
    BY <1>0, <1>1, <1>3, <1>4, <1>5, <1>6, <1>9 DEF KilledIdle, Killed, Live
  <1>17. ReservationHeld'
    <2>1. \A f \in Items : (\E b \in Attempts : Unfinished(b)' /\ att'[b].ep = f) => cost'[f] = "reserved"
      BY <1>0, <1>1, <1>4, <1>5, <1>9 DEF ReservationHeld, LiveReserved, AttemptsOf, Unfinished
    <2> QED
      BY <1>0, Zenon, <1>3, <1>5, <2>1 DEF ReservationHeld, AttemptsOf
  <1>18. OneLiveEpisode'
    BY <1>0, <1>1, <1>3 DEF OneLiveEpisode, Live
  <1> QED
    BY <1>10, <1>11, <1>12, <1>13, <1>14, <1>15, <1>16, <1>17, <1>18 DEF Safe

\* The steps that record the result of an executed attempt.
Records(r) ==
    \/ \E s \in FailureStatuses : RecordFailure(r, s)
    \/ \E s \in OutcomeStatuses, actual \in Actuals : RecordOutcome(r, s, actual)
    \/ \E actual \in Actuals : AbandonAfterExecute(r, actual)

\* A recorded result finishes the current attempt of one episode, and either
\* retains that episode for a retry or closes it with a settled reservation.
LEMMA RecordsEffect ==
  ASSUME IInv, NEW r \in Runners, Records(r), NEW c, c = work[r]
  PROVE  /\ c.ep \in Items /\ c.att \in Attempts
         /\ ep[c.ep].cur = c.att /\ Unfinished(c.att) /\ att[c.att].ep = c.ep
         /\ att'[c.att].st \in TerminalStatuses /\ att'[c.att].ep = c.ep
         /\ att'[c.att].owner = att[c.att].owner
         /\ \A b \in Attempts : b # c.att => att'[b] = att[b]
         /\ ep'[c.ep].cur = ep[c.ep].cur /\ ep'[c.ep].fence = ep[c.ep].fence
         /\ ep'[c.ep].epoch = ep[c.ep].epoch
         /\ \A f \in Items : f # c.ep => ep'[f] = ep[f] /\ cost'[f] = cost[f] /\ decided'[f] = decided[f]
         /\ \/ ep'[c.ep].life = "running" /\ MayBeLive(c.ep) /\ cost'[c.ep] = cost[c.ep]
            \/ ep'[c.ep].life \in ClosedLifecycles /\ cost'[c.ep] \in Actuals
         /\ \/ decided'[c.ep] = decided[c.ep]
            \/ /\ decided'[c.ep] = decided[c.ep] \cup {c.att}
               /\ att'[c.att].st = "produced" /\ ep'[c.ep].life = "concluded"
         /\ UNCHANGED <<owner, control, adm>>
         /\ work' = [work EXCEPT ![r] = NoClaim]
  <1>0. /\ TypeOK /\ RowsRecorded /\ InMemory /\ AttemptFencing /\ RecoveryComplete /\ OneDecision
        /\ LiveReserved /\ KilledIdle /\ ReservationHeld /\ OneLiveEpisode
    BY DEF IInv, Safe
  <1>1. c.ep \in Items /\ c.att \in Attempts
    BY <1>0, Zenon DEF Records, RecordFailure, RecordOutcome, AbandonAfterExecute, InMemory
  <1>2. ep[c.ep].cur = c.att /\ Unfinished(c.att)
    BY Zenon DEF Records, RecordFailure, RecordOutcome, AbandonAfterExecute, MayTransition,
       CanTransitionAttempt, Unfinished
  <1>3. att[c.att].ep = c.ep
    BY <1>0, <1>1, <1>2, AttemptsAssumption DEF RowsRecorded
  <1>4. UNCHANGED <<owner, control, adm>> /\ work' = [work EXCEPT ![r] = NoClaim]
    BY Zenon DEF Records, RecordFailure, RecordOutcome, AbandonAfterExecute
  <1>5. PICK s \in TerminalStatuses : att' = [att EXCEPT ![c.att].st = s]
    BY Zenon DEF Records, RecordFailure, RecordOutcome, AbandonAfterExecute, OutcomeStatuses
  <1>6. /\ att'[c.att].st \in TerminalStatuses /\ att'[c.att].ep = c.ep
        /\ att'[c.att].owner = att[c.att].owner
        /\ \A b \in Attempts : b # c.att => att'[b] = att[b]
    BY <1>0, <1>1, <1>3, <1>5 DEF TypeOK, Rows
  <1>7. ASSUME NEW st \in FailureStatuses, RecordFailure(r, st)
        PROVE  /\ ep'[c.ep].cur = ep[c.ep].cur /\ ep'[c.ep].fence = ep[c.ep].fence
               /\ ep'[c.ep].epoch = ep[c.ep].epoch
               /\ \A f \in Items : f # c.ep => ep'[f] = ep[f] /\ cost'[f] = cost[f]
               /\ \/ ep'[c.ep].life = "running" /\ MayBeLive(c.ep) /\ cost'[c.ep] = cost[c.ep]
                  \/ ep'[c.ep].life \in ClosedLifecycles /\ cost'[c.ep] \in Actuals
               /\ decided' = decided
    <2>1. decided' = decided /\ Unfinished(c.att)
      BY <1>2, <1>7 DEF RecordFailure
    <2>2. CASE /\ MayBeLive(c.ep) /\ cost' = cost
               /\ ep' = [ep EXCEPT ![c.ep].life = "running"]
      BY <1>0, <1>1, <2>1, <2>2 DEF TypeOK, Episodes
    <2>3. CASE /\ cost' = [cost EXCEPT ![c.ep] = "released"]
               /\ ep[c.ep].life = "superseded" /\ ep' = ep
      BY <1>0, <1>1, <2>1, <2>3 DEF TypeOK, Episodes, Actuals
    <2>4. CASE /\ cost' = [cost EXCEPT ![c.ep] = "released"]
               /\ ep' = [ep EXCEPT ![c.ep].life = "concluded"]
      BY <1>0, <1>1, <2>1, <2>4 DEF TypeOK, Episodes, Actuals
    <2> QED
      BY <1>7, <2>2, <2>3, <2>4 DEF RecordFailure
  <1>8. ASSUME NEW st \in OutcomeStatuses, NEW actual \in Actuals, RecordOutcome(r, st, actual)
        PROVE  /\ ep'[c.ep].cur = ep[c.ep].cur /\ ep'[c.ep].fence = ep[c.ep].fence
               /\ ep'[c.ep].epoch = ep[c.ep].epoch
               /\ \A f \in Items : f # c.ep => ep'[f] = ep[f] /\ cost'[f] = cost[f]
               /\ ep'[c.ep].life = "concluded" /\ cost'[c.ep] \in Actuals
               /\ \A f \in Items : f # c.ep => decided'[f] = decided[f]
               /\ \/ decided'[c.ep] = decided[c.ep]
                  \/ decided'[c.ep] = decided[c.ep] \cup {c.att} /\ att'[c.att].st = "produced"
    <2>1. /\ ep' = [ep EXCEPT ![c.ep].life = "concluded"]
          /\ cost' = [cost EXCEPT ![c.ep] = actual]
          /\ att' = [att EXCEPT ![c.att].st = st]
          /\ decided' = IF st = "produced"
                          THEN [decided EXCEPT ![c.ep] = decided[c.ep] \cup {c.att}] ELSE decided
      BY <1>8 DEF RecordOutcome
    <2>2. att'[c.att].st = st
      BY <1>0, <1>1, <2>1 DEF TypeOK, Rows
    <2> QED
      BY <1>0, <1>1, <2>1, <2>2 DEF TypeOK, Episodes
  <1>9. ASSUME NEW actual \in Actuals, AbandonAfterExecute(r, actual)
        PROVE  /\ ep'[c.ep].cur = ep[c.ep].cur /\ ep'[c.ep].fence = ep[c.ep].fence
               /\ ep'[c.ep].epoch = ep[c.ep].epoch
               /\ \A f \in Items : f # c.ep => ep'[f] = ep[f] /\ cost'[f] = cost[f]
               /\ ep'[c.ep].life = "abandoned" /\ cost'[c.ep] \in Actuals
               /\ decided' = decided
    BY <1>0, <1>1, <1>9 DEF AbandonAfterExecute, TypeOK, Episodes
  <1> QED
    BY Zenon, <1>1, <1>2, <1>3, <1>4, <1>6, <1>7, <1>8, <1>9 DEF Records

LEMMA RecordsKeeps == ASSUME IInv, NEW r \in Runners, Records(r) PROVE Safe'
  <1>0. /\ TypeOK /\ RowsRecorded /\ InMemory /\ AttemptFencing /\ RecoveryComplete /\ OneDecision
        /\ LiveReserved /\ KilledIdle /\ ReservationHeld /\ OneLiveEpisode
    BY DEF IInv, Safe
  <1> DEFINE c == work[r]
  <1>1. /\ c.ep \in Items /\ c.att \in Attempts
        /\ ep[c.ep].cur = c.att /\ Unfinished(c.att) /\ att[c.att].ep = c.ep
    BY RecordsEffect
  <1>2. /\ att'[c.att].st \in TerminalStatuses /\ att'[c.att].ep = c.ep
        /\ att'[c.att].owner = att[c.att].owner
        /\ \A b \in Attempts : b # c.att => att'[b] = att[b]
    BY RecordsEffect
  <1>3. /\ ep'[c.ep].cur = ep[c.ep].cur /\ ep'[c.ep].fence = ep[c.ep].fence
        /\ ep'[c.ep].epoch = ep[c.ep].epoch
        /\ \A f \in Items : f # c.ep => ep'[f] = ep[f] /\ cost'[f] = cost[f] /\ decided'[f] = decided[f]
    BY RecordsEffect
  <1>4. \/ ep'[c.ep].life = "running" /\ MayBeLive(c.ep) /\ cost'[c.ep] = cost[c.ep]
        \/ ep'[c.ep].life \in ClosedLifecycles /\ cost'[c.ep] \in Actuals
    BY RecordsEffect
  <1>5. \/ decided'[c.ep] = decided[c.ep]
        \/ /\ decided'[c.ep] = decided[c.ep] \cup {c.att}
           /\ att'[c.att].st = "produced" /\ ep'[c.ep].life = "concluded"
    BY RecordsEffect
  <1>6. UNCHANGED <<owner, control, adm>> /\ work' = [work EXCEPT ![r] = NoClaim]
    BY RecordsEffect
  <1>7. \A b \in Attempts : Unfinished(b)' <=> Unfinished(b) /\ b # c.att
    BY <1>1, <1>2 DEF Unfinished
  <1>8. \A b \in Attempts : Unfinished(b)' => att[b].ep \in Items /\ att[b].ep # c.ep
    BY <1>0, <1>1, <1>7 DEF AttemptFencing
  <1>9. cost[c.ep] = "reserved" /\ ep[c.ep].life # "absent" /\ decided[c.ep] = {}
    BY <1>0, <1>1 DEF ReservationHeld, AttemptsOf, RowsRecorded, OneDecision, Unfinished
  <1>10. \A f \in Items : ep[f].cur \in Attempts \cup {NoAttempt}
    BY <1>0 DEF TypeOK, Episodes
  <1>11. RowsRecorded'
    <2>1. \A f \in Items : ep'[f].life = "absent" <=> ep[f].life = "absent"
      BY <1>3, <1>4, <1>9
    <2>2. \A b \in Attempts : /\ att'[b].st # "absent" <=> att[b].st # "absent"
                              /\ att'[b].ep = att[b].ep /\ att'[b].owner = att[b].owner
      BY <1>1, <1>2 DEF Unfinished
    <2>3. \A f \in Items : ep'[f].cur = ep[f].cur
      BY <1>3
    <2>4. \A f \in Items : (cost'[f] = "none") <=> (cost[f] = "none")
      BY <1>3, <1>4, <1>9 DEF Actuals
    <2> QED
      BY <1>0, <1>10, <2>1, <2>2, <2>3, <2>4 DEF RowsRecorded
  <1>12. InMemory'
    BY <1>0, <1>6 DEF InMemory, TypeOK
  <1>13. AttemptFencing'
    BY <1>0, <1>2, <1>3, <1>7, <1>8 DEF AttemptFencing
  <1>14. RecoveryComplete'
    BY <1>0, <1>2, <1>6, <1>7 DEF RecoveryComplete
  <1>15. OneDecision'
    <2>1. \A f \in Items : f # c.ep => decided'[f] = decided[f] /\ ep'[f] = ep[f]
      BY <1>3
    <2>2. \A f \in Items : f # c.ep /\ ep[f].cur = c.att => decided[f] = {}
      BY <1>0, <1>1 DEF OneDecision, Unfinished
    <2>3. \A f \in Items : f # c.ep /\ decided[f] # {} => ep[f].cur # c.att /\ ep[f].cur \in Attempts
      BY <1>0, Zenon, <2>2 DEF OneDecision, TypeOK
    <2>4. decided'[c.ep] # {} => /\ decided'[c.ep] = {ep'[c.ep].cur}
                                /\ att'[ep'[c.ep].cur].st = "produced"
                                /\ ep'[c.ep].life = "concluded"
      BY <1>1, <1>3, <1>5, <1>9
    <2> QED
      BY <1>0, <1>2, <2>1, <2>3, <2>4 DEF OneDecision
  <1>16. LiveReserved'
    BY <1>0, Zenon, <1>3, <1>4, <1>9 DEF LiveReserved, Live
  <1>17. KilledIdle'
    BY <1>0, <1>2, <1>3, <1>6, <1>7, <1>8 DEF KilledIdle, Killed, Live
  <1>18. ReservationHeld'
    <2>1. \A f \in Items : (\E b \in Attempts : Unfinished(b)' /\ att'[b].ep = f) => cost'[f] = "reserved"
      BY <1>0, <1>2, <1>3, <1>7, <1>8 DEF ReservationHeld, AttemptsOf, Unfinished
    <2>2. \A f \in Items : ep'[f].life = "concluded" => cost'[f] \in Actuals
      BY <1>0, Zenon, <1>3, <1>4 DEF ReservationHeld
    <2> QED
      BY <2>1, <2>2 DEF ReservationHeld, AttemptsOf
  <1>19. OneLiveEpisode'
    BY <1>0, <1>1, <1>3, <1>4, ZenonT(60) DEF OneLiveEpisode, MayBeLive, Live
  <1> QED
    BY <1>11, <1>12, <1>13, <1>14, <1>15, <1>16, <1>17, <1>18, <1>19 DEF Safe

LEMMA InitIInv == Init => IInv
  BY TypeInit, SafeInit DEF IInv

\* The steps of Next, grouped by the lemma that treats them.
LEMMA StepCases ==
  ASSUME [Next]_vars
  PROVE  \/ Bookkeeping
         \/ \E p \in Runtimes : Start(p) \/ Kill(p) \/ Admit(p)
         \/ \E p \in Runtimes, s \in {SituationOf[i] : i \in Items}, new \in SUBSET Items :
               Publish(p, s, new)
         \/ \E r \in Runners, e \in Items :
               QuarantineStale(r, e) \/ QuarantineRebindFailure(r, e) \/ QuarantineRefusedEpoch(r, e)
         \/ \E r \in Runners, e \in Items, a \in Attempts : StartAttempt(r, e, a)
         \/ \E r \in Runners : Records(r)
  <1>1. ASSUME NEW p \in Runtimes, Serve(p)
        PROVE  \/ Bookkeeping
               \/ Start(p) \/ Kill(p) \/ Admit(p)
               \/ \E s \in {SituationOf[i] : i \in Items}, new \in SUBSET Items : Publish(p, s, new)
    BY <1>1 DEF Serve, AdmissionLoop, Bookkeeping
  <1>2. ASSUME NEW r \in Runners, RecordExecution(r) PROVE Bookkeeping \/ Records(r)
    BY <1>2 DEF RecordExecution, Records, Bookkeeping
  <1>3. ASSUME NEW p \in Runtimes, Crash(p) PROVE Bookkeeping
    BY <1>3 DEF Bookkeeping
  <1>4. ASSUME NEW o \in Epochs, OperatorClaim(o) PROVE Bookkeeping
    BY <1>4 DEF Bookkeeping
  <1>5. (LeaseEnds \/ UNCHANGED vars) => Bookkeeping
    BY DEF Bookkeeping
  <1> QED
    BY Zenon, <1>1, <1>2, <1>3, <1>4, <1>5 DEF Next, Work, ClaimEpisode

LEMMA StepIInv == IInv /\ [Next]_vars => IInv'
  <1> SUFFICES ASSUME IInv, [Next]_vars PROVE IInv'
    OBVIOUS
  <1>1. TypeOK'
    BY TypeStep DEF IInv, Safe
  <1>2. Safe'
    BY StepCases, BookkeepingKeeps, StartKeeps, KillKeeps, AdmitKeeps, PublishKeeps,
       QuarantineKeeps, StartAttemptKeeps, RecordsKeeps
  <1> QED
    BY <1>1, <1>2 DEF IInv

LEMMA Invariance == Spec => []IInv
  BY InitIInv, StepIInv, PTL DEF Spec
----------------------------------------------------------------------------
(* Theorems. *)

\* Every row of the ledger and every value a loop holds keeps its type.
THEOREM LedgerTypeCorrect == Spec => []TypeOK
  <1>1. IInv => TypeOK
    BY DEF IInv
  <1> QED
    BY Invariance, <1>1, PTL

\* An unfinished attempt is the current attempt of its episode and carries its
\* fence, whatever crashes, lease changes and supersessions happen (startAttempt,
\* TransitionAttempt, RecoverUnfinishedAttempts).
THEOREM AttemptFencingHolds == Spec => []AttemptFencing
  <1>1. IInv => AttemptFencing
    BY DEF IInv, Safe
  <1> QED
    BY Invariance, <1>1, PTL

\* While the lease row names a runtime process, every unfinished attempt is its
\* own (ClaimAndRecover).
THEOREM RecoveryCompleteHolds == Spec => []RecoveryComplete
  <1>1. IInv => RecoveryComplete
    BY DEF IInv, Safe
  <1> QED
    BY Invariance, <1>1, PTL

\* An episode never has two accepted Decisions, and its one Decision is that of
\* its current, produced attempt (concludeAttempt).
THEOREM OneDecisionHolds == Spec => []OneDecision
  <1>1. IInv => OneDecision
    BY DEF IInv, Safe
  <1> QED
    BY Invariance, <1>1, PTL

\* Unfinished attempts hold their reservation and concluded episodes have
\* settled it, so the settlement of recovery never fails (abandonCancelingEpisode).
THEOREM ReservationHeldHolds == Spec => []ReservationHeld
  <1>1. IInv => ReservationHeld
    BY DEF IInv, Safe
  <1> QED
    BY Invariance, <1>1, PTL

\* No Situation has two live episodes (one_live_episode_per_situation).
THEOREM OneLiveEpisodeHolds == Spec => []OneLiveEpisode
  <1>1. IInv => OneLiveEpisode
    BY DEF IInv, Safe
  <1> QED
    BY Invariance, <1>1, PTL
----------------------------------------------------------------------------
(* Action properties. *)

SettledStep ==
    /\ \A a \in Attempts : att[a].st \in TerminalStatuses => att'[a] = att[a]
    /\ \A e \in Items : cost[e] \in Actuals => cost'[e] = cost[e]

LEMMA StepSettled == IInv /\ [Next]_vars => SettledStep
  <1> SUFFICES ASSUME IInv, [Next]_vars PROVE SettledStep
    OBVIOUS
  <1>0. /\ TypeOK /\ RowsRecorded /\ InMemory /\ AttemptFencing /\ RecoveryComplete /\ OneDecision
        /\ LiveReserved /\ KilledIdle /\ ReservationHeld /\ OneLiveEpisode
    BY DEF IInv, Safe
  <1> USE DEF SettledStep, Actuals
  <1>1. CASE Bookkeeping
    BY <1>0, <1>1, BookkeepingEffect DEF TypeOK
  <1>2. ASSUME NEW p \in Runtimes, Start(p) PROVE SettledStep
    BY <1>0, <1>2 DEF Start, RecoverUnfinishedAttempts, OrphansOf, Unfinished, MaySettle, TypeOK
  <1>3. ASSUME NEW p \in Runtimes, Kill(p) PROVE SettledStep
    BY <1>0, <1>3 DEF Kill, UnstartedReserved, TypeOK
  <1>4. ASSUME NEW p \in Runtimes, Admit(p) PROVE SettledStep
    BY <1>0, <1>4 DEF Admit, TypeOK
  <1>5. ASSUME NEW p \in Runtimes, NEW s, NEW new \in SUBSET Items, Publish(p, s, new)
        PROVE  SettledStep
    BY <1>0, <1>5 DEF Publish, TypeOK
  <1>6. ASSUME NEW r \in Runners, NEW e \in Items,
               QuarantineStale(r, e) \/ QuarantineRebindFailure(r, e) \/ QuarantineRefusedEpoch(r, e)
        PROVE  SettledStep
    BY <1>0, <1>6 DEF QuarantineStale, QuarantineRebindFailure, QuarantineRefusedEpoch, MaySettle, TypeOK
  <1>7. ASSUME NEW r \in Runners, NEW e \in Items, NEW a \in Attempts, StartAttempt(r, e, a)
        PROVE  SettledStep
    BY <1>0, <1>7 DEF StartAttempt, NoRow, TypeOK
  <1>8. ASSUME NEW r \in Runners, Records(r) PROVE SettledStep
    <2> DEFINE c == work[r]
    <2>1. /\ c.ep \in Items /\ c.att \in Attempts /\ Unfinished(c.att) /\ att[c.att].ep = c.ep
          /\ \A b \in Attempts : b # c.att => att'[b] = att[b]
          /\ \A f \in Items : f # c.ep => cost'[f] = cost[f]
      BY <1>0, <1>8, RecordsEffect DEF TypeOK
    <2>2. cost[c.ep] = "reserved"
      BY <1>0, <2>1 DEF ReservationHeld, AttemptsOf, Unfinished, TypeOK
    <2> QED
      BY <1>0, <2>1, <2>2 DEF Unfinished, TypeOK
  <1> QED
    BY Zenon, <1>1, <1>2, <1>3, <1>4, <1>5, <1>6, <1>7, <1>8, StepCases

\* A terminal attempt row and a settled reservation are never written again, so
\* no late or repeated result changes what was recorded or charged.
THEOREM SettledOnceHolds == Spec => SettledOnce
  <1>1. IInv /\ [Next]_vars => [SettledStep]_vars
    BY StepSettled
  <1>2. [SettledStep]_vars => [/\ \A a \in Attempts : att[a].st \in TerminalStatuses => att'[a] = att[a]
                              /\ \A e \in Items : cost[e] \in Actuals => cost'[e] = cost[e]]_vars
    BY DEF SettledStep
  <1> QED
    BY Invariance, <1>1, <1>2, PTL DEF Spec, SettledOnce

GateStep ==
    \A e \in Items : decided'[e] # decided[e] =>
        /\ Live(e)
        /\ ~Killed(e)
        /\ \E r \in Runners : /\ work[r].ep = e
                              /\ work[r].att = ep[e].cur
                              /\ Holds(RunnerOf[r])

LEMMA StepGate == IInv /\ [Next]_vars => GateStep
  <1> SUFFICES ASSUME IInv, [Next]_vars PROVE GateStep
    OBVIOUS
  <1>0. /\ TypeOK /\ RowsRecorded /\ InMemory /\ AttemptFencing /\ RecoveryComplete /\ OneDecision
        /\ LiveReserved /\ KilledIdle /\ ReservationHeld /\ OneLiveEpisode
    BY DEF IInv, Safe
  <1>1. ASSUME NEW r \in Runners, Records(r) PROVE GateStep
    <2> DEFINE c == work[r]
    <2>1. /\ c.ep \in Items /\ c.att \in Attempts /\ ep[c.ep].cur = c.att
          /\ \A f \in Items : f # c.ep => decided'[f] = decided[f]
      BY <1>0, <1>1, RecordsEffect DEF TypeOK
    <2>2. ep[c.ep].life # "absent" /\ ep[c.ep].life \in Lifecycles
      BY <1>0, <2>1, AttemptsAssumption DEF RowsRecorded, Episodes, TypeOK
    <2>3. decided'[c.ep] # decided[c.ep] => ~Closed(c.ep) /\ ~Killed(c.ep) /\ Holds(RunnerOf[r])
      BY <1>0, Zenon, <1>1 DEF Records, RecordFailure, RecordOutcome, AbandonAfterExecute, MayTransition,
         TypeOK
    <2> QED
      BY <1>0, <2>1, <2>2, <2>3 DEF GateStep, Live, Closed, Lifecycles, TypeOK
  <1>2. CASE decided' = decided
    BY <1>0, <1>2 DEF GateStep, TypeOK
  <1>3. (\E r \in Runners : Records(r)) \/ decided' = decided
    BY <1>0, StepCases, BookkeepingEffect, ZenonT(60) DEF Start, Kill, Admit, Publish, QuarantineStale,
       QuarantineRebindFailure, QuarantineRefusedEpoch, StartAttempt, TypeOK
  <1> QED
    BY <1>1, <1>2, <1>3

\* A Decision is accepted only for a live episode of an epoch that was not
\* killed, from the runner of its current attempt, whose process holds the lease
\* (recordExecution, ValidateWorkerIdentity, AssertDecisionTx).
THEOREM DecisionGateHolds == Spec => DecisionGate
  <1>1. IInv /\ [Next]_vars => [GateStep]_vars
    BY StepGate
  <1>2. [GateStep]_vars =>
          [\A e \in Items : decided'[e] # decided[e] =>
             /\ Live(e)
             /\ ~Killed(e)
             /\ \E r \in Runners : /\ work[r].ep = e
                                   /\ work[r].att = ep[e].cur
                                   /\ Holds(RunnerOf[r])]_vars
    BY DEF GateStep
  <1> QED
    BY Invariance, <1>1, <1>2, PTL DEF Spec, DecisionGate
----------------------------------------------------------------------------
(* The retry and re-bind budgets. *)

Sets == INSTANCE FiniteSetTheorems

\* What the budgets need to know of finite sets: the empty set counts nothing,
\* and a new element counts one.
LEMMA CountEmpty == IsFiniteSet({}) /\ Cardinality({}) = 0
  <1>1. Sets!IsFiniteSet({}) <=> IsFiniteSet({})
    BY Zenon DEF IsFiniteSet, Sets!IsFiniteSet
  <1>2. Sets!Cardinality({}) = Cardinality({})
    BY Zenon DEF Cardinality, Sets!Cardinality
  <1> QED
    BY <1>1, <1>2, Sets!FS_EmptySet, Zenon

LEMMA CountNew ==
  ASSUME NEW S, NEW x, IsFiniteSet(S), x \notin S
  PROVE  /\ IsFiniteSet(S \cup {x})
         /\ Cardinality(S) \in Nat /\ Cardinality(S \cup {x}) = Cardinality(S) + 1
  <1>1. \A T : Sets!IsFiniteSet(T) <=> IsFiniteSet(T)
    BY Zenon DEF IsFiniteSet, Sets!IsFiniteSet
  <1>2. \A T : Sets!Cardinality(T) = Cardinality(T)
    BY Zenon DEF Cardinality, Sets!Cardinality
  <1> QED
    BY <1>1, <1>2, Sets!FS_AddElement, Sets!FS_CardinalityType, Zenon

Failures(e) == {a \in AttemptsOf(e) : att[a].st \in FailureStatuses}
InFlight(e) == \E a \in AttemptsOf(e) : Unfinished(a)

\* What BudgetsHold needs to be inductive: an episode that may still fail, live
\* or with an attempt in flight, has a failure left in its budget.
BudgetLeft ==
    \A e \in Items :
        /\ IsFiniteSet(Failures(e)) /\ Cardinality(Failures(e)) <= MaxAttempts
        /\ Live(e) \/ InFlight(e) => Cardinality(Failures(e)) < MaxAttempts
        /\ ep[e].rebinds <= MaxRebinds

\* A step that fails no attempt, revives no episode and keeps within the
\* re-binds keeps the budgets.
LEMMA NoFailureKeeps ==
  ASSUME BudgetLeft,
         \A e \in Items : /\ Failures(e)' = Failures(e)
                          /\ Live(e)' \/ InFlight(e)' => Live(e) \/ InFlight(e)
                          /\ ep'[e].rebinds <= MaxRebinds
  PROVE  BudgetLeft'
  BY Zenon DEF BudgetLeft

\* Steps that change the status of attempts only between unfinished ones, or
\* abandon them.
LEMMA SameFailures ==
  ASSUME TypeOK, TypeOK',
         \A a \in Attempts : \/ att'[a] = att[a]
                             \/ /\ att[a].st \notin FailureStatuses
                                /\ att'[a].st \notin FailureStatuses
         PROVE \A e \in Items : Failures(e)' = Failures(e)
  BY DEF Failures, AttemptsOf

\* Episodes that stay as they are or are no longer live, with no more re-binds
\* than the budget, and attempts that stay as they are, are cancelled or abandoned.
LEMMA ClosingKeeps ==
  ASSUME TypeOK, TypeOK', BudgetLeft,
         \A e \in Items : ep'[e] = ep[e] \/ ep'[e].life \notin LiveLifecycles,
         \A e \in Items : ep'[e].rebinds = ep[e].rebinds \/ ep'[e].rebinds <= MaxRebinds,
         \A a \in Attempts : \/ att'[a] = att[a]
                             \/ /\ Unfinished(a) /\ att'[a].ep = att[a].ep
                                /\ att'[a].st \in {"cancelling", "abandoned"}
  PROVE  BudgetLeft'
  <1>1. \A e \in Items : Failures(e)' = Failures(e)
    BY SameFailures DEF Unfinished
  <1>2. \A e \in Items : InFlight(e)' => InFlight(e)
    BY DEF InFlight, AttemptsOf, Unfinished
  <1>3. \A e \in Items : Live(e)' => Live(e)
    BY DEF Live
  <1>4. \A e \in Items : ep'[e].rebinds <= MaxRebinds
    BY DEF BudgetLeft
  <1> QED
    BY <1>1, <1>2, <1>3, <1>4, NoFailureKeeps, Zenon

LEMMA StartBudget == ASSUME IInv, TypeOK', BudgetLeft, NEW p \in Runtimes, Start(p) PROVE BudgetLeft'
  <1>1. \A a \in Attempts : \/ att'[a] = att[a]
                            \/ /\ Unfinished(a) /\ att'[a].ep = att[a].ep
                               /\ att'[a].st \in {"cancelling", "abandoned"}
    BY DEF Start, RecoverUnfinishedAttempts, OrphansOf, IInv, TypeOK, Rows
  <1>2. \A e \in Items : /\ ep'[e] = ep[e] \/ ep'[e].life \notin LiveLifecycles
                         /\ ep'[e].rebinds = ep[e].rebinds
    BY DEF Start, RecoverUnfinishedAttempts, IInv, TypeOK, Episodes
  <1> QED
    BY <1>1, <1>2, ClosingKeeps DEF IInv

LEMMA KillBudget == ASSUME IInv, TypeOK', BudgetLeft, NEW p \in Runtimes, Kill(p) PROVE BudgetLeft'
  <1>1. att' = att
    BY DEF Kill
  <1>2. \A e \in Items : /\ ep'[e] = ep[e] \/ ep'[e].life \notin LiveLifecycles
                         /\ ep'[e].rebinds = ep[e].rebinds
    BY DEF Kill, IInv, TypeOK, Episodes
  <1> QED
    BY <1>1, <1>2, ClosingKeeps DEF IInv

LEMMA PublishBudget ==
  ASSUME IInv, TypeOK', BudgetLeft, NEW p \in Runtimes, NEW s, NEW new \in SUBSET Items, Publish(p, s, new)
  PROVE  BudgetLeft'
  <1>1. \A a \in Attempts : \/ att'[a] = att[a]
                            \/ /\ Unfinished(a) /\ att'[a].ep = att[a].ep
                               /\ att'[a].st \in {"cancelling", "abandoned"}
    BY DEF Publish, Unfinished, IInv, TypeOK, Rows
  <1>2. \A e \in Items : /\ ep'[e] = ep[e] \/ ep'[e].life \notin LiveLifecycles
                         /\ ep'[e].rebinds = ep[e].rebinds
    BY DEF Publish, IInv, TypeOK, Episodes
  <1> QED
    BY <1>1, <1>2, ClosingKeeps DEF IInv

\* A re-bind that dispatch allows stays within the budget.
LEMMA BoundWithin ==
  ASSUME TypeOK, BudgetLeft, NEW e \in Items, MayBind(e)
  PROVE  BoundRebinds(e) <= MaxRebinds /\ BoundRebinds(e) \in Nat
  BY BudgetAssumption DEF BudgetLeft, MayBind, BoundRebinds, TypeOK, Episodes

LEMMA QuarantineBudget ==
  ASSUME IInv, TypeOK', BudgetLeft, NEW r \in Runners, NEW e \in Items,
         QuarantineStale(r, e) \/ QuarantineRebindFailure(r, e) \/ QuarantineRefusedEpoch(r, e)
  PROVE  BudgetLeft'
  <1>0. ep \in [Items -> Episodes]
    BY DEF IInv, TypeOK
  <1>1. att' = att
    BY DEF QuarantineStale, QuarantineRebindFailure, QuarantineRefusedEpoch
  <1>2. /\ \A f \in Items : f # e => ep'[f] = ep[f]
        /\ ep'[e].life = "abandoned"
        /\ ep'[e].rebinds = ep[e].rebinds \/ (ep'[e].rebinds = BoundRebinds(e) /\ MayBind(e))
    <2>1. CASE QuarantineStale(r, e)
      <3>1. ep' = [ep EXCEPT ![e].life = "abandoned"]
        BY <2>1, Zenon DEF QuarantineStale
      <3>2. /\ \A f \in Items : f # e => ep'[f] = ep[f]
            /\ ep'[e].life = "abandoned" /\ ep'[e].rebinds = ep[e].rebinds
        BY <1>0, <3>1 DEF Episodes
      <3> QED
        BY <3>2
    <2>2. CASE QuarantineRebindFailure(r, e) \/ QuarantineRefusedEpoch(r, e)
      <3>1. PICK n : n = BoundRebinds(e)
        OBVIOUS
      <3>2. MayBind(e) /\ ep' = [ep EXCEPT ![e].life = "abandoned", ![e].rebinds = n]
        BY <2>2, <3>1, Zenon DEF QuarantineRebindFailure, QuarantineRefusedEpoch
      <3> QED
        BY <1>0, <3>1, <3>2 DEF Episodes
    <2> QED
      BY <2>1, <2>2
  <1>3. \A f \in Items : ep'[f].rebinds = ep[f].rebinds \/ ep'[f].rebinds <= MaxRebinds
    BY <1>2, BoundWithin DEF IInv
  <1> QED
    BY <1>1, <1>2, <1>3, ClosingKeeps DEF IInv

\* An admitted episode has no attempt yet and the whole budget.
LEMMA AdmitBudget == ASSUME IInv, TypeOK', BudgetLeft, NEW p \in Runtimes, Admit(p) PROVE BudgetLeft'
  <1> DEFINE i == adm[p].item
  <1>1. i \in Items /\ ep[i].life = "absent" /\ att' = att
    BY DEF Admit, IInv, Safe, InMemory, RowsRecorded
  <1>2. /\ ep'[i].rebinds = 0
        /\ \A e \in Items : e # i => ep'[e] = ep[e]
    BY <1>1 DEF Admit, IInv, TypeOK, NoEpisode
  <1>3. \A e \in Items : Failures(e)' = Failures(e) /\ (InFlight(e)' <=> InFlight(e))
    BY <1>1, Zenon DEF Failures, InFlight, AttemptsOf, Unfinished
  <1>4. Failures(i) = {}
    BY <1>1 DEF IInv, Safe, RowsRecorded, Failures, AttemptsOf
  <1>5. Cardinality(Failures(i)) = 0
    BY <1>4, CountEmpty, Zenon
  <1>6. 0 <= MaxRebinds /\ 0 < MaxAttempts
    BY BudgetAssumption
  <1>7. \A e \in Items : e # i => (Live(e)' <=> Live(e)) /\ ep'[e].rebinds = ep[e].rebinds
    BY <1>2 DEF Live
  <1> QED
    BY <1>2, <1>3, <1>5, <1>6, <1>7, Zenon DEF BudgetLeft

LEMMA StartAttemptBudget ==
  ASSUME IInv, TypeOK', BudgetLeft, NEW r \in Runners, NEW e \in Items, NEW a \in Attempts,
         StartAttempt(r, e, a)
  PROVE  BudgetLeft'
  <1>1. Live(e) /\ att[a].st = "absent" /\ MayBind(e)
    BY DEF StartAttempt, Startable, NoRow
  <1>2. /\ ep'[e].rebinds = BoundRebinds(e)
        /\ \A f \in Items : f # e => ep'[f] = ep[f]
    BY DEF StartAttempt, IInv, TypeOK, Episodes
  <1>3. /\ att'[a].st = "running" /\ att'[a].ep = e
        /\ \A b \in Attempts : b # a => att'[b] = att[b]
    BY DEF StartAttempt, IInv, TypeOK
  <1>4. \A f \in Items : Failures(f)' = Failures(f)
    BY <1>1, <1>3, SameFailures DEF IInv
  <1>5. \A f \in Items : Live(f)' \/ InFlight(f)' => Live(f) \/ InFlight(f)
    BY <1>1, <1>2, <1>3 DEF Live, InFlight, AttemptsOf, Unfinished
  <1>6. \A f \in Items : ep'[f].rebinds <= MaxRebinds
    BY <1>1, <1>2, BoundWithin DEF BudgetLeft, IInv
  <1> QED
    BY <1>4, <1>5, <1>6, NoFailureKeeps, Zenon

\* A retry is only granted while the failures, the new one included, are fewer
\* than the budget; whatever else a result does, it closes the episode.
LEMMA RetryWithinBudget ==
  ASSUME IInv, NEW r \in Runners, Records(r), NEW c, c = work[r], ep'[c.ep].life = "running"
  PROVE  ShouldRetry(c.ep, c.att) /\ att'[c.att].st \in FailureStatuses
  <1>1. c.ep \in Items /\ c.att \in Attempts
    BY RecordsEffect
  <1>2. ASSUME NEW s \in FailureStatuses, RecordFailure(r, s)
        PROVE  ShouldRetry(c.ep, c.att) /\ att'[c.att].st \in FailureStatuses
    <2>1. att' = [att EXCEPT ![c.att].st = s]
      BY <1>2 DEF RecordFailure
    <2>2. att'[c.att].st = s
      BY <1>1, <2>1 DEF IInv, TypeOK, Rows
    <2>3. ASSUME ep' = IF ep[c.ep].life = "superseded" THEN ep ELSE [ep EXCEPT ![c.ep].life = "concluded"]
          PROVE  FALSE
      BY <1>1, <2>3 DEF IInv, TypeOK, Episodes
    <2> QED
      BY <1>2, <2>2, <2>3, Zenon DEF RecordFailure
  <1>3. ASSUME NEW s \in OutcomeStatuses, NEW actual \in Actuals, RecordOutcome(r, s, actual)
        PROVE  FALSE
    BY <1>1, <1>3 DEF RecordOutcome, IInv, TypeOK, Episodes
  <1>4. ASSUME NEW actual \in Actuals, AbandonAfterExecute(r, actual) PROVE FALSE
    BY <1>1, <1>4 DEF AbandonAfterExecute, IInv, TypeOK, Episodes
  <1> QED
    BY <1>2, <1>3, <1>4, Zenon DEF Records

\* A result consumes no re-bind.
LEMMA RecordsRebinds ==
  ASSUME IInv, NEW r \in Runners, Records(r), NEW c, c = work[r]
  PROVE  ep'[c.ep].rebinds = ep[c.ep].rebinds
  <1>0. ep \in [Items -> Episodes] /\ c.ep \in Items
    BY RecordsEffect DEF IInv, TypeOK
  <1>1. ep' = ep \/ \E l \in Lifecycles : ep' = [ep EXCEPT ![c.ep].life = l]
    BY Zenon DEF Records, RecordFailure, RecordOutcome, AbandonAfterExecute, Lifecycles
  <1> QED
    BY <1>0, <1>1, Zenon DEF Episodes

LEMMA RecordsBudget ==
  ASSUME IInv, TypeOK', BudgetLeft, NEW r \in Runners, Records(r)
  PROVE  BudgetLeft'
  <1> DEFINE c == work[r]
  <1>1. /\ c.ep \in Items /\ c.att \in Attempts /\ ep[c.ep].cur = c.att
        /\ Unfinished(c.att) /\ att[c.att].ep = c.ep
        /\ att'[c.att].st \in TerminalStatuses /\ att'[c.att].ep = c.ep
        /\ \A b \in Attempts : b # c.att => att'[b] = att[b]
        /\ \A f \in Items : f # c.ep => ep'[f] = ep[f]
        /\ ep'[c.ep].life = "running" \/ ep'[c.ep].life \in ClosedLifecycles
    BY RecordsEffect
  <1> PICK e, a : e = c.ep /\ a = c.att
    OBVIOUS
  <1> HIDE DEF c
  <1>2. Failures(e)' = IF att'[a].st \in FailureStatuses THEN Failures(e) \cup {a} ELSE Failures(e)
    BY <1>1 DEF Failures, AttemptsOf, Unfinished
  <1>3. FailedAttempts(e, a) = Failures(e) \cup {a}
    BY Zenon DEF FailedAttempts, Failures
  <1>4. /\ IsFiniteSet(Failures(e)) /\ Cardinality(Failures(e)) < MaxAttempts
        /\ a \notin Failures(e)
    BY <1>1, Zenon DEF BudgetLeft, InFlight, AttemptsOf, Failures, Unfinished
  <1>5. /\ IsFiniteSet(Failures(e) \cup {a})
        /\ Cardinality(Failures(e) \cup {a}) = Cardinality(Failures(e)) + 1
    BY <1>4, CountNew, Zenon
  <1>6. Cardinality(Failures(e)) \in Nat
    BY <1>4, CountNew, Zenon
  <1>7. IsFiniteSet(Failures(e)') /\ Cardinality(Failures(e)') <= MaxAttempts
    BY <1>2, <1>4, <1>5, <1>6, BudgetAssumption
  <1>8. ~InFlight(e)'
    <2> SUFFICES ASSUME NEW b \in Attempts, att'[b].ep = e, att'[b].st \in UnfinishedStatuses
                 PROVE  FALSE
      BY DEF InFlight, AttemptsOf, Unfinished
    <2> QED
      BY <1>1 DEF IInv, Safe, AttemptFencing, Unfinished
  <1>9. Live(e)' => Cardinality(Failures(e)') < MaxAttempts
    <2>1. Live(e)' => ep'[e].life = "running"
      BY <1>1 DEF Live
    <2>2. Live(e)' => ShouldRetry(e, a) /\ att'[a].st \in FailureStatuses
      BY <2>1, RetryWithinBudget DEF c
    <2> QED
      BY <1>2, <1>3, <2>2 DEF ShouldRetry
  <1>10. ep'[e].rebinds = ep[e].rebinds
    BY RecordsRebinds DEF c
  <1>11. ASSUME NEW f \in Items, f # e
         PROVE  /\ Failures(f)' = Failures(f) /\ (InFlight(f)' => InFlight(f))
                /\ (Live(f)' <=> Live(f)) /\ ep'[f].rebinds = ep[f].rebinds
    <2>1. \A b \in Attempts : b # a => att'[b] = att[b]
      BY <1>1
    <2>2. att[a].ep # f /\ att'[a].ep # f
      BY <1>1, <1>11
    <2>3. Failures(f)' = Failures(f)
      BY <2>1, <2>2 DEF Failures, AttemptsOf
    <2>4. InFlight(f)' => InFlight(f)
      BY <2>1, <2>2 DEF InFlight, AttemptsOf, Unfinished
    <2>5. ep'[f] = ep[f]
      BY <1>1, <1>11
    <2> QED
      BY <2>3, <2>4, <2>5, Zenon DEF Live
  <1>12. e \in Items
    BY <1>1
  <1> QED
    BY <1>7, <1>8, <1>9, <1>10, <1>11, Zenon DEF BudgetLeft

LEMMA BudgetInit == Init => BudgetLeft
  <1> SUFFICES ASSUME Init, NEW e \in Items
               PROVE  /\ Failures(e) = {} /\ ~Live(e) /\ ~InFlight(e) /\ ep[e].rebinds = 0
    BY CountEmpty, BudgetAssumption DEF BudgetLeft
  <1> QED
    BY DEF Init, Failures, InFlight, AttemptsOf, Live, NoRow, NoEpisode

LEMMA BudgetStep == IInv /\ BudgetLeft /\ [Next]_vars => BudgetLeft'
  <1> SUFFICES ASSUME IInv, BudgetLeft, [Next]_vars PROVE BudgetLeft'
    OBVIOUS
  <1>1. TypeOK'
    BY StepIInv DEF IInv
  <1>2. CASE Bookkeeping
    <2>1. ep' = ep /\ att' = att
      BY <1>2, BookkeepingEffect DEF IInv
    <2> QED
      BY <1>1, <2>1, ClosingKeeps DEF IInv
  <1> QED
    BY <1>1, <1>2, StepCases, StartBudget, KillBudget, AdmitBudget, PublishBudget,
       QuarantineBudget, StartAttemptBudget, RecordsBudget

\* Failed attempts and re-binds of an episode stay within their budgets, whatever
\* recovers, supersedes, reopens or retries it: the count survives restarts
\* because it is taken from the rows (ShouldRetry, DispatchBinding).
THEOREM BudgetsHoldAlways == Spec => []BudgetsHold
  <1>1. BudgetLeft => BudgetsHold
    BY Zenon DEF BudgetLeft, BudgetsHold, Failures
  <1> QED
    BY Invariance, BudgetInit, BudgetStep, <1>1, PTL DEF Spec
=============================================================================
