------------------------ MODULE StreamEngineProofs ------------------------
(***************************************************************************)
(* The stream engine accounts for every record of the log once, for any     *)
(* number of process lives, entities, partitions, sources, boots and        *)
(* settings, with retries, rollbacks, restarts and handovers at any step    *)
(* and with an inbox that is pruned at any time.                            *)
(***************************************************************************)
EXTENDS StreamEngine, TLAPS

\* The stages between the start of a run and its end.
InRun == {"reading", "before", "apply", "after"}

\* What a row of work holds besides its stage and its place in the log is of
\* no concern here: any set S it comes from will do.
WorkRows(S) == [stage: Stages, pos: Nat, placed: S, now: S, todo: S]

WorkTypeOK == \E S : work \in [Epochs -> WorkRows(S)]

\* Rows of the checkpoint table, of which only the position matters.
CheckpointRows(S) == [pos: Nat, watermark: S, sources: S]

StoreTypeOK ==
    /\ setting \in Settings
    /\ \E S : log \in Seq(S)
    /\ \A i \in Positions : log[i].id = i /\ log[i].ent \in Entities
    /\ changes \in Seq(Nat) /\ Len(changes) = Len(log)
    /\ \E S : checkpoint \in [Partitions -> CheckpointRows(S)]

\* The applied position is the largest one of a checkpoint and lies in the log.
AppliedIsLast ==
    /\ AppliedThrough \in Nat /\ AppliedThrough <= Len(log)
    /\ \A q \in Partitions : checkpoint[q].pos <= AppliedThrough

\* Only a record at or before the applied position was noted late or set aside.
NotedIsApplied ==
    /\ \A x \in lateEvents : \E i \in 1..AppliedThrough, d \in Dispositions : x = <<i, d>>
    /\ applyFailures \subseteq 1..AppliedThrough

\* A run of the process that holds the lease stands at the applied position:
\* nobody else moves it, and a process that lost the lease never holds it
\* again.  A placed record is in the log.
OwnerKeepsUp ==
    \A p \in Epochs :
        /\ Holds(p) /\ work[p].stage \in InRun => work[p].pos = AppliedThrough
        /\ work[p].stage \in {"before", "apply"} =>
              work[p].pos < Len(log) /\ work[p].placed.disposition \in Dispositions

IInv ==
    /\ WorkTypeOK /\ StoreTypeOK
    /\ AppliedIsLast /\ NotedIsApplied /\ OwnerKeepsUp /\ RecordsAccountedOnce

-----------------------------------------------------------------------------
(* Lemmas about the operators.                                              *)

\* Max picks an element that is at least every other.
LEMMA MaxIs ==
  ASSUME NEW S \in SUBSET Nat, NEW n \in S, \A m \in S : m <= n
  PROVE  Max(S) = n
  <1>1. /\ Max(S) \in S
        /\ \A m \in S : Max(S) >= m
    <2>1. \E x \in S : \A m \in S : x >= m
      OBVIOUS
    <2> QED
      BY Zenon, <2>1 DEF Max
  <1>2. \A k \in S : k <= n /\ k >= n => k = n
    OBVIOUS
  <1> QED
    BY <1>1, <1>2, Zenon

\* The placement of an event says how late it is (PlaceInTime).
LEMMA PlacedHasDisposition ==
  ASSUME NEW event, NEW row
  PROVE  PlaceInTime(event, row).disposition \in Dispositions
  <1>1. LatePolicyDisposition \in Dispositions
    BY DEF LatePolicyDisposition, Dispositions, Late
  <1>2. ClassifyLateness(event.at, row.watermark) \in Dispositions
    BY <1>1 DEF ClassifyLateness, Dispositions, Late
  <1> DEFINE placed == PlaceInTime(event, row)
  <1>3. CASE BeyondClockSkew(event)
    BY <1>3 DEF PlaceInTime, Dispositions, Late
  <1>4. CASE ~BeyondClockSkew(event)
    BY <1>2, <1>4 DEF PlaceInTime
  <1> QED
    BY <1>3, <1>4

\* Replacing the row of one process leaves the others.
LEMMA RowReplaced ==
  ASSUME NEW S, work \in [Epochs -> WorkRows(S)], NEW p \in Epochs, NEW T, NEW row \in WorkRows(T),
         work' = [work EXCEPT ![p] = row]
  PROVE  /\ WorkTypeOK'
         /\ work'[p] = row
         /\ \A r \in Epochs : r # p => work'[r] = work[r]
  <1>1. WorkRows(S) \subseteq WorkRows(S \cup T) /\ WorkRows(T) \subseteq WorkRows(S \cup T)
    BY DEF WorkRows
  <1>2. work' \in [Epochs -> WorkRows(S \cup T)]
    BY <1>1
  <1> QED
    BY <1>2 DEF WorkTypeOK

-----------------------------------------------------------------------------
(* Steps that leave the log and what was applied alone.                     *)

\* The tables that say what was applied.
storeVars == <<setting, log, changes, checkpoint, lateEvents, applyFailures>>

\* Without a write to them, what was applied stays what it was.
LEMMA StoreKept ==
  ASSUME IInv, UNCHANGED storeVars
  PROVE  /\ AppliedThrough' = AppliedThrough
         /\ StoreTypeOK' /\ AppliedIsLast' /\ NotedIsApplied' /\ RecordsAccountedOnce'
  <1>1. AppliedThrough' = AppliedThrough
    BY DEF storeVars, AppliedThrough
  <1>2. StoreTypeOK'
    BY DEF IInv, storeVars, StoreTypeOK, Positions
  <1>3. AppliedIsLast' /\ NotedIsApplied'
    BY <1>1 DEF IInv, storeVars, AppliedIsLast, NotedIsApplied
  <1>4. RecordsAccountedOnce'
    BY Zenon, <1>1 DEF IInv, storeVars, RecordsAccountedOnce, Positions
  <1> QED
    BY <1>1, <1>2, <1>3, <1>4

\* The row of one process may change to one that stands where it must.
LEMMA RowMoves ==
  ASSUME IInv, UNCHANGED storeVars, NEW p \in Epochs, NEW T, NEW row \in WorkRows(T),
         work' = [work EXCEPT ![p] = row],
         \A r \in Epochs : r # p /\ Holds(r)' => Holds(r),
         Holds(p)' /\ row.stage \in InRun => row.pos = AppliedThrough,
         row.stage \in {"before", "apply"} =>
            row.pos < Len(log) /\ row.placed.disposition \in Dispositions
  PROVE  IInv'
  <1>1. PICK S : work \in [Epochs -> WorkRows(S)]
    BY DEF IInv, WorkTypeOK
  <1>2. /\ WorkTypeOK'
        /\ work'[p] = row
        /\ \A r \in Epochs : r # p => work'[r] = work[r]
    BY Zenon, <1>1, RowReplaced
  <1>3. AppliedThrough' = AppliedThrough /\ log' = log
    BY StoreKept DEF storeVars
  <1>4. ASSUME NEW r \in Epochs
        PROVE  /\ Holds(r)' /\ work'[r].stage \in InRun => work'[r].pos = AppliedThrough'
               /\ work'[r].stage \in {"before", "apply"} =>
                    work'[r].pos < Len(log') /\ work'[r].placed.disposition \in Dispositions
    <2>1. CASE r = p
      BY <1>2, <1>3, <2>1
    <2>2. CASE r # p
      BY <1>2, <1>3, <2>2 DEF IInv, OwnerKeepsUp
    <2> QED
      BY <2>1, <2>2
  <1>5. OwnerKeepsUp'
    BY <1>4 DEF OwnerKeepsUp
  <1> QED
    BY <1>2, <1>5, StoreKept DEF IInv

\* A step that moves no process and gives nobody the lease.
LEMMA NobodyMoves ==
  ASSUME IInv, UNCHANGED storeVars, UNCHANGED work, \A r \in Epochs : Holds(r)' => Holds(r)
  PROVE  IInv'
  <1>1. AppliedThrough' = AppliedThrough /\ log' = log
    BY StoreKept DEF storeVars
  <1>2. WorkTypeOK'
    BY DEF IInv, WorkTypeOK
  <1>3. OwnerKeepsUp'
    BY <1>1 DEF IInv, OwnerKeepsUp
  <1> QED
    BY <1>2, <1>3, StoreKept DEF IInv

\* Setting some fields of a row of work.
LEMMA RowFields ==
  ASSUME NEW S, NEW row \in WorkRows(S), NEW stage \in Stages, NEW at, NEW todo
  PROVE  /\ [row EXCEPT !.stage = stage] \in WorkRows(S)
         /\ [row EXCEPT !.todo = todo] \in WorkRows(S \cup {todo})
         /\ [row EXCEPT !.stage = stage, !.now = at, !.todo = todo] \in WorkRows(S \cup {at, todo})
  BY Zenon DEF WorkRows

\* A row that is at rest.
LEMMA IdleRow ==
  /\ Idle \in WorkRows({Nothing, 0, {}})
  /\ \A stage \in Stages, n \in Nat :
        [Idle EXCEPT !.stage = stage, !.pos = n] \in WorkRows({Nothing, 0, {}})
  /\ \A stage \in Stages : [Idle EXCEPT !.stage = stage] \in WorkRows({Nothing, 0, {}})
  BY Zenon DEF Idle, WorkRows, Stages

\* The lease lapses, the clock ticks, a version is cited, history is pruned.
LEMMA SurroundingsStep ==
  ASSUME IInv, UNCHANGED setting,
         \/ Tick \/ LeaseEnds
         \/ \E e \in Entities : Cite(e)
         \/ \E before \in PruneTimes \cap 1..now : PruneHistory(before)
  PROVE  IInv'
  <1>1. UNCHANGED storeVars /\ UNCHANGED work
    BY Zenon DEF Tick, LeaseEnds, Cite, PruneHistory, storeVars, streamVars
  <1>2. \A r \in Epochs : Holds(r)' => Holds(r)
    BY Zenon DEF Tick, LeaseEnds, Cite, PruneHistory, fenceVars, Lapse, Holds
  <1> QED
    BY <1>1, <1>2, NobodyMoves

\* A claim takes the lease from everybody else, and its process is not in a run.
LEMMA ClaimStep ==
  ASSUME IInv, UNCHANGED setting, NEW p \in Epochs, Claim(p)
  PROVE  IInv'
  <1>1. PICK S : work \in [Epochs -> WorkRows(S)]
    BY DEF IInv, WorkTypeOK
  <1> DEFINE row == [work[p] EXCEPT !.stage = "claimed"]
  <1>2. row \in WorkRows(S) /\ row.stage = "claimed"
    BY <1>1 DEF Stages, WorkRows
  <1>3. work' = [work EXCEPT ![p] = row]
    BY <1>1 DEF Claim
  <1>4. \A r \in Epochs : r # p /\ Holds(r)' => Holds(r)
    BY DEF Claim, Take, Holds
  <1>5. UNCHANGED storeVars
    BY DEF Claim, storeVars, streamVars
  <1>6. row.stage \notin InRun /\ row.stage \notin {"before", "apply"}
    BY <1>2 DEF InRun
  <1> HIDE DEF row
  <1> QED
    BY Zenon, <1>2, <1>3, <1>4, <1>5, <1>6, RowMoves

\* Building an engine, dying and giving up a transaction leave the run.
LEMMA LeaveRunStep ==
  ASSUME IInv, UNCHANGED setting, NEW p \in Epochs, Build(p) \/ Crash(p) \/ TimersFail(p)
  PROVE  IInv'
  <1>1. PICK row \in {Idle, [Idle EXCEPT !.stage = "stopped"]} : work' = [work EXCEPT ![p] = row]
    BY DEF Build, Crash, TimersFail
  <1>2. row \in WorkRows({Nothing, 0, {}})
    BY Zenon, <1>1, IdleRow DEF Stages
  <1>3. row.stage \in {"idle", "stopped"}
    BY <1>1 DEF Idle
  <1>4. UNCHANGED storeVars /\ UNCHANGED fenceVars
    BY DEF Build, Crash, TimersFail, storeVars, streamVars
  <1>5. \A r \in Epochs : Holds(r)' => Holds(r)
    BY <1>4 DEF fenceVars, Holds
  <1>6. row.stage \notin InRun /\ row.stage \notin {"before", "apply"}
    BY <1>3 DEF InRun
  <1> QED
    BY Zenon, <1>1, <1>2, <1>4, <1>5, <1>6, RowMoves

\* A run begins at the applied position.
LEMMA BeginRunStep ==
  ASSUME IInv, UNCHANGED setting, NEW p \in Epochs, BeginRun(p)
  PROVE  IInv'
  <1> DEFINE row == [Idle EXCEPT !.stage = "reading", !.pos = AppliedThrough]
  <1>1. row \in WorkRows({Nothing, 0, {}}) /\ row.stage = "reading" /\ row.pos = AppliedThrough
    <2>1. AppliedThrough \in Nat
      BY DEF IInv, AppliedIsLast
    <2> QED
      BY Zenon, <2>1, IdleRow DEF Idle, Stages
  <1>2. work' = [work EXCEPT ![p] = row] /\ UNCHANGED storeVars /\ UNCHANGED fenceVars
    BY DEF BeginRun, storeVars, streamVars
  <1>3. \A r \in Epochs : Holds(r)' => Holds(r)
    BY <1>2 DEF fenceVars, Holds
  <1> HIDE DEF row
  <1> QED
    BY Zenon, <1>1, <1>2, <1>3, RowMoves

\* The next record is placed without moving.
LEMMA PrepareRecordStep ==
  ASSUME IInv, UNCHANGED setting, NEW p \in Epochs, PrepareRecord(p)
  PROVE  IInv'
  <1>1. PICK S : work \in [Epochs -> WorkRows(S)]
    BY DEF IInv, WorkTypeOK
  <1>2. PICK placed, todo :
          /\ placed.disposition \in Dispositions
          /\ work' = [work EXCEPT ![p] = [stage |-> "before", pos |-> work[p].pos, placed |-> placed,
                                          now |-> now, todo |-> todo]]
    BY Zenon, PlacedHasDisposition DEF PrepareRecord
  <1> DEFINE row == [stage |-> "before", pos |-> work[p].pos, placed |-> placed, now |-> now, todo |-> todo]
  <1>3. work[p].pos \in Nat
    BY <1>1 DEF WorkRows
  <1>4. /\ row \in WorkRows({placed, now, todo})
        /\ row.stage = "before" /\ row.pos = work[p].pos /\ row.placed = placed
    BY <1>3 DEF WorkRows, Stages
  <1>5. work[p].pos < Len(log) /\ work[p].stage = "reading"
    BY DEF PrepareRecord
  <1>6. UNCHANGED storeVars /\ UNCHANGED fenceVars
    BY DEF PrepareRecord, storeVars, streamVars
  <1>7. \A r \in Epochs : Holds(r)' => Holds(r)
    BY <1>6 DEF fenceVars, Holds
  <1>8. Holds(p)' => row.pos = AppliedThrough
    BY <1>4, <1>5, <1>7 DEF IInv, OwnerKeepsUp, InRun
  <1>9. work' = [work EXCEPT ![p] = row]
    BY <1>2
  <1> HIDE DEF row
  <1> QED
    BY Zenon, <1>2, <1>4, <1>5, <1>6, <1>7, <1>8, <1>9, RowMoves

\* The end of the log, the listed timers and their firing leave the position
\* and the placement of the run; after the last timers it goes on to apply the
\* placed record, or it ends.
LEMMA TimerStep ==
  ASSUME IInv, UNCHANGED setting, NEW p \in Epochs,
         FinishGlobalRun(p) \/ TimersDone(p) \/ FireDueTimers(p) \/ SetAsideDueTimers(p)
  PROVE  IInv'
  <1>1. PICK S : work \in [Epochs -> WorkRows(S)]
    BY DEF IInv, WorkTypeOK
  <1>2. UNCHANGED storeVars /\ UNCHANGED fenceVars
    BY DEF FinishGlobalRun, TimersDone, FireDueTimers, SetAsideDueTimers, storeVars, streamVars
  <1>3. \A r \in Epochs : Holds(r)' => Holds(r)
    BY <1>2 DEF fenceVars, Holds
  <1>4. work[p] \in WorkRows(S)
    BY <1>1
  <1>5. CASE FinishGlobalRun(p)
    <2> DEFINE todo == DueTimerPartitions(now)
               row == [work[p] EXCEPT !.stage = "after", !.now = now, !.todo = todo]
    <2>1. row \in WorkRows(S \cup {now, todo})
      <3> HIDE DEF todo
      <3> QED
        BY Zenon, <1>4, RowFields DEF Stages
    <2>2. row.stage = "after" /\ row.pos = work[p].pos
      BY <1>4 DEF WorkRows
    <2>3. work' = [work EXCEPT ![p] = row]
      BY Zenon, <1>1, <1>5 DEF FinishGlobalRun
    <2>4. Holds(p)' => row.pos = AppliedThrough
      BY <1>3, <1>5, <2>2 DEF FinishGlobalRun, IInv, OwnerKeepsUp, InRun
    <2> HIDE DEF row
    <2> QED
      BY Zenon, <1>2, <1>3, <2>1, <2>2, <2>3, <2>4, RowMoves
  <1>6. CASE TimersDone(p) /\ work[p].stage = "before"
    <2> DEFINE row == [work[p] EXCEPT !.stage = "apply"]
    <2>1. row \in WorkRows(S)
      BY Zenon, <1>4, RowFields DEF Stages
    <2>2. row.stage = "apply" /\ row.pos = work[p].pos /\ row.placed = work[p].placed
      BY <1>4 DEF WorkRows
    <2>3. work' = [work EXCEPT ![p] = row]
      BY <1>1, <1>6 DEF TimersDone
    <2>4. /\ Holds(p)' => row.pos = AppliedThrough
          /\ row.pos < Len(log) /\ row.placed.disposition \in Dispositions
      BY <1>3, <1>6, <2>2 DEF IInv, OwnerKeepsUp, InRun
    <2> HIDE DEF row
    <2> QED
      BY Zenon, <1>2, <1>3, <2>1, <2>2, <2>3, <2>4, RowMoves
  <1>7. CASE TimersDone(p) /\ work[p].stage # "before"
    <2>1. work' = [work EXCEPT ![p] = Idle]
      BY <1>1, <1>7 DEF TimersDone
    <2>2. Idle \in WorkRows({Nothing, 0, {}}) /\ Idle.stage \notin InRun /\ Idle.stage \notin {"before", "apply"}
      BY Zenon, IdleRow DEF Idle, InRun
    <2> QED
      BY Zenon, <1>2, <1>3, <2>1, <2>2, RowMoves
  <1>8. CASE FireDueTimers(p) \/ SetAsideDueTimers(p)
    <2>1. PICK todo : work' = [work EXCEPT ![p].todo = todo]
      BY Zenon, <1>1, <1>8 DEF FireDueTimers, SetAsideDueTimers
    <2> DEFINE row == [work[p] EXCEPT !.todo = todo]
    <2>2. row \in WorkRows(S \cup {todo})
      BY Zenon, <1>4, RowFields DEF Stages
    <2>3. row.stage = work[p].stage /\ row.pos = work[p].pos /\ row.placed = work[p].placed
      BY <1>4 DEF WorkRows
    <2>4. work' = [work EXCEPT ![p] = row]
      BY <1>1, <2>1
    <2>5. /\ Holds(p)' /\ row.stage \in InRun => row.pos = AppliedThrough
          /\ row.stage \in {"before", "apply"} =>
                row.pos < Len(log) /\ row.placed.disposition \in Dispositions
      BY <1>3, <2>3 DEF IInv, OwnerKeepsUp
    <2> HIDE DEF row
    <2> QED
      BY Zenon, <1>2, <1>3, <2>2, <2>4, <2>5, RowMoves
  <1> QED
    BY <1>5, <1>6, <1>7, <1>8

\* A transaction that does not commit leaves the run where it is or ends it.
LEMMA ApplyFailsStep ==
  ASSUME IInv, UNCHANGED setting, NEW p \in Epochs, ApplyFails(p)
  PROVE  IInv'
  <1>1. UNCHANGED storeVars /\ UNCHANGED fenceVars
    BY DEF ApplyFails, storeVars, streamVars
  <1>2. \A r \in Epochs : Holds(r)' => Holds(r)
    BY <1>1 DEF fenceVars, Holds
  <1>3. CASE work' = work
    BY <1>1, <1>2, <1>3, NobodyMoves
  <1>4. CASE work' = [work EXCEPT ![p] = Idle]
    <2>1. Idle \in WorkRows({Nothing, 0, {}}) /\ Idle.stage \notin InRun /\ Idle.stage \notin {"before", "apply"}
      BY Zenon, IdleRow DEF Idle, InRun
    <2> QED
      BY Zenon, <1>1, <1>2, <1>4, <2>1, RowMoves
  <1> QED
    BY <1>3, <1>4 DEF ApplyFails

-----------------------------------------------------------------------------
(* The log grows, and records are applied.                                  *)

\* A new event lies beyond the applied position and has changed nothing.
LEMMA AppendEventStep ==
  ASSUME IInv, UNCHANGED setting, NEW shape \in EventShapes, AppendEvent(shape)
  PROVE  IInv'
  <1> DEFINE row == log'[Len(log) + 1]
             n == Len(log) + 1
  <1>1. PICK S : log \in Seq(S)
    BY DEF IInv, StoreTypeOK
  <1>2. changes \in Seq(Nat) /\ Len(changes) = Len(log) /\ Len(log) \in Nat
    BY <1>1 DEF IInv, StoreTypeOK
  <1>3. shape.ent \in Entities
    BY StreamEngineAssumption DEF IInv, StoreTypeOK, EventShapes
  <1>4. PICK r : log' = Append(log, r) /\ r.id = Len(log) + 1 /\ r.ent = shape.ent
    BY DEF AppendEvent
  <1>5. /\ log' \in Seq(S \cup {r}) /\ Len(log') = n /\ log'[n] = r
        /\ \A i \in 1..Len(log) : log'[i] = log[i]
    BY <1>1, <1>4
  <1>6. /\ changes' \in Seq(Nat) /\ Len(changes') = n /\ changes'[n] = 0
        /\ \A i \in 1..Len(log) : changes'[i] = changes[i]
    BY <1>2 DEF AppendEvent
  <1>7. UNCHANGED <<checkpoint, lateEvents, applyFailures, work, owner, valid>>
    BY DEF AppendEvent, streamVars, fenceVars
  <1>8. AppliedThrough' = AppliedThrough
    BY <1>7 DEF AppliedThrough
  <1>9. StoreTypeOK'
    <2>1. \A i \in Positions' : log'[i].id = i /\ log'[i].ent \in Entities
      BY <1>2, <1>3, <1>4, <1>5 DEF IInv, StoreTypeOK, Positions
    <2> QED
      BY <1>2, <1>5, <1>6, <1>7, <2>1 DEF IInv, StoreTypeOK
  <1>10. AppliedIsLast' /\ NotedIsApplied'
    BY <1>2, <1>5, <1>7, <1>8 DEF IInv, AppliedIsLast, NotedIsApplied
  <1>11. WorkTypeOK' /\ OwnerKeepsUp'
    <2>1. WorkTypeOK'
      BY <1>7 DEF IInv, WorkTypeOK
    <2>2. PICK T : work \in [Epochs -> WorkRows(T)]
      BY DEF IInv, WorkTypeOK
    <2>3. \A p \in Epochs : work[p].pos \in Nat
      BY <2>2 DEF WorkRows
    <2>4. \A p \in Epochs : Holds(p)' <=> Holds(p)
      BY <1>7 DEF Holds
    <2> QED
      BY <1>2, <1>5, <1>7, <1>8, <2>1, <2>3, <2>4 DEF IInv, OwnerKeepsUp
  <1>12. RecordsAccountedOnce'
    <2>1. ASSUME NEW i \in 1..Len(log)
          PROVE  LET passed == \E d \in Dispositions : <<i, d>> \in lateEvents /\ ~ChangesState(d)
                 IN IF i > AppliedThrough THEN changes'[i] = 0 /\ ~passed /\ i \notin applyFailures
                    ELSE changes'[i] + (IF passed THEN 1 ELSE 0) + (IF i \in applyFailures THEN 1 ELSE 0) = 1
      BY Zenon, <1>6 DEF IInv, RecordsAccountedOnce, Positions
    <2>2. n > AppliedThrough /\ n \notin 1..AppliedThrough
      BY <1>2 DEF IInv, AppliedIsLast
    <2>3. n \notin applyFailures
      BY <2>2 DEF IInv, NotedIsApplied
    <2>4. ~\E d \in Dispositions : <<n, d>> \in lateEvents
      BY Zenon, <2>2 DEF IInv, NotedIsApplied
    <2>5. Positions' = 1..Len(log) \cup {n}
      BY <1>2, <1>5 DEF Positions
    <2> QED
      BY <1>6, <1>7, <1>8, <2>1, <2>2, <2>3, <2>4, <2>5 DEF RecordsAccountedOnce
  <1> QED
    BY <1>9, <1>10, <1>11, <1>12 DEF IInv

\* The record a lease holder applies is the first one beyond the applied
\* position, and afterwards it is the applied position (RecordApplied).
LEMMA RecordAppliedMoves ==
  ASSUME IInv, NEW p \in Epochs, work[p].stage = "apply", Holds(p), RecordApplied(p), NEW n, n = work[p].pos + 1
  PROVE  /\ n \in Positions /\ n = AppliedThrough + 1 /\ Record(p).id = n
         /\ AppliedThrough' = n
         /\ \A q \in Partitions : checkpoint'[q].pos <= n
         /\ \E S : checkpoint' \in [Partitions -> CheckpointRows(S)]
  <1>1. /\ work[p].pos = AppliedThrough /\ work[p].pos < Len(log)
        /\ AppliedThrough \in Nat
    BY DEF IInv, OwnerKeepsUp, InRun, AppliedIsLast
  <1>2. PICK T : log \in Seq(T)
    BY DEF IInv, StoreTypeOK
  <1>3. n \in Positions /\ n = AppliedThrough + 1 /\ n \in Nat
    BY <1>1, <1>2 DEF Positions
  <1>4. Record(p).id = n /\ Record(p).ent \in Entities
    BY <1>3 DEF Record, IInv, StoreTypeOK
  <1>5. PICK S : checkpoint \in [Partitions -> CheckpointRows(S)]
    BY DEF IInv, StoreTypeOK
  <1> DEFINE q0 == PartitionOf[Record(p).ent]
             row == [pos |-> n, watermark |-> work[p].placed.watermark, sources |-> work[p].placed.sources]
             U == S \cup {work[p].placed.watermark, work[p].placed.sources}
  <1>6. q0 \in Partitions /\ checkpoint' = [checkpoint EXCEPT ![q0] = row]
    BY <1>4 DEF RecordApplied, Partitions
  <1>7. row \in CheckpointRows(U) /\ CheckpointRows(S) \subseteq CheckpointRows(U) /\ row.pos = n
    BY <1>3 DEF CheckpointRows
  <1> HIDE DEF q0, row, U
  <1>8. checkpoint' \in [Partitions -> CheckpointRows(U)]
    BY <1>5, <1>6, <1>7
  <1>9. checkpoint'[q0].pos = n /\ \A q \in Partitions : q # q0 => checkpoint'[q] = checkpoint[q]
    BY <1>5, <1>6, <1>7
  <1>10. \A q \in Partitions : checkpoint'[q].pos \in Nat /\ checkpoint'[q].pos <= n
    <2>1. \A q \in Partitions : checkpoint[q].pos \in Nat /\ checkpoint[q].pos <= AppliedThrough
      BY <1>5 DEF IInv, AppliedIsLast, CheckpointRows
    <2> QED
      BY <1>1, <1>3, <1>9, <2>1
  <1>11. AppliedThrough' = n
    <2> DEFINE S1 == {checkpoint'[q].pos : q \in Partitions} \cup {0}
    <2>1. S1 \in SUBSET Nat /\ n \in S1 /\ \A m \in S1 : m <= n
      BY <1>3, <1>6, <1>9, <1>10
    <2>2. AppliedThrough' = Max(S1)
      BY DEF AppliedThrough
    <2> HIDE DEF S1
    <2> QED
      BY Zenon, <2>1, <2>2, MaxIs
  <1> QED
    BY <1>3, <1>4, <1>8, <1>10, <1>11

\* A transaction that applies record n and accounts for it in one way keeps the
\* invariant: beyond the applied position nothing was recorded before it, and
\* the processes that do not hold the lease are not bound to the position.
LEMMA RecordAccounted ==
  ASSUME IInv, NEW p \in Epochs, work[p].stage = "apply", Holds(p), RecordApplied(p),
         UNCHANGED <<setting, log, owner, valid>>, work' = [work EXCEPT ![p] = NextRecord(p)],
         NEW n, n = work[p].pos + 1, NEW d, d = work[p].placed.disposition,
         changes' \in Seq(Nat), Len(changes') = Len(changes),
         \A i \in Positions : i # n => changes'[i] = changes[i],
         lateEvents' \in {lateEvents, lateEvents \cup {<<n, d>>}},
         applyFailures' \in {applyFailures, applyFailures \cup {n}},
         changes'[n] + (IF <<n, d>> \in lateEvents' /\ ~ChangesState(d) THEN 1 ELSE 0)
                     + (IF n \in applyFailures' THEN 1 ELSE 0) = 1
  PROVE  IInv'
  <1>1. /\ n \in Positions /\ n = AppliedThrough + 1 /\ AppliedThrough' = n
        /\ \A q \in Partitions : checkpoint'[q].pos <= n
        /\ \E S : checkpoint' \in [Partitions -> CheckpointRows(S)]
    BY Zenon, RecordAppliedMoves
  <1>2. d \in Dispositions
    BY DEF IInv, OwnerKeepsUp
  <1>3. PICK T : log \in Seq(T)
    BY DEF IInv, StoreTypeOK
  <1>4. AppliedThrough \in Nat /\ n \in Nat /\ n \in 1..Len(log)
    BY <1>1, <1>3 DEF IInv, AppliedIsLast, Positions
  <1>5. StoreTypeOK'
    BY Zenon, <1>1 DEF IInv, StoreTypeOK, Positions
  <1>6. AppliedIsLast'
    BY <1>1, <1>4 DEF AppliedIsLast
  <1>7. NotedIsApplied'
    <2>1. 1..AppliedThrough \subseteq 1..n /\ n \in 1..n
      BY <1>1, <1>4
    <2>2. applyFailures' \subseteq 1..n
      BY Zenon, <2>1 DEF IInv, NotedIsApplied
    <2>3. \A x \in lateEvents' : \E i \in 1..n, k \in Dispositions : x = <<i, k>>
      BY Zenon, <1>2, <2>1 DEF IInv, NotedIsApplied
    <2> QED
      BY <1>1, <2>2, <2>3 DEF NotedIsApplied
  <1>8. WorkTypeOK' /\ OwnerKeepsUp'
    <2>1. PICK S : work \in [Epochs -> WorkRows(S)]
      BY DEF IInv, WorkTypeOK
    <2>2. /\ NextRecord(p) \in WorkRows({Nothing, 0, {}})
          /\ NextRecord(p).stage = "reading" /\ NextRecord(p).pos = n
      BY Zenon, <1>4, IdleRow DEF NextRecord, Idle, Stages
    <2>3. /\ WorkTypeOK' /\ work'[p] = NextRecord(p)
          /\ \A r \in Epochs : r # p => work'[r] = work[r]
      BY Zenon, <2>1, <2>2, RowReplaced
    <2>4. \A r \in Epochs : r # p => ~Holds(r)'
      BY DEF Holds
    <2>5. ASSUME NEW r \in Epochs
          PROVE  /\ Holds(r)' /\ work'[r].stage \in InRun => work'[r].pos = AppliedThrough'
                 /\ work'[r].stage \in {"before", "apply"} =>
                      work'[r].pos < Len(log') /\ work'[r].placed.disposition \in Dispositions
      <3>1. CASE r = p
        BY <1>1, <2>2, <2>3, <3>1
      <3>2. CASE r # p
        BY <2>3, <2>4, <3>2 DEF IInv, OwnerKeepsUp
      <3> QED
        BY <3>1, <3>2
    <2> QED
      BY <2>3, <2>5 DEF OwnerKeepsUp
  <1>9. RecordsAccountedOnce'
    <2> DEFINE passed(i) == \E k \in Dispositions : <<i, k>> \in lateEvents /\ ~ChangesState(k)
               later(i) == \E k \in Dispositions : <<i, k>> \in lateEvents' /\ ~ChangesState(k)
    <2>1. ~\E k \in Dispositions : <<n, k>> \in lateEvents
      <3>1. n \notin 1..AppliedThrough
        BY <1>1, <1>4
      <3> QED
        BY Zenon, <3>1 DEF IInv, NotedIsApplied
    <2>2. later(n) <=> <<n, d>> \in lateEvents' /\ ~ChangesState(d)
      BY Zenon, <1>2, <2>1
    <2>3. \A i \in Positions : i # n => (later(i) <=> passed(i)) /\ (i \in applyFailures' <=> i \in applyFailures)
      <3> SUFFICES ASSUME NEW i \in Positions, i # n
                   PROVE  (later(i) <=> passed(i)) /\ (i \in applyFailures' <=> i \in applyFailures)
        BY Zenon
      <3>1. \A k : <<i, k>> \in lateEvents' <=> <<i, k>> \in lateEvents
        OBVIOUS
      <3> QED
        BY Zenon, <3>1
    <2>4. \A i \in Positions : i # n => (i > n <=> i > AppliedThrough)
      BY <1>1, <1>3, <1>4 DEF Positions
    <2>5. \A i \in Positions :
             IF i > AppliedThrough THEN changes[i] = 0 /\ ~passed(i) /\ i \notin applyFailures
             ELSE changes[i] + (IF passed(i) THEN 1 ELSE 0) + (IF i \in applyFailures THEN 1 ELSE 0) = 1
      BY DEF IInv, RecordsAccountedOnce
    <2>6. ~(n > n)
      BY <1>4
    <2>7. changes'[n] + (IF later(n) THEN 1 ELSE 0) + (IF n \in applyFailures' THEN 1 ELSE 0) = 1
      BY Zenon, <2>2
    <2> HIDE DEF passed, later
    <2>8. \A i \in Positions :
             IF i > n THEN changes'[i] = 0 /\ ~later(i) /\ i \notin applyFailures'
             ELSE changes'[i] + (IF later(i) THEN 1 ELSE 0) + (IF i \in applyFailures' THEN 1 ELSE 0) = 1
      BY <2>3, <2>4, <2>5, <2>6, <2>7
    <2>9. Positions' = Positions
      BY DEF Positions
    <2> QED
      BY Zenon, <1>1, <2>8, <2>9 DEF RecordsAccountedOnce, later
  <1> QED
    BY <1>5, <1>6, <1>7, <1>8, <1>9 DEF IInv

\* A record that changes state is counted once, however late it was.
LEMMA ApplyRecordStep ==
  ASSUME IInv, UNCHANGED setting, NEW p \in Epochs, ApplyRecord(p)
  PROVE  IInv'
  <1> PICK n, d : n = work[p].pos + 1 /\ d = work[p].placed.disposition
    OBVIOUS
  <1>1. work[p].stage = "apply" /\ Holds(p) /\ RecordApplied(p) /\ ChangesState(d)
    BY DEF ApplyRecord, ChangingRecord
  <1>2. n \in Positions /\ n = AppliedThrough + 1 /\ Record(p).id = n
    BY <1>1, RecordAppliedMoves
  <1>3. /\ UNCHANGED <<setting, log, owner, valid, applyFailures>>
        /\ work' = [work EXCEPT ![p] = NextRecord(p)]
        /\ changes' = [changes EXCEPT ![n] = @ + 1]
    BY Zenon, <1>2 DEF ApplyRecord, fenceVars
  <1>4. lateEvents' \in {lateEvents, lateEvents \cup {<<n, d>>}}
    BY <1>2 DEF ApplyRecord, RecordLateness
  <1>5. changes \in Seq(Nat) /\ Len(changes) = Len(log) /\ AppliedThrough \in Nat
    BY DEF IInv, StoreTypeOK, AppliedIsLast
  <1>6. changes[n] = 0 /\ n \notin applyFailures
    BY <1>2, <1>5 DEF IInv, RecordsAccountedOnce
  <1>7. n \in 1..Len(changes)
    BY <1>2, <1>5 DEF Positions
  <1>8. /\ changes' \in Seq(Nat) /\ Len(changes') = Len(changes) /\ changes'[n] = 1
        /\ \A i \in Positions : i # n => changes'[i] = changes[i]
    BY <1>3, <1>5, <1>6, <1>7 DEF Positions
  <1>9. changes'[n] + (IF <<n, d>> \in lateEvents' /\ ~ChangesState(d) THEN 1 ELSE 0)
                    + (IF n \in applyFailures' THEN 1 ELSE 0) = 1
    BY <1>1, <1>3, <1>6, <1>8
  <1> QED
    BY Zenon, <1>1, <1>3, <1>4, <1>8, <1>9, RecordAccounted

\* A record too late to change state is noted, and counted as passed.
LEMMA PassRecordStep ==
  ASSUME IInv, UNCHANGED setting, NEW p \in Epochs, PassRecord(p)
  PROVE  IInv'
  <1> PICK n, d : n = work[p].pos + 1 /\ d = work[p].placed.disposition
    OBVIOUS
  <1>1. work[p].stage = "apply" /\ Holds(p) /\ RecordApplied(p) /\ ~ChangesState(d)
    BY DEF PassRecord, ChangingRecord
  <1>2. n \in Positions /\ n = AppliedThrough + 1 /\ Record(p).id = n
    BY Zenon, <1>1, RecordAppliedMoves
  <1>3. /\ UNCHANGED <<setting, log, owner, valid, applyFailures, changes>>
        /\ work' = [work EXCEPT ![p] = NextRecord(p)]
    BY DEF PassRecord, fenceVars
  <1>4. d # "on_time"
    BY <1>1 DEF ChangesState
  <1>5. lateEvents' = lateEvents \cup {<<n, d>>}
    BY Zenon, <1>2, <1>4 DEF PassRecord, RecordLateness
  <1>6. changes \in Seq(Nat) /\ AppliedThrough \in Nat
    BY Zenon DEF IInv, StoreTypeOK, AppliedIsLast
  <1>7. changes[n] = 0 /\ n \notin applyFailures
    BY <1>2, <1>6 DEF IInv, RecordsAccountedOnce
  <1>8. changes'[n] + (IF <<n, d>> \in lateEvents' /\ ~ChangesState(d) THEN 1 ELSE 0)
                    + (IF n \in applyFailures' THEN 1 ELSE 0) = 1
    BY <1>1, <1>3, <1>5, <1>7
  <1> QED
    BY Zenon, <1>1, <1>3, <1>5, <1>6, <1>8, RecordAccounted

\* A record whose rules always fail is set aside, and counted as that.
LEMMA SetAsideRecordStep ==
  ASSUME IInv, UNCHANGED setting, NEW p \in Epochs, SetAsideFailedRecord(p)
  PROVE  IInv'
  <1> PICK n, d : n = work[p].pos + 1 /\ d = work[p].placed.disposition
    OBVIOUS
  <1>1. work[p].stage = "apply" /\ Holds(p) /\ RecordApplied(p) /\ ChangesState(d)
    BY Zenon DEF SetAsideFailedRecord, ChangingRecord
  <1>2. n \in Positions /\ n = AppliedThrough + 1 /\ Record(p).id = n
    BY <1>1, RecordAppliedMoves
  <1>3. /\ UNCHANGED <<setting, log, owner, valid, lateEvents, changes>>
        /\ work' = [work EXCEPT ![p] = NextRecord(p)]
        /\ applyFailures' = applyFailures \cup {n}
    BY Zenon, <1>2 DEF SetAsideFailedRecord, fenceVars
  <1>4. changes \in Seq(Nat) /\ AppliedThrough \in Nat
    BY DEF IInv, StoreTypeOK, AppliedIsLast
  <1>5. changes[n] = 0
    BY <1>2, <1>4 DEF IInv, RecordsAccountedOnce
  <1>6. changes'[n] + (IF <<n, d>> \in lateEvents' /\ ~ChangesState(d) THEN 1 ELSE 0)
                    + (IF n \in applyFailures' THEN 1 ELSE 0) = 1
    BY <1>1, <1>3, <1>5
  <1> QED
    BY Zenon, <1>1, <1>3, <1>4, <1>6, RecordAccounted

-----------------------------------------------------------------------------
(* The theorem.                                                             *)

LEMMA InitIInv == Init => IInv
  <1> SUFFICES ASSUME Init PROVE IInv
    OBVIOUS
  <1>1. Idle \in WorkRows({Nothing, 0, {}}) /\ [Idle EXCEPT !.stage = "down"] \in WorkRows({Nothing, 0, {}})
    BY Zenon, IdleRow DEF Stages
  <1>2. work \in [Epochs -> WorkRows({Nothing, 0, {}})] /\ \A p \in Epochs : work[p].stage = "down"
    BY <1>1 DEF Init, Idle
  <1>3. WorkTypeOK /\ OwnerKeepsUp
    BY <1>2 DEF WorkTypeOK, OwnerKeepsUp, InRun
  <1>4. Len(log) = 0 /\ log \in Seq({}) /\ changes \in Seq(Nat) /\ Len(changes) = 0
    BY DEF Init
  <1>5. /\ checkpoint \in [Partitions -> CheckpointRows({NoTime, [s \in Sources |-> NoClock]})]
        /\ \A q \in Partitions : checkpoint[q].pos = 0
    BY DEF Init, NewCheckpoint, CheckpointRows
  <1>6. AppliedThrough = 0
    <2> DEFINE S == {checkpoint[q].pos : q \in Partitions} \cup {0}
    <2>1. S \in SUBSET Nat /\ 0 \in S /\ \A m \in S : m <= 0
      BY <1>5
    <2> HIDE DEF S
    <2>2. Max(S) = 0
      BY <2>1, MaxIs
    <2> QED
      BY <2>2 DEF AppliedThrough, S
  <1>7. Positions = {}
    BY <1>4 DEF Positions
  <1>8. StoreTypeOK
    BY <1>4, <1>5, <1>7 DEF StoreTypeOK, Init
  <1>9. AppliedIsLast /\ NotedIsApplied
    BY <1>4, <1>5, <1>6 DEF AppliedIsLast, NotedIsApplied, Init
  <1>10. RecordsAccountedOnce
    BY <1>7 DEF RecordsAccountedOnce
  <1> QED
    BY <1>3, <1>8, <1>9, <1>10 DEF IInv

LEMMA StepIInv == IInv /\ [Next]_<<vars, setting>> => IInv'
  <1> SUFFICES ASSUME IInv, [Next]_<<vars, setting>> PROVE IInv'
    OBVIOUS
  <1>1. CASE UNCHANGED <<vars, setting>>
    <2>1. UNCHANGED storeVars /\ UNCHANGED work /\ UNCHANGED <<owner, valid>>
      BY <1>1 DEF vars, storeVars, streamVars, fenceVars
    <2>2. \A r \in Epochs : Holds(r)' => Holds(r)
      BY <2>1 DEF Holds
    <2> QED
      BY <2>1, <2>2, NobodyMoves
  <1>2. CASE Next
    <2>1. UNCHANGED setting /\ setting.epochs \subseteq Epochs
      BY <1>2, StreamEngineAssumption DEF Next, IInv, StoreTypeOK
    <2>2. ASSUME NEW p \in setting.epochs,
                 \/ Claim(p) \/ Build(p) \/ Crash(p)
                 \/ BeginRun(p) \/ PrepareRecord(p) \/ FinishGlobalRun(p) \/ TimersDone(p)
                 \/ FireDueTimers(p) \/ SetAsideDueTimers(p) \/ TimersFail(p)
                 \/ ApplyRecord(p) \/ PassRecord(p) \/ SetAsideFailedRecord(p) \/ ApplyFails(p)
          PROVE  IInv'
      <3>1. p \in Epochs
        BY <2>1
      <3> QED
        BY Zenon, <2>1, <2>2, <3>1, ClaimStep, LeaveRunStep, BeginRunStep, PrepareRecordStep, TimerStep,
           ApplyRecordStep, PassRecordStep, SetAsideRecordStep, ApplyFailsStep
    <2>3. ASSUME NEW shape \in EventShapes, AppendEvent(shape) PROVE IInv'
      BY <2>1, <2>3, AppendEventStep
    <2> QED
      BY <1>2, <2>1, <2>2, <2>3, SurroundingsStep, Zenon DEF Next, Step
  <1> QED
    BY <1>1, <1>2

\* Every record of the log is applied once and in order, across retries,
\* rollbacks, restarts, handovers of the lease and the pruning of the inbox: up
\* to the applied position it changed state once, or was passed as late, or was
\* set aside, and beyond it none had any effect (applyRecordInTx, BeginRun from
\* the checkpoints, and the fence every transaction asserts).
THEOREM RecordsOnce == Spec => []RecordsAccountedOnce
  <1>1. IInv => RecordsAccountedOnce
    BY DEF IInv
  <1> QED
    BY InitIInv, StepIInv, <1>1, PTL DEF Spec

\* The process that holds the lease is never behind or ahead of the checkpoints
\* in a run, and the applied position lies in the log, so a run after a handover
\* neither skips a record nor meets one it already applied.
THEOREM RunsKeepUp == Spec => [](AppliedIsLast /\ OwnerKeepsUp)
  <1>1. IInv => AppliedIsLast /\ OwnerKeepsUp
    BY DEF IInv
  <1> QED
    BY InitIInv, StepIInv, <1>1, PTL DEF Spec
=============================================================================
