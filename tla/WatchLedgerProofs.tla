-------------------------- MODULE WatchLedgerProofs --------------------------
(***************************************************************************)
(* Proofs about WatchLedger, for every set of processes, watches, install  *)
(* commands and events: the allowance of a watch is exact, what fired was  *)
(* in scope, and an installed watch is final.                              *)
(*                                                                         *)
(* The inductive invariant adds to these where a batch stands: the event a *)
(* process is working on is in the log, and every fire is of a watch that  *)
(* is installed and of an event that is in the log.                        *)
(***************************************************************************)
EXTENDS WatchLedger, FiniteSetTheorems, TLAPS

Conditions == [situation: Situations, target: Targets, expires: Nat, max: Nat]
Rows == [condition: Conditions, remaining: Nat, status: Status]
Fires == [watch: Watches, event: Nat, at: Nat]
Steps == {"idle", "ingested", "page", "event", "candidates", "fire"}
Batches ==
    [at: Steps, cursor: Nat, last: Nat, candidates: SUBSET Watches, watch: Watches \cup {"none"},
     matched: BOOLEAN, stamp: Nat]

LedgerTypeOK ==
    /\ DOMAIN watches \subseteq Watches
    /\ watches \in [DOMAIN watches -> Rows]
    /\ fires \subseteq Fires
    /\ IsFiniteSet(fires)

BatchTypeOK ==
    /\ now \in Nat
    /\ log \in Seq(Targets)
    /\ proc \in [Epochs -> Batches]

\* A batch never stands beyond the end of the log, and an event it offers to
\* watches is in the log.
BatchesInLog ==
    \A e \in Epochs :
        /\ proc[e].cursor <= Len(log) /\ proc[e].last <= Len(log)
        /\ proc[e].at \in {"candidates", "fire"} => proc[e].cursor > 0

\* Every fire is of an installed watch and of an event in the log.
FiresKnown == \A f \in fires : f.watch \in DOMAIN watches /\ f.event \in 1 .. Len(log)

IInv == LedgerTypeOK /\ BatchTypeOK /\ BatchesInLog /\ FiresKnown /\ AllowanceHolds /\ FiredInScope

-----------------------------------------------------------------------------
(* The operators of the store. *)

\* ExpireDue touches nothing of a row but the status of an active one.
LEMMA ExpireRow ==
  ASSUME NEW rows, rows \in [DOMAIN rows -> Rows], NEW at, NEW w \in DOMAIN rows
  PROVE  /\ ExpireDue(rows, at)[w] \in Rows
         /\ ExpireDue(rows, at)[w].condition = rows[w].condition
         /\ ExpireDue(rows, at)[w].remaining = rows[w].remaining
         /\ \/ ExpireDue(rows, at)[w] = rows[w]
            \/ rows[w].status = "active" /\ ExpireDue(rows, at)[w].status = "expired"
  <1>1. rows[w] \in Rows
    OBVIOUS
  <1>2. CASE Due(rows[w], at)
    <2>1. ExpireDue(rows, at)[w] = [rows[w] EXCEPT !.status = "expired"]
      BY <1>2 DEF ExpireDue
    <2>2. rows[w].status = "active"
      BY <1>2 DEF Due
    <2> QED
      BY <1>1, <2>1, <2>2 DEF Rows, Status
  <1>3. CASE ~Due(rows[w], at)
    BY <1>1, <1>3 DEF ExpireDue
  <1> QED
    BY <1>2, <1>3

LEMMA ExpireDomain ==
  ASSUME NEW rows, NEW at
  PROVE  DOMAIN ExpireDue(rows, at) = DOMAIN rows
  BY DEF ExpireDue

\* SpendAllowance takes one unit and disables the watch with its last one.
LEMMA SpendRow ==
  ASSUME NEW row \in Rows, row.remaining > 0, row.status = "active"
  PROVE  /\ SpendAllowance(row) \in Rows
         /\ SpendAllowance(row).condition = row.condition
         /\ SpendAllowance(row).remaining = row.remaining - 1
         /\ SpendAllowance(row).remaining = 0 <=> SpendAllowance(row).status = "disabled"
  <1> DEFINE left == [row EXCEPT !.remaining = row.remaining - 1]
             status == IF row.remaining = 1 THEN "disabled" ELSE row.status
  <1>1. left \in Rows /\ left.condition = row.condition /\ left.remaining = row.remaining - 1
    BY DEF Rows
  <1>2. SpendAllowance(row) = [left EXCEPT !.status = status]
    BY Zenon DEF SpendAllowance
  <1>3. status \in Status /\ (row.remaining - 1 = 0 <=> status = "disabled")
    BY DEF Status, Rows
  <1> HIDE DEF left, status
  <1> QED
    BY <1>1, <1>2, <1>3 DEF Rows

LEMMA InsertRow ==
  ASSUME NEW rows, rows \in [DOMAIN rows -> Rows], NEW w, w \notin DOMAIN rows, NEW c \in Conditions
  PROVE  /\ DOMAIN InsertCondition(rows, w, c) = DOMAIN rows \cup {w}
         /\ InsertCondition(rows, w, c)[w] = [condition |-> c, remaining |-> c.max, status |-> "active"]
         /\ InsertCondition(rows, w, c)[w] \in Rows
         /\ \A x \in DOMAIN rows : InsertCondition(rows, w, c)[x] = rows[x]
  BY DEF InsertCondition, Rows, Conditions, Status

-----------------------------------------------------------------------------
(* Where a batch stands. *)

\* A batch that stands within a log of n events.
InLog(b, n) ==
    /\ b.cursor <= n /\ b.last <= n
    /\ b.at \in {"candidates", "fire"} => b.cursor > 0

\* The moves of a batch.
AtCursor(b, s, k) == [b EXCEPT !.at = s, !.cursor = k]
AtLast(b, s, k) == [b EXCEPT !.at = s, !.last = k]
AtEvent(b, s, k, cs) == [b EXCEPT !.at = s, !.cursor = k, !.candidates = cs]
AtFire(b, w, m, t) == [b EXCEPT !.at = "fire", !.watch = w, !.matched = m, !.stamp = t]

LEMMA IdleBatch == Idle \in Batches /\ \A n \in Nat : InLog(Idle, n)
  BY DEF Idle, Batches, Steps, InLog

LEMMA SetAt ==
  ASSUME NEW b \in Batches, NEW s \in Steps
  PROVE  /\ [b EXCEPT !.at = s] \in Batches
         /\ [b EXCEPT !.at = s].at = s
         /\ [b EXCEPT !.at = s].cursor = b.cursor
         /\ [b EXCEPT !.at = s].last = b.last
  BY DEF Batches

LEMMA SetCursor ==
  ASSUME NEW b \in Batches, NEW s \in Steps, NEW k \in Nat
  PROVE  /\ AtCursor(b, s, k) \in Batches
         /\ AtCursor(b, s, k).at = s
         /\ AtCursor(b, s, k).cursor = k
         /\ AtCursor(b, s, k).last = b.last
  <1> DEFINE c == [b EXCEPT !.at = s]
  <1>1. c \in Batches /\ c.at = s /\ c.last = b.last
    BY SetAt
  <1>2. AtCursor(b, s, k) = [c EXCEPT !.cursor = k]
    BY Zenon DEF AtCursor
  <1> HIDE DEF c
  <1> QED
    BY <1>1, <1>2 DEF Batches

LEMMA SetLast ==
  ASSUME NEW b \in Batches, NEW s \in Steps, NEW k \in Nat
  PROVE  /\ AtLast(b, s, k) \in Batches
         /\ AtLast(b, s, k).at = s
         /\ AtLast(b, s, k).cursor = b.cursor
         /\ AtLast(b, s, k).last = k
  <1> DEFINE c == [b EXCEPT !.at = s]
  <1>1. c \in Batches /\ c.at = s /\ c.cursor = b.cursor
    BY SetAt
  <1>2. AtLast(b, s, k) = [c EXCEPT !.last = k]
    BY Zenon DEF AtLast
  <1> HIDE DEF c
  <1> QED
    BY <1>1, <1>2 DEF Batches

LEMMA SetCandidates ==
  ASSUME NEW b \in Batches, NEW cs \in SUBSET Watches
  PROVE  /\ [b EXCEPT !.candidates = cs] \in Batches
         /\ [b EXCEPT !.candidates = cs].at = b.at
         /\ [b EXCEPT !.candidates = cs].cursor = b.cursor
         /\ [b EXCEPT !.candidates = cs].last = b.last
  BY DEF Batches

LEMMA NextEvent ==
  ASSUME NEW b \in Batches, NEW cs \in SUBSET Watches, NEW s \in Steps, NEW k \in Nat
  PROVE  /\ AtEvent(b, s, k, cs) \in Batches
         /\ AtEvent(b, s, k, cs).cursor = k
         /\ AtEvent(b, s, k, cs).last = b.last
  <1> DEFINE c == [b EXCEPT !.at = s]
             d == [c EXCEPT !.cursor = k]
  <1>1. c \in Batches /\ c.last = b.last
    BY SetAt
  <1>2. AtEvent(b, s, k, cs) = [d EXCEPT !.candidates = cs]
    BY Zenon DEF AtEvent
  <1> HIDE DEF c
  <1>3. d \in Batches /\ d.cursor = k /\ d.last = b.last
    BY <1>1 DEF Batches
  <1> HIDE DEF d
  <1> QED
    BY <1>2, <1>3 DEF Batches

LEMMA SetFire ==
  ASSUME NEW b \in Batches, NEW w \in Watches, NEW m \in BOOLEAN, NEW t \in Nat
  PROVE  /\ AtFire(b, w, m, t) \in Batches
         /\ AtFire(b, w, m, t).cursor = b.cursor
         /\ AtFire(b, w, m, t).last = b.last
  <1> DEFINE c == [b EXCEPT !.at = "fire"]
             d == [c EXCEPT !.watch = w]
             f == [d EXCEPT !.matched = m]
  <1>1. c \in Batches /\ c.cursor = b.cursor /\ c.last = b.last
    BY SetAt, Zenon DEF Steps
  <1>2. AtFire(b, w, m, t) = [f EXCEPT !.stamp = t]
    BY Zenon DEF AtFire
  <1> HIDE DEF c
  <1>3. d \in Batches /\ d.cursor = b.cursor /\ d.last = b.last
    BY <1>1 DEF Batches
  <1> HIDE DEF d
  <1>4. f \in Batches /\ f.cursor = b.cursor /\ f.last = b.last
    BY <1>3 DEF Batches
  <1> HIDE DEF f
  <1> QED
    BY <1>2, <1>4 DEF Batches

LEMMA GotoKeeps ==
  ASSUME BatchTypeOK, BatchesInLog, NEW e \in Epochs, NEW b \in Batches, Goto(e, b),
         now' = now, log' \in Seq(Targets), Len(log) <= Len(log'), InLog(b, Len(log'))
  PROVE  BatchTypeOK' /\ BatchesInLog'
  <1>1. BatchTypeOK'
    BY DEF BatchTypeOK, Goto
  <1>2. ASSUME NEW f \in Epochs PROVE InLog(proc'[f], Len(log'))
    <2>1. CASE f = e
      BY <2>1 DEF Goto, BatchTypeOK
    <2>2. CASE f # e
      <3>1. proc'[f] = proc[f] /\ proc[f] \in Batches
        BY <2>2 DEF Goto, BatchTypeOK
      <3>2. proc[f].cursor \in Nat /\ proc[f].last \in Nat
        BY <3>1 DEF Batches
      <3>3. Len(log) \in Nat /\ Len(log') \in Nat
        BY DEF BatchTypeOK
      <3> QED
        BY <3>1, <3>2, <3>3 DEF BatchesInLog, InLog
    <2> QED
      BY <2>1, <2>2
  <1> QED
    BY <1>1, <1>2 DEF BatchesInLog, InLog

LEMMA BatchStep == IInv /\ [Next]_vars => BatchTypeOK' /\ BatchesInLog'
  <1> SUFFICES ASSUME IInv, [Next]_vars PROVE BatchTypeOK' /\ BatchesInLog'
    OBVIOUS
  <1> USE DEF IInv
  <1>1. /\ Len(log) \in Nat /\ now \in Nat /\ log \in Seq(Targets)
        /\ \A e \in Epochs : /\ proc[e] \in Batches /\ InLog(proc[e], Len(log))
                             /\ proc[e].cursor \in Nat /\ proc[e].last \in Nat
                             /\ proc[e].candidates \subseteq Watches
    BY DEF BatchTypeOK, BatchesInLog, InLog, Batches
  <1>2. ASSUME log' = log, now' \in Nat, proc' = proc PROVE BatchTypeOK' /\ BatchesInLog'
    BY <1>2 DEF BatchTypeOK, BatchesInLog
  <1>3. ASSUME NEW e \in Epochs, NEW t \in Targets, Ingest(e, t) PROVE BatchTypeOK' /\ BatchesInLog'
    <2> DEFINE b == AtCursor(Idle, "ingested", Len(log))
    <2>1. b \in Batches /\ b.at = "ingested" /\ b.cursor = Len(log) /\ b.last = 0
      <3>1. Idle \in Batches /\ Idle.last = 0 /\ "ingested" \in Steps
        BY IdleBatch DEF Idle, Steps
      <3> QED
        BY <1>1, <3>1, SetCursor
    <2>2. log' \in Seq(Targets) /\ Len(log') = Len(log) + 1 /\ now' = now /\ Goto(e, b)
      <3>1. log' = Append(log, t) /\ now' = now /\ Goto(e, b)
        BY <1>3, Zenon DEF Ingest, AtCursor
      <3> QED
        BY <1>1, <3>1
    <2> HIDE DEF b
    <2>3. InLog(b, Len(log'))
      BY <1>1, <2>1, <2>2 DEF InLog
    <2> QED
      BY <1>1, <2>1, <2>2, <2>3, GotoKeeps
  <1>4. ASSUME NEW e \in Epochs, NEW b \in Batches, Goto(e, b), log' = log, now' = now, InLog(b, Len(log))
        PROVE  BatchTypeOK' /\ BatchesInLog'
    BY <1>1, <1>4, GotoKeeps
  <1>5. ASSUME NEW e \in Epochs, Goto(e, Idle), log' = log, now' = now PROVE BatchTypeOK' /\ BatchesInLog'
    BY <1>1, <1>4, <1>5, IdleBatch
  <1>6. ASSUME NEW e \in Epochs, NEW s \in Steps, Goto(e, [proc[e] EXCEPT !.at = s]),
               s \in {"candidates", "fire"} => proc[e].cursor > 0, log' = log, now' = now
        PROVE  BatchTypeOK' /\ BatchesInLog'
    <2> DEFINE b == [proc[e] EXCEPT !.at = s]
    <2>1. b \in Batches /\ b.at = s /\ b.cursor = proc[e].cursor /\ b.last = proc[e].last
      BY <1>1, SetAt
    <2> HIDE DEF b
    <2>2. InLog(b, Len(log))
      BY <1>1, <1>6, <2>1 DEF InLog
    <2>3. Goto(e, b)
      BY <1>6 DEF b
    <2> QED
      BY <1>4, <1>6, <2>1, <2>2, <2>3
  <1>7. ASSUME NEW e \in Epochs, advanceBatch(e) PROVE BatchTypeOK' /\ BatchesInLog'
    BY <1>5, <1>6, <1>7, Zenon DEF advanceBatch, Steps
  <1>8. ASSUME NEW e \in Epochs, fireRecentWatches(e) PROVE BatchTypeOK' /\ BatchesInLog'
    <2> DEFINE b == AtLast(proc[e], "event", Len(log))
    <2>1. b \in Batches /\ b.at = "event" /\ b.cursor = proc[e].cursor /\ b.last = Len(log)
      <3>1. "event" \in Steps
        BY DEF Steps
      <3> QED
        BY <1>1, <3>1, SetLast
    <2>2. Goto(e, b) /\ log' = log /\ now' = now
      BY <1>8, Zenon DEF fireRecentWatches, AtLast
    <2> HIDE DEF b
    <2>3. InLog(b, Len(log))
      BY <1>1, <2>1 DEF InLog
    <2> QED
      BY <1>4, <2>1, <2>2, <2>3
  <1>9. ASSUME NEW e \in Epochs, FireEvent(e) PROVE BatchTypeOK' /\ BatchesInLog'
    <2> DEFINE cs == ActiveForTarget(log[proc[e].cursor + 1])
    <2>1. cs \in SUBSET Watches
      BY DEF ActiveForTarget, LedgerTypeOK
    <2> DEFINE b == AtEvent(proc[e], "candidates", proc[e].cursor + 1, cs)
    <2>2. Goto(e, b) /\ proc[e].cursor < proc[e].last /\ log' = log /\ now' = now
      BY <1>9, Zenon DEF FireEvent, AtEvent
    <2> HIDE DEF cs
    <2>3. b \in Batches /\ b.cursor = proc[e].cursor + 1 /\ b.last = proc[e].last
      <3>1. "candidates" \in Steps /\ proc[e].cursor + 1 \in Nat
        BY <1>1 DEF Steps
      <3> QED
        BY <1>1, <2>1, <3>1, NextEvent
    <2> HIDE DEF b
    <2>4. InLog(b, Len(log))
      BY <1>1, <2>2, <2>3 DEF InLog
    <2> QED
      BY <1>4, <2>2, <2>3, <2>4
  <1>10. ASSUME NEW e \in Epochs, BatchDone(e) \/ Crash(e) PROVE BatchTypeOK' /\ BatchesInLog'
    BY <1>5, <1>10 DEF BatchDone, Crash
  <1>11. ASSUME NEW e \in Epochs, EventDone(e) PROVE BatchTypeOK' /\ BatchesInLog'
    BY <1>6, <1>11, Zenon DEF EventDone, Steps
  <1>12. ASSUME NEW e \in Epochs, NEW w \in Watches, fireCandidate(e, w) PROVE BatchTypeOK' /\ BatchesInLog'
    <2> DEFINE rest == [proc[e] EXCEPT !.candidates = proc[e].candidates \ {w}]
               m == features[watches[w].condition.situation] = "match"
    <2>1. rest \in Batches /\ rest.at = "candidates" /\ rest.cursor = proc[e].cursor /\ rest.last = proc[e].last
      BY <1>1, <1>12, SetCandidates, Zenon DEF fireCandidate
    <2> DEFINE b == AtFire(rest, w, m, now)
    <2>2. (Goto(e, b) \/ Goto(e, rest)) /\ log' = log /\ now' = now /\ m \in BOOLEAN
      BY <1>12, Zenon DEF fireCandidate, AtFire
    <2>3. proc[e].cursor > 0
      BY <1>1, <1>12 DEF fireCandidate, InLog
    <2> HIDE DEF rest, m
    <2>4. b \in Batches /\ b.cursor = rest.cursor /\ b.last = rest.last
      BY <1>1, <2>1, <2>2, SetFire
    <2> HIDE DEF b
    <2>5. InLog(rest, Len(log)) /\ InLog(b, Len(log))
      BY <1>1, <2>1, <2>3, <2>4 DEF InLog
    <2> QED
      BY <1>4, <2>1, <2>2, <2>4, <2>5
  <1>13. ASSUME NEW e \in Epochs, fireIn(e) PROVE BatchTypeOK' /\ BatchesInLog'
    <2>1. proc[e].cursor > 0 /\ "candidates" \in Steps
      BY <1>1, <1>13 DEF fireIn, InLog, Steps
    <2>2. /\ Goto(e, Idle) \/ Goto(e, [proc[e] EXCEPT !.at = "candidates"])
          /\ log' = log /\ now' = now
      BY <1>13 DEF fireIn
    <2> QED
      BY <1>5, <1>6, <2>1, <2>2
  <1>14. CASE UNCHANGED vars \/ Tick \/ Trip \/ Lease
    BY <1>1, <1>2, <1>14 DEF vars, Tick, Trip, Lease
  <1>15. ASSUME NEW e \in Epochs, Expire(e) \/ \E w \in Watches, c \in Commands : Dispatch(e, w, c)
         PROVE  BatchTypeOK' /\ BatchesInLog'
    BY <1>1, <1>2, <1>15 DEF Expire, Dispatch
  <1>16. ASSUME NEW s \in Situations, NEW f \in Features, Learn(s, f) PROVE BatchTypeOK' /\ BatchesInLog'
    BY <1>1, <1>2, <1>16 DEF Learn
  <1> QED
    BY <1>3, <1>7, <1>8, <1>9, <1>10, <1>11, <1>12, <1>13, <1>14, <1>15, <1>16 DEF Next, Batch

-----------------------------------------------------------------------------
(* The ledger: installs, expiries and fires. *)

Ledger == LedgerTypeOK /\ FiresKnown /\ AllowanceHolds /\ FiredInScope

LEMMA LedgerFacts ==
  ASSUME IInv
  PROVE  /\ log \in Seq(Targets)
         /\ \A w \in DOMAIN watches : watches[w] \in Rows
         /\ \A f \in fires : f.watch \in DOMAIN watches /\ f.event \in 1 .. Len(log) /\ f.at \in Nat
         /\ \A w : IsFiniteSet(FiresOf(w)) /\ Cardinality(FiresOf(w)) \in Nat
  <1>1. \A w : IsFiniteSet(FiresOf(w))
    BY FS_Subset DEF IInv, LedgerTypeOK, FiresOf
  <1> QED
    BY <1>1, FS_CardinalityType DEF IInv, LedgerTypeOK, BatchTypeOK, FiresKnown, Fires

\* A step that only appends to the log, or leaves it.
LEMMA LogGrows ==
  ASSUME IInv, watches' = watches, fires' = fires, log' = log \/ \E t \in Targets : log' = Append(log, t)
  PROVE  Ledger'
  <1>1. Len(log) <= Len(log') /\ \A i \in 1 .. Len(log) : log'[i] = log[i]
    BY LedgerFacts
  <1>2. LedgerTypeOK' /\ FiresKnown'
    BY <1>1, LedgerFacts DEF IInv, LedgerTypeOK, FiresKnown
  <1>3. AllowanceHolds'
    BY Zenon DEF IInv, AllowanceHolds, FiresOf
  <1>4. FiredInScope'
    BY <1>1, LedgerFacts DEF IInv, FiredInScope
  <1> QED
    BY <1>2, <1>3, <1>4 DEF Ledger

LEMMA ExpireKeeps ==
  ASSUME IInv, NEW at, watches' = ExpireDue(watches, at), fires' = fires, log' = log
  PROVE  Ledger'
  <1>1. DOMAIN watches' = DOMAIN watches
    BY ExpireDomain
  <1>2. \A w \in DOMAIN watches :
          /\ watches'[w] \in Rows /\ watches'[w].condition = watches[w].condition
          /\ watches'[w].remaining = watches[w].remaining
          /\ watches'[w] = watches[w] \/ (watches[w].status = "active" /\ watches'[w].status = "expired")
    BY ExpireRow DEF IInv, LedgerTypeOK
  <1>3. LedgerTypeOK'
    <2>1. watches' \in [DOMAIN watches' -> Rows]
      BY <1>1, <1>2 DEF ExpireDue
    <2> QED
      BY <1>1, <2>1 DEF IInv, LedgerTypeOK
  <1>4. FiresKnown' /\ FiredInScope'
    BY <1>1, <1>2 DEF IInv, FiresKnown, FiredInScope
  <1>5. AllowanceHolds'
    <2> SUFFICES ASSUME NEW w \in DOMAIN watches
                 PROVE  /\ watches'[w].remaining + Cardinality(FiresOf(w)) = watches'[w].condition.max
                        /\ \A f, g \in FiresOf(w) : f.event = g.event => f = g
                        /\ watches'[w].remaining = 0 <=> watches'[w].status = "disabled"
      BY <1>1 DEF AllowanceHolds, FiresOf
    <2> QED
      BY <1>2 DEF IInv, AllowanceHolds
  <1> QED
    BY <1>3, <1>4, <1>5 DEF Ledger

\* A first install: nothing was fired under that id.
LEMMA InstallKeeps ==
  ASSUME IInv, NEW w \in Watches, NEW c \in Conditions, c.max > 0,
         watches' = InsertCondition(watches, w, c), fires' = fires, log' = log
  PROVE  Ledger'
  <1>1. CASE w \in DOMAIN watches
    BY <1>1, LogGrows DEF InsertCondition
  <1>2. CASE w \notin DOMAIN watches
    <2>1. /\ DOMAIN watches' = DOMAIN watches \cup {w}
          /\ watches'[w] = [condition |-> c, remaining |-> c.max, status |-> "active"] /\ watches'[w] \in Rows
          /\ \A x \in DOMAIN watches : watches'[x] = watches[x]
      BY <1>2, InsertRow DEF IInv, LedgerTypeOK
    <2>2. watches' \in [DOMAIN watches' -> Rows]
      BY <1>2, <2>1, LedgerFacts DEF InsertCondition
    <2>3. LedgerTypeOK'
      BY <2>1, <2>2 DEF IInv, LedgerTypeOK
    <2>4. FiresKnown' /\ FiredInScope'
      BY <2>1, LedgerFacts DEF IInv, FiresKnown, FiredInScope
    <2>5. FiresOf(w) = {} /\ Cardinality(FiresOf(w)) = 0
      BY <1>2, LedgerFacts, FS_EmptySet, Zenon DEF FiresOf
    <2>6. ASSUME NEW x \in DOMAIN watches'
          PROVE  /\ watches'[x].remaining + Cardinality(FiresOf(x)) = watches'[x].condition.max
                 /\ \A f, g \in FiresOf(x) : f.event = g.event => f = g
                 /\ watches'[x].remaining = 0 <=> watches'[x].status = "disabled"
      <3>1. CASE x = w
        BY <2>1, <2>5, <3>1 DEF Conditions
      <3>2. CASE x # w
        BY <2>1, <2>6, <3>2 DEF IInv, AllowanceHolds
      <3> QED
        BY <3>1, <3>2
    <2>7. AllowanceHolds'
      BY <2>6 DEF AllowanceHolds, FiresOf
    <2> QED
      BY <2>3, <2>4, <2>7 DEF Ledger
  <1> QED
    BY <1>1, <1>2

\* A fire: the transaction expires what is due, sees the watch active and the
\* event unfired, records the fire and spends one unit.
LEMMA FireKeeps ==
  ASSUME IInv, NEW w \in Watches, NEW event \in 1 .. Len(log), NEW at \in Nat, NEW rows,
         rows = ExpireDue(watches, at), LoadActive(rows, w, at), rows[w].remaining > 0,
         InScope(rows[w], event), \A f \in FiresOf(w) : f.event # event,
         fires' = fires \cup {[watch |-> w, event |-> event, at |-> at]},
         watches' = [rows EXCEPT ![w] = SpendAllowance(rows[w])], log' = log
  PROVE  Ledger'
  <1> DEFINE fire == [watch |-> w, event |-> event, at |-> at]
  <1>1. DOMAIN rows = DOMAIN watches /\ w \in DOMAIN watches
    BY ExpireDomain DEF LoadActive
  <1>2. \A x \in DOMAIN watches :
          /\ rows[x] \in Rows /\ rows[x].condition = watches[x].condition
          /\ rows[x].remaining = watches[x].remaining
          /\ rows[x] = watches[x] \/ (watches[x].status = "active" /\ rows[x].status = "expired")
    BY ExpireRow DEF IInv, LedgerTypeOK
  <1>3. rows[w].status = "active" /\ at < rows[w].condition.expires
    BY <1>1, <1>2 DEF LoadActive, Due, Rows, Conditions
  <1>4. /\ SpendAllowance(rows[w]) \in Rows
        /\ SpendAllowance(rows[w]).condition = watches[w].condition
        /\ SpendAllowance(rows[w]).remaining = watches[w].remaining - 1
        /\ SpendAllowance(rows[w]).remaining = 0 <=> SpendAllowance(rows[w]).status = "disabled"
    BY <1>1, <1>2, <1>3, SpendRow
  <1>5. /\ DOMAIN watches' = DOMAIN watches
        /\ watches'[w] = SpendAllowance(rows[w])
        /\ \A x \in DOMAIN watches \ {w} : watches'[x] = rows[x]
    BY <1>1
  <1>6. \A x \in DOMAIN watches : watches'[x] \in Rows /\ watches'[x].condition = watches[x].condition
    BY <1>2, <1>4, <1>5
  <1>7. LedgerTypeOK'
    <2>1. watches' \in [DOMAIN watches' -> Rows]
      BY <1>1, <1>5, <1>6, Zenon
    <2>2. fires' \subseteq Fires /\ IsFiniteSet(fires')
      <3>1. fire \in Fires
        BY LedgerFacts DEF Fires
      <3>2. fires' = fires \cup {fire}
        OBVIOUS
      <3> HIDE DEF fire
      <3> QED
        BY <3>1, <3>2, FS_AddElement DEF IInv, LedgerTypeOK
    <2> QED
      BY <1>5, <2>1, <2>2 DEF IInv, LedgerTypeOK
  <1>8. FiresKnown' /\ FiredInScope'
    <2> SUFFICES ASSUME NEW f \in fires'
                 PROVE  /\ f.watch \in DOMAIN watches /\ f.event \in 1 .. Len(log)
                        /\ f.at < watches'[f.watch].condition.expires
                        /\ log[f.event] = watches'[f.watch].condition.target
      BY <1>5 DEF FiresKnown, FiredInScope
    <2>1. CASE f \in fires
      BY <1>6, <2>1 DEF IInv, FiresKnown, FiredInScope
    <2>2. CASE f = fire
      BY <1>1, <1>2, <1>3, <1>4, <1>5, <2>2 DEF InScope
    <2> QED
      BY <2>1, <2>2
  <1>9. AllowanceHolds'
    <2>1. /\ FiresOf(w)' = FiresOf(w) \cup {fire} /\ fire \notin FiresOf(w)
          /\ \A x : x # w => FiresOf(x)' = FiresOf(x)
      BY DEF FiresOf
    <2>2. Cardinality(FiresOf(w)') = Cardinality(FiresOf(w)) + 1
      <3> HIDE DEF fire
      <3>1. IsFiniteSet(FiresOf(w))
        BY LedgerFacts, Zenon
      <3>2. Cardinality(FiresOf(w) \cup {fire}) = Cardinality(FiresOf(w)) + 1
        BY <2>1, <3>1, FS_AddElement, Zenon
      <3> QED
        BY <2>1, <3>2, Zenon
    <2>3. \A f, g \in FiresOf(w)' : f.event = g.event => f = g
      <3>1. \A f, g \in FiresOf(w) : f.event = g.event => f = g
        BY <1>1 DEF IInv, AllowanceHolds
      <3> QED
        BY <2>1, <3>1
    <2>4. watches'[w].remaining + Cardinality(FiresOf(w)') = watches'[w].condition.max
      <3>1. watches[w].remaining + Cardinality(FiresOf(w)) = watches[w].condition.max
        BY <1>1 DEF IInv, AllowanceHolds
      <3>2. watches[w].remaining \in Nat /\ Cardinality(FiresOf(w)) \in Nat
        BY <1>1, LedgerFacts DEF Rows
      <3>3. watches'[w].remaining = watches[w].remaining - 1 /\ watches'[w].condition = watches[w].condition
        BY <1>4, <1>5
      <3>4. \A r, k \in Nat : (r - 1) + (k + 1) = r + k
        OBVIOUS
      <3>5. watches'[w].remaining + Cardinality(FiresOf(w)')
              = watches[w].remaining + Cardinality(FiresOf(w))
        BY <2>2, <3>2, <3>3, <3>4, Zenon
      <3> QED
        BY <3>1, <3>3, <3>5, Zenon
    <2>5. ASSUME NEW x \in DOMAIN watches \ {w}
          PROVE  /\ watches'[x].remaining + Cardinality(FiresOf(x)') = watches'[x].condition.max
                 /\ \A f, g \in FiresOf(x)' : f.event = g.event => f = g
                 /\ watches'[x].remaining = 0 <=> watches'[x].status = "disabled"
      <3>1. FiresOf(x)' = FiresOf(x)
        BY <2>1
      <3>2. /\ watches[x].remaining + Cardinality(FiresOf(x)) = watches[x].condition.max
            /\ \A f, g \in FiresOf(x) : f.event = g.event => f = g
            /\ watches[x].remaining = 0 <=> watches[x].status = "disabled"
        BY DEF IInv, AllowanceHolds
      <3> QED
        BY <1>2, <1>5, <3>1, <3>2
    <2> QED
      BY <1>4, <1>5, <2>3, <2>4, <2>5, Zenon DEF AllowanceHolds
  <1> QED
    BY <1>7, <1>8, <1>9 DEF Ledger

\* What any step does to the ledger: nothing (the log may grow), an install, an
\* expiry, or a fire.
Fired(w, event, at, rows) ==
    /\ rows = ExpireDue(watches, at) /\ LoadActive(rows, w, at) /\ rows[w].remaining > 0
    /\ InScope(rows[w], event) /\ \A f \in FiresOf(w) : f.event # event
    /\ fires' = fires \cup {[watch |-> w, event |-> event, at |-> at]}
    /\ watches' = [rows EXCEPT ![w] = SpendAllowance(rows[w])] /\ log' = log

LedgerMove ==
    \/ /\ watches' = watches /\ fires' = fires
       /\ log' = log \/ \E t \in Targets : log' = Append(log, t)
    \/ \E w \in Watches, c \in Conditions :
          c.max > 0 /\ watches' = InsertCondition(watches, w, c) /\ fires' = fires /\ log' = log
    \/ \E at \in Nat : watches' = ExpireDue(watches, at) /\ fires' = fires /\ log' = log
    \/ \E w \in Watches, event \in 1 .. Len(log), at \in Nat, rows \in {ExpireDue(watches, t) : t \in Nat} :
          Fired(w, event, at, rows)

LEMMA DispatchMoves ==
  ASSUME IInv, NEW e \in Epochs, NEW w \in Watches, NEW c \in Commands, Dispatch(e, w, c)
  PROVE  LedgerMove
  <1>1. c.condition \in Conditions
    BY WatchAssumption DEF Conditions
  <1>2. c.condition.max \in 1 .. MaxFires
    BY DEF Dispatch, ConditionFromCommand
  <1>3. c.condition.max > 0
    BY <1>2, WatchAssumption
  <1>4. watches' = InsertCondition(watches, w, c.condition) /\ fires' = fires /\ log' = log
    BY DEF Dispatch, installOnce
  <1> QED
    BY <1>1, <1>3, <1>4 DEF LedgerMove

LEMMA FireMoves ==
  ASSUME IInv, NEW e \in Epochs, fireIn(e)
  PROVE  LedgerMove
  <1> DEFINE w == proc[e].watch
             event == proc[e].cursor
             at == proc[e].stamp
             rows == ExpireDue(watches, at)
             fired == activeWatchMatches(rows, w, event, proc[e].matched, at) /\ RecordsFire(rows, w, event, at)
  <1>1. at \in Nat /\ event \in Nat /\ event <= Len(log) /\ event > 0
    BY DEF fireIn, IInv, BatchTypeOK, BatchesInLog, Batches
  <1>2. event \in 1 .. Len(log)
    BY <1>1, LedgerFacts
  <1>3. /\ \/ /\ fired
              /\ fires' = fires \cup {[watch |-> w, event |-> event, at |-> at]}
              /\ watches' = [rows EXCEPT ![w] = SpendAllowance(rows[w])]
           \/ watches' = rows /\ fires' = fires
           \/ watches' = watches /\ fires' = fires
        /\ log' = log
    BY Zenon DEF fireIn, ledgerVars
  <1>4. ASSUME fired PROVE w \in Watches
    <2>1. w \in DOMAIN rows
      BY <1>4 DEF activeWatchMatches, LoadActive
    <2> QED
      BY <2>1, ExpireDomain DEF IInv, LedgerTypeOK
  <1>5. rows \in {ExpireDue(watches, t) : t \in Nat}
    BY <1>1
  <1>6. ASSUME fired PROVE /\ LoadActive(rows, w, at) /\ rows[w].remaining > 0 /\ InScope(rows[w], event)
                           /\ \A f \in FiresOf(w) : f.event # event
    BY <1>6 DEF activeWatchMatches, RecordsFire
  <1> HIDE DEF fired
  <1>7. CASE /\ fired
             /\ fires' = fires \cup {[watch |-> w, event |-> event, at |-> at]}
             /\ watches' = [rows EXCEPT ![w] = SpendAllowance(rows[w])]
    <2>1. Fired(w, event, at, rows)
      BY <1>3, <1>6, <1>7 DEF Fired
    <2> HIDE DEF w, event, at, rows
    <2> QED
      BY <1>1, <1>2, <1>4, <1>5, <1>7, <2>1 DEF LedgerMove
  <1>8. CASE watches' = rows /\ fires' = fires
    BY <1>1, <1>3, <1>8 DEF LedgerMove
  <1>9. CASE watches' = watches /\ fires' = fires
    BY <1>3, <1>9 DEF LedgerMove
  <1> QED
    BY <1>3, <1>7, <1>8, <1>9

LEMMA Moves == IInv /\ [Next]_vars => LedgerMove
  <1> SUFFICES ASSUME IInv, [Next]_vars PROVE LedgerMove
    OBVIOUS
  <1>0. now \in Nat
    BY DEF IInv, BatchTypeOK
  <1>1. ASSUME NEW e \in Epochs, NEW t \in Targets, Ingest(e, t) PROVE LedgerMove
    BY <1>1 DEF Ingest, ledgerVars, LedgerMove
  <1>2. ASSUME NEW e \in Epochs, advanceBatch(e) \/ Expire(e) PROVE LedgerMove
    <2>1. (watches' = watches \/ watches' = ExpireDue(watches, now)) /\ fires' = fires /\ log' = log
      BY <1>2 DEF advanceBatch, Expire
    <2> QED
      BY <1>0, <2>1 DEF LedgerMove
  <1>3. ASSUME watches' = watches, fires' = fires, log' = log PROVE LedgerMove
    BY <1>3 DEF LedgerMove
  <1>4. ASSUME NEW e \in Epochs,
               \/ fireRecentWatches(e) \/ FireEvent(e) \/ BatchDone(e) \/ EventDone(e) \/ Crash(e)
               \/ \E w \in Watches : fireCandidate(e, w)
        PROVE  LedgerMove
    BY <1>3, <1>4, Zenon DEF fireRecentWatches, FireEvent, BatchDone, EventDone, Crash, fireCandidate, ledgerVars
  <1>5. CASE UNCHANGED vars \/ Tick \/ Trip \/ Lease \/ \E s \in Situations, f \in Features : Learn(s, f)
    BY <1>3, <1>5 DEF vars, Tick, Trip, Lease, Learn, ledgerVars
  <1> QED
    BY <1>1, <1>2, <1>4, <1>5, DispatchMoves, FireMoves DEF Next, Batch

-----------------------------------------------------------------------------
(* The invariant and the theorems. *)

LEMMA LedgerStep == IInv /\ LedgerMove => Ledger'
  <1> SUFFICES ASSUME IInv, LedgerMove PROVE Ledger'
    OBVIOUS
  <1>1. CASE /\ watches' = watches /\ fires' = fires
             /\ log' = log \/ \E t \in Targets : log' = Append(log, t)
    BY <1>1, LogGrows
  <1>2. ASSUME NEW w \in Watches, NEW c \in Conditions, c.max > 0,
               watches' = InsertCondition(watches, w, c), fires' = fires, log' = log
        PROVE  Ledger'
    BY <1>2, InstallKeeps
  <1>3. ASSUME NEW at \in Nat, watches' = ExpireDue(watches, at), fires' = fires, log' = log PROVE Ledger'
    BY <1>3, ExpireKeeps
  <1>4. ASSUME NEW w \in Watches, NEW event \in 1 .. Len(log), NEW at \in Nat, NEW rows, Fired(w, event, at, rows)
        PROVE  Ledger'
    BY <1>4, FireKeeps, Zenon DEF Fired
  <1> QED
    BY <1>1, <1>2, <1>3, <1>4 DEF LedgerMove

\* No watch is installed and no batch runs at first, and every transaction of
\* every process keeps IInv.
THEOREM WatchInvariance == Spec => []IInv
  <1>1. Init => IInv
    <2> SUFFICES ASSUME Init PROVE IInv
      OBVIOUS
    <2>1. DOMAIN watches = {} /\ fires = {} /\ log = <<>> /\ now = 0
      BY DEF Init
    <2>2. LedgerTypeOK
      BY <2>1, FS_EmptySet DEF LedgerTypeOK
    <2>3. BatchTypeOK /\ BatchesInLog
      <3>1. proc = [e \in Epochs |-> Idle] /\ Len(log) = 0
        BY <2>1 DEF Init
      <3>2. \A e \in Epochs : InLog(proc[e], 0)
        <4>1. 0 \in Nat /\ \A e \in Epochs : proc[e] = Idle
          BY <3>1
        <4> QED
          BY <4>1, IdleBatch
      <3> QED
        BY <2>1, <3>1, <3>2, IdleBatch DEF BatchTypeOK, BatchesInLog, InLog
    <2>4. FiresKnown /\ AllowanceHolds /\ FiredInScope
      BY <2>1 DEF FiresKnown, AllowanceHolds, FiredInScope
    <2> QED
      BY <2>2, <2>3, <2>4 DEF IInv
  <1>2. IInv /\ [Next]_vars => IInv'
    BY BatchStep, Moves, LedgerStep DEF IInv, Ledger
  <1> QED
    BY <1>1, <1>2, PTL DEF Spec

\* What is left of a watch and what it fired always add up to what was approved,
\* an event fires it once, and exactly a spent watch is disabled, for any number
\* of processes that list, fire and crash (recordFire, spendAllowance).
THEOREM AllowanceIsExact == Spec => []AllowanceHolds
  <1>1. IInv => AllowanceHolds
    BY DEF IInv
  <1> QED
    BY <1>1, WatchInvariance, PTL

\* A watch never fires after it expired or on an event of another target,
\* however long ago its candidate row and the features were read.
THEOREM FiresAreInScope == Spec => []FiredInScope
  <1>1. IInv => FiredInScope
    BY DEF IInv
  <1> QED
    BY <1>1, WatchInvariance, PTL

\* No step changes the condition of an installed watch or revives one that is
\* expired or disabled.
THEOREM InstalledIsFinal == Spec => WatchIsFinal
  <1>1. ASSUME IInv, [Next]_vars
        PROVE  [\A w \in DOMAIN watches :
                  /\ w \in DOMAIN watches'
                  /\ watches'[w].condition = watches[w].condition
                  /\ watches[w].status # "active" => watches'[w] = watches[w]]_vars
    <2> SUFFICES ASSUME NEW w \in DOMAIN watches
                 PROVE  /\ w \in DOMAIN watches'
                        /\ watches'[w].condition = watches[w].condition
                        /\ watches[w].status # "active" => watches'[w] = watches[w]
      OBVIOUS
    <2>1. LedgerMove
      BY <1>1, Moves
    <2>2. CASE watches' = watches
      BY <2>2
    <2>3. ASSUME NEW x \in Watches, NEW c \in Conditions, watches' = InsertCondition(watches, x, c)
          PROVE  w \in DOMAIN watches' /\ watches'[w] = watches[w]
      BY <2>3 DEF InsertCondition
    <2>4. ASSUME NEW at, NEW rows, rows = ExpireDue(watches, at)
          PROVE  /\ DOMAIN rows = DOMAIN watches /\ rows[w] \in Rows /\ rows[w].condition = watches[w].condition
                 /\ rows[w] = watches[w] \/ (watches[w].status = "active" /\ rows[w].status = "expired")
      BY <1>1, <2>4, ExpireRow, ExpireDomain DEF IInv, LedgerTypeOK
    <2>5. ASSUME NEW x \in Watches, NEW event \in 1 .. Len(log), NEW at \in Nat, NEW rows, Fired(x, event, at, rows)
          PROVE  /\ w \in DOMAIN watches'
                 /\ watches'[w].condition = watches[w].condition
                 /\ watches[w].status # "active" => watches'[w] = watches[w]
      <3>1. rows = ExpireDue(watches, at) /\ rows[x].status = "active" /\ rows[x].remaining > 0
        BY <2>5 DEF Fired, LoadActive
      <3>2. /\ DOMAIN watches' = DOMAIN rows
            /\ w # x => watches'[w] = rows[w]
            /\ w = x => watches'[w] = SpendAllowance(rows[w])
        BY <2>4, <2>5, <3>1 DEF Fired
      <3>3. w = x => SpendAllowance(rows[w]).condition = rows[w].condition
        <4> SUFFICES ASSUME w = x PROVE SpendAllowance(rows[w]).condition = rows[w].condition
          OBVIOUS
        <4>1. rows[w] \in Rows /\ rows[w].status = "active" /\ rows[w].remaining > 0
          BY <2>4, <3>1
        <4> QED
          BY <4>1, SpendRow
      <3> QED
        BY <2>4, <3>1, <3>2, <3>3
    <2> QED
      BY <2>1, <2>2, <2>3, <2>4, <2>5 DEF LedgerMove
  <1> QED
    BY <1>1, WatchInvariance, PTL DEF Spec, WatchIsFinal
=============================================================================
