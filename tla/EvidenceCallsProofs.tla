------------------------- MODULE EvidenceCallsProofs -------------------------
(***************************************************************************)
(* Proofs about EvidenceCalls, for every set of handlers, processes, call  *)
(* ids and deployments: a call id is put to the provider at most once, a   *)
(* worker is only ever told what the ledger keeps, and a result is         *)
(* committed only for the running attempt under the lease that reserved    *)
(* it.                                                                     *)
(*                                                                         *)
(* The inductive invariant is that a key was queried exactly when it has a *)
(* row, and that every reply is the result of a completed row.             *)
(***************************************************************************)
EXTENDS EvidenceCalls, TLAPS

Bound == [key: Keys, rows: Int, bytes: Int, deadline: Int]
Jobs ==
    [at: {"reserve", "query", "commit", "fail"}, epoch: Epochs, call: Bound, stamp: Int, result: Int]
Statuses == {"running", "completed", "failed", "interrupted"}
Reservations == [call: Bound, epoch: Epochs, status: Statuses, lease: Int, result: Int]

TypeOK ==
    /\ setting \in DOMAIN Settings
    /\ now \in Nat /\ events \in Nat
    /\ episode \in [life: {"admitted", "running", "closed"}, fence: Nat, inFlight: BOOLEAN]
    /\ tokens \in [DOMAIN tokens -> [epoch: Epochs, expires: Nat]]
    /\ DOMAIN rows \subseteq Keys
    /\ rows \in [DOMAIN rows -> Reservations]
    /\ handlers \in [Handlers -> Jobs \cup {NoCall}]
    /\ queried \in [Keys -> Nat]

\* A key was put to the provider exactly when it has a row.
QueriedOnce == \A k \in Keys : queried[k] = IF k \in DOMAIN rows THEN 1 ELSE 0

\* Every reply is the result of a completed row.
RepliesStored ==
    \A r \in replies :
        r.key \in DOMAIN rows /\ rows[r.key].status = "completed" /\ rows[r.key].result = r.result

IInv == TypeOK /\ QueriedOnce /\ RepliesStored

-----------------------------------------------------------------------------
(* The operators of a call. *)

LEMMA MinOfTwo ==
  ASSUME NEW a \in Int, NEW b \in Int
  PROVE  Min({a, b}) \in {a, b}
  <1>1. \E x \in {a, b} : \A y \in {a, b} : x <= y
    OBVIOUS
  <1> QED
    BY <1>1 DEF Min

LEMMA SettingTypes ==
  ASSUME setting \in DOMAIN Settings
  PROVE  /\ Processes \subseteq Epochs
         /\ ScopeRows \in Nat /\ ScopeBytes \in Nat /\ TTL \in Nat /\ Lease \in Nat
         /\ \A req \in Requests :
               /\ req.call \in Calls /\ req.fence \in Fences
               /\ req.rows \in Nat /\ req.bytes \in Nat /\ req.deadline \in Nat \cup {NoDeadline}
  BY EvidenceAssumption DEF Processes, ScopeRows, ScopeBytes, TTL, Lease, Requests

\* BindArguments gives a call of one of the keys.
LEMMA BoundCall ==
  ASSUME TypeOK, NEW req \in Requests, Verify(req)
  PROVE  BindArguments(req) \in Bound
  <1>1. /\ req.call \in Calls /\ req.fence \in Fences /\ req.rows \in Nat /\ req.bytes \in Nat
        /\ req.deadline \in Nat \cup {NoDeadline} /\ ScopeRows \in Nat /\ ScopeBytes \in Nat
    BY SettingTypes DEF TypeOK
  <1>2. \A x, y \in Nat : minNonZero(x, y) \in Int
    BY MinOfTwo DEF minNonZero
  <1>3. CallDeadline(req) \in Int
    <2>1. tokens[req.token].expires \in Int
      BY DEF Verify, TypeOK
    <2>2. (IF req.deadline = NoDeadline THEN now + CallTime ELSE req.deadline) \in Int
      BY <1>1, EvidenceAssumption DEF TypeOK
    <2> QED
      BY <2>1, <2>2, MinOfTwo DEF CallDeadline
  <1> QED
    BY <1>1, <1>2, <1>3 DEF BindArguments, Bound, Keys

-----------------------------------------------------------------------------
(* The ledger rows. *)

\* No row appears or goes, and a row that is not running stays as it is.
RowsSteady ==
    /\ DOMAIN rows' = DOMAIN rows
    /\ rows' \in [DOMAIN rows -> Reservations]
    /\ \A k \in DOMAIN rows : rows[k].status # "running" => rows'[k] = rows[k]

LEMMA Steady ==
  ASSUME IInv, RowsSteady, queried' = queried,
         \A r \in replies' : r \in replies \/
            (r.key \in DOMAIN rows /\ rows'[r.key].status = "completed" /\ rows'[r.key].result = r.result)
  PROVE  /\ DOMAIN rows' \subseteq Keys /\ rows' \in [DOMAIN rows' -> Reservations] /\ queried' \in [Keys -> Nat]
         /\ QueriedOnce' /\ RepliesStored'
  <1>1. QueriedOnce'
    BY DEF IInv, QueriedOnce, RowsSteady
  <1>2. RepliesStored'
    BY DEF IInv, RepliesStored, RowsSteady
  <1> QED
    BY <1>1, <1>2 DEF IInv, TypeOK, RowsSteady

LEMMA UnchangedSteady ==
  ASSUME IInv, rows' = rows
  PROVE  RowsSteady
  BY DEF IInv, TypeOK, RowsSteady

\* Recovery and reclaiming only interrupt rows that are running.
LEMMA InterruptSteady ==
  ASSUME IInv, NEW e, rows' = ReclaimExpired(e) \/ rows' = Recover(e)
  PROVE  RowsSteady
  <1>1. \A k \in DOMAIN rows : [rows[k] EXCEPT !.status = "interrupted"] \in Reservations /\ rows[k] \in Reservations
    BY DEF IInv, TypeOK, Reservations, Statuses
  <1>2. CASE rows' = ReclaimExpired(e)
    BY <1>1, <1>2 DEF ReclaimExpired, Interrupt, RowsSteady
  <1>3. CASE rows' = Recover(e)
    BY <1>1, <1>3 DEF Recover, Interrupt, RowsSteady
  <1> QED
    BY <1>2, <1>3

\* A handler completes or fails a row only while that row is running.
LEMMA StoredRow ==
  ASSUME IInv, NEW key \in DOMAIN rows, rows[key].status = "running", NEW result \in Int
  PROVE  /\ rows' = StoreResult(key, result) =>
               RowsSteady /\ rows'[key].status = "completed" /\ rows'[key].result = result
         /\ rows' = [rows EXCEPT ![key].status = "failed"] => RowsSteady /\ rows'[key].status = "failed"
  <1>1. rows \in [DOMAIN rows -> Reservations] /\ rows[key] \in Reservations
    BY DEF IInv, TypeOK
  <1>2. ASSUME rows' = StoreResult(key, result)
        PROVE  RowsSteady /\ rows'[key].status = "completed" /\ rows'[key].result = result
    <2>1. /\ DOMAIN rows' = DOMAIN rows
          /\ \A k \in DOMAIN rows : k # key => rows'[k] = rows[k]
      BY <1>2 DEF StoreResult
    <2>2. rows'[key].status = "completed" /\ rows'[key].result = result
      BY <1>1, <1>2, Zenon DEF StoreResult, Reservations
    <2>3. rows' \in [DOMAIN rows -> Reservations]
      BY <1>1, <1>2 DEF StoreResult, Reservations, Statuses
    <2> QED
      BY <2>1, <2>2, <2>3 DEF RowsSteady
  <1>3. ASSUME rows' = [rows EXCEPT ![key].status = "failed"]
        PROVE  RowsSteady /\ rows'[key].status = "failed"
    BY <1>1, <1>3 DEF RowsSteady, Reservations, Statuses
  <1> QED
    BY <1>2, <1>3

\* A first reservation of a key.
LEMMA NewRow ==
  ASSUME IInv, NEW call \in Bound, call.key \notin DOMAIN rows, NEW e \in Epochs, NEW at \in Int,
         rows' = InsertReservation(call, e, at), queried' = [queried EXCEPT ![call.key] = @ + 1], replies' = replies
  PROVE  /\ DOMAIN rows' \subseteq Keys /\ rows' \in [DOMAIN rows' -> Reservations] /\ queried' \in [Keys -> Nat]
         /\ QueriedOnce' /\ RepliesStored'
         /\ \A k \in DOMAIN rows : rows'[k] = rows[k]
  <1> USE DEF IInv, TypeOK
  <1>1. call.key \in Keys /\ Lease \in Nat
    BY SettingTypes DEF Bound
  <1> DEFINE row == [call |-> call, epoch |-> e, status |-> "running", lease |-> at + Lease, result |-> 0]
  <1>2. row \in Reservations
    BY <1>1 DEF Reservations, Statuses
  <1>3. rows' = [k \in DOMAIN rows \cup {call.key} |-> IF k = call.key THEN row ELSE rows[k]]
    BY DEF InsertReservation
  <1> HIDE DEF row
  <1>4. /\ DOMAIN rows' = DOMAIN rows \cup {call.key} /\ rows' \in [DOMAIN rows' -> Reservations]
        /\ \A k \in DOMAIN rows : rows'[k] = rows[k]
    BY <1>2, <1>3
  <1>5. QueriedOnce'
    BY <1>1, <1>4 DEF QueriedOnce
  <1>6. RepliesStored'
    BY <1>4 DEF RepliesStored
  <1> QED
    BY <1>1, <1>4, <1>5, <1>6

-----------------------------------------------------------------------------
(* The steps. *)

Answers ==
    /\ DOMAIN rows \subseteq Keys /\ rows \in [DOMAIN rows -> Reservations] /\ queried \in [Keys -> Nat]
    /\ QueriedOnce /\ RepliesStored

LEMMA JobTypes ==
  ASSUME TypeOK, NEW h \in Handlers, handlers[h] # NoCall
  PROVE  /\ handlers[h] \in Jobs /\ handlers[h].call \in Bound /\ handlers[h].call.key \in Keys
         /\ handlers[h].epoch \in Epochs /\ handlers[h].stamp \in Int /\ handlers[h].result \in Int
         /\ handlers[h].call.rows \in Int
  BY DEF TypeOK, Jobs, Bound

\* The reservation transaction: a key without a row is reserved and queried; of
\* a completed row the stored result is given; anything else is refused.
LEMMA ReserveMoves ==
  ASSUME IInv, NEW h \in Handlers, handlers[h] # NoCall, reserve(h)
  PROVE  Answers' /\ \A k \in DOMAIN rows : k \in DOMAIN rows' /\ rows'[k] = rows[k]
  <1> DEFINE c == handlers[h]
             key == c.call.key
             existing == key \in DOMAIN rows
             same == existing /\ SameRequest(rows[key], c.call, c.epoch)
             stored == same /\ rows[key].status = "completed"
             refused == existing /\ (~same \/ ReservationRefusal(rows[key]))
  <1>1. \/ /\ ~stored /\ ~refused /\ replies' = replies
           /\ rows' = IF existing THEN rows ELSE InsertReservation(c.call, c.epoch, c.stamp)
           /\ queried' = [queried EXCEPT ![key] = @ + 1]
        \/ stored /\ Reply(key, rows[key].result) /\ rows' = rows /\ queried' = queried
        \/ rows' = rows /\ queried' = queried /\ replies' = replies
    BY Zenon DEF reserve, historyVars
  <1>2. /\ c.call \in Bound /\ key \in Keys /\ c.epoch \in Epochs /\ c.stamp \in Int
    BY JobTypes DEF IInv
  <1>3. ~stored /\ ~refused => ~existing
    BY DEF ReservationRefusal
  <1>4. stored => existing /\ rows[key].status = "completed"
    OBVIOUS
  <1> HIDE DEF same, stored, refused
  <1>5. CASE /\ ~stored /\ ~refused /\ replies' = replies
             /\ rows' = IF existing THEN rows ELSE InsertReservation(c.call, c.epoch, c.stamp)
             /\ queried' = [queried EXCEPT ![key] = @ + 1]
    <2>1. ~existing /\ rows' = InsertReservation(c.call, c.epoch, c.stamp)
      BY <1>3, <1>5
    <2>2. \A k \in DOMAIN rows : k \in DOMAIN rows'
      BY <2>1 DEF InsertReservation
    <2> HIDE DEF c
    <2> QED
      BY <1>2, <1>5, <2>1, <2>2, NewRow, Zenon DEF Answers
  <1>6. CASE stored /\ Reply(key, rows[key].result) /\ rows' = rows /\ queried' = queried
    <2>1. \A r \in replies' : r \in replies \/
             (r.key \in DOMAIN rows /\ rows'[r.key].status = "completed" /\ rows'[r.key].result = r.result)
      BY <1>4, <1>6 DEF Reply
    <2> QED
      BY <1>6, <2>1, Steady, UnchangedSteady DEF Answers
  <1>7. CASE rows' = rows /\ queried' = queried /\ replies' = replies
    BY <1>7, Steady, UnchangedSteady DEF Answers
  <1> QED
    BY <1>1, <1>5, <1>6, <1>7

\* The second transaction commits only a reservation of its own that still runs,
\* for the attempt that is running.
Commits(key) ==
    /\ key \in DOMAIN rows /\ rows[key].status = "running" /\ Holds(rows[key].epoch)
    /\ Current(key) /\ episode.life = "running" /\ episode.inFlight
    /\ \A k \in DOMAIN rows : k # key => rows'[k] = rows[k]

LEMMA CommitMoves ==
  ASSUME IInv, NEW h \in Handlers, handlers[h] # NoCall, commitResult(h)
  PROVE  Answers' /\ RowsSteady /\ (rows' = rows \/ \E key \in Keys : Commits(key))
  <1>1. PICK key \in Keys : key = handlers[h].call.key
    BY JobTypes DEF IInv
  <1>2. handlers[h].result \in Int
    BY JobTypes DEF IInv
  <1>3. CASE rows' = rows /\ replies' = replies
    BY <1>3, Steady, UnchangedSteady DEF Answers, commitResult
  <1>4. CASE /\ Holds(handlers[h].epoch) /\ assertAttemptRunning(key)
             /\ OwnedReservation(key, handlers[h].call, handlers[h].epoch, handlers[h].stamp)
             /\ rows' = StoreResult(key, handlers[h].result) /\ Reply(key, handlers[h].result)
    <2>1. key \in DOMAIN rows /\ rows[key].status = "running" /\ rows[key].epoch = handlers[h].epoch
      BY <1>4 DEF OwnedReservation, SameRequest
    <2>2. RowsSteady /\ rows'[key].status = "completed" /\ rows'[key].result = handlers[h].result
      BY <1>2, <1>4, <2>1, StoredRow, Zenon
    <2>3. \A r \in replies' : r \in replies \/
             (r.key \in DOMAIN rows /\ rows'[r.key].status = "completed" /\ rows'[r.key].result = r.result)
      BY <1>4, <2>1, <2>2 DEF Reply
    <2>4. queried' = queried
      BY DEF commitResult
    <2>5. Commits(key)
      BY <1>4, <2>1 DEF Commits, assertAttemptRunning, attemptInFlight, StoreResult
    <2> QED
      BY <2>2, <2>3, <2>4, <2>5, Steady DEF Answers
  <1> QED
    BY <1>1, <1>3, <1>4, Zenon DEF commitResult

LEMMA FailMoves ==
  ASSUME IInv, NEW h \in Handlers, handlers[h] # NoCall, failCall(h)
  PROVE  /\ Answers' /\ RowsSteady
         /\ \A k \in DOMAIN rows : rows'[k] = rows[k] \/ rows'[k].status = "failed"
  <1>1. PICK key \in Keys : key = handlers[h].call.key
    BY JobTypes DEF IInv
  <1>2. queried' = queried /\ replies' = replies
    BY DEF failCall, historyVars
  <1>3. CASE rows' = rows
    BY <1>2, <1>3, Steady, UnchangedSteady DEF Answers
  <1>4. CASE /\ OwnedReservation(key, handlers[h].call, handlers[h].epoch, handlers[h].stamp)
             /\ rows' = [rows EXCEPT ![key].status = "failed"]
    <2>1. key \in DOMAIN rows /\ rows[key].status = "running"
      BY <1>4 DEF OwnedReservation
    <2>2. RowsSteady /\ rows'[key].status = "failed"
      <3>1. 0 \in Int
        OBVIOUS
      <3> QED
        BY <1>4, <2>1, <3>1, StoredRow, Zenon
    <2>3. \A k \in DOMAIN rows : k # key => rows'[k] = rows[k]
      BY <1>4
    <2> QED
      BY <1>2, <2>2, <2>3, Steady DEF Answers
  <1> QED
    BY <1>1, <1>3, <1>4, Zenon DEF failCall

\* Recovery and the heartbeat's reclaiming never complete a row.
LEMMA InterruptMoves ==
  ASSUME IInv, NEW e, rows' = ReclaimExpired(e) \/ rows' = Recover(e), queried' = queried, replies' = replies
  PROVE  /\ Answers'
         /\ \A k \in DOMAIN rows : rows'[k] = rows[k] \/ rows'[k].status = "interrupted"
  <1>1. Answers'
    BY InterruptSteady, Steady DEF Answers
  <1>2. \A k \in DOMAIN rows : rows[k] \in Reservations /\ [rows[k] EXCEPT !.status = "interrupted"].status = "interrupted"
    BY DEF IInv, TypeOK, Reservations
  <1>3. \A k \in DOMAIN rows : rows'[k] = rows[k] \/ rows'[k] = [rows[k] EXCEPT !.status = "interrupted"]
    <2>1. CASE rows' = ReclaimExpired(e)
      BY <2>1, Zenon DEF ReclaimExpired, Interrupt
    <2>2. CASE rows' = Recover(e)
      BY <2>2, Zenon DEF Recover, Interrupt
    <2> QED
      BY <2>1, <2>2
  <1> QED
    BY <1>1, <1>2, <1>3, Zenon

\* What any step does to the rows.
Move ==
    \/ \A k \in DOMAIN rows : rows'[k] = rows[k] \/ rows'[k].status \in {"failed", "interrupted"}
    \/ \E key \in Keys : Commits(key)

LEMMA StepMoves == IInv /\ [Next]_<<vars, setting>> => Answers' /\ Move
  <1> SUFFICES ASSUME IInv, [Next]_<<vars, setting>> PROVE Answers' /\ Move
    OBVIOUS
  <1>1. ASSUME rows' = rows, queried' = queried, replies' = replies PROVE Answers' /\ Move
    BY <1>1, Steady, UnchangedSteady DEF Answers, Move
  <1>2. ASSUME NEW h \in Handlers, handlers[h] # NoCall, reserve(h) PROVE Answers' /\ Move
    BY <1>2, ReserveMoves DEF Move
  <1>3. ASSUME NEW h \in Handlers, handlers[h] # NoCall, commitResult(h) PROVE Answers' /\ Move
    BY <1>3, CommitMoves DEF Move
  <1>4. ASSUME NEW h \in Handlers, handlers[h] # NoCall, failCall(h) PROVE Answers' /\ Move
    BY <1>4, FailMoves DEF Move
  <1>5. ASSUME NEW h \in Handlers, runQuery(h) \/ \E e \in Processes, req \in Requests : Call(h, e, req)
        PROVE  Answers' /\ Move
    BY <1>1, <1>5 DEF runQuery, Call, historyVars
  <1>6. ASSUME NEW e \in Processes, maintainRuntimeLease(e) \/ ClaimAndRecover(e) PROVE Answers' /\ Move
    BY <1>6, InterruptMoves DEF maintainRuntimeLease, ClaimAndRecover, historyVars, Move
  <1>7. ASSUME NEW e \in Processes, Renew(e) \/ StartAttempt(e) \/ EndAttempt(e) \/ Crash(e) PROVE Answers' /\ Move
    BY <1>1, <1>7 DEF Renew, StartAttempt, EndAttempt, Crash, historyVars
  <1>8. CASE Lapses \/ Tick \/ Ingest \/ UNCHANGED <<vars, setting>>
    BY <1>1, <1>8 DEF Lapses, Tick, Ingest, vars, historyVars
  <1>9. Serving \subseteq Handlers
    BY EvidenceAssumption DEF IInv, TypeOK, Serving
  <1> QED
    BY <1>2, <1>3, <1>4, <1>5, <1>6, <1>7, <1>8, <1>9 DEF Next, Step

-----------------------------------------------------------------------------
(* The types of the surroundings and of the handlers. *)

Episodes == [life: {"admitted", "running", "closed"}, fence: Nat, inFlight: BOOLEAN]

WorldTypeOK ==
    /\ setting \in DOMAIN Settings
    /\ now \in Nat /\ events \in Nat
    /\ episode \in Episodes
    /\ tokens \in [DOMAIN tokens -> [epoch: Epochs, expires: Nat]]

LEMMA EndedEpisode ==
  ASSUME NEW ep \in Episodes, NEW life \in {"admitted", "running", "closed"}
  PROVE  [ep EXCEPT !.inFlight = FALSE, !.life = life] \in Episodes
  <1> DEFINE ended == [ep EXCEPT !.inFlight = FALSE]
  <1>1. ended \in Episodes
    BY DEF Episodes
  <1>2. [ep EXCEPT !.inFlight = FALSE, !.life = life] = [ended EXCEPT !.life = life]
    BY Zenon
  <1> HIDE DEF ended
  <1> QED
    BY <1>1, <1>2 DEF Episodes

LEMMA WorldStep == TypeOK /\ [Next]_<<vars, setting>> => WorldTypeOK'
  <1> SUFFICES ASSUME WorldTypeOK, [Next]_<<vars, setting>> PROVE WorldTypeOK'
    BY DEF TypeOK, WorldTypeOK, Episodes
  <1>1. setting' = setting
    BY DEF Next
  <1>2. ASSUME now' = now, events' = events, episode' = episode, tokens' = tokens PROVE WorldTypeOK'
    BY <1>1, <1>2 DEF WorldTypeOK
  <1>3. ASSUME NEW h \in Serving,
               \/ reserve(h) \/ runQuery(h) \/ commitResult(h) \/ failCall(h)
               \/ \E e \in Processes, req \in Requests : Call(h, e, req)
        PROVE  WorldTypeOK'
    BY <1>2, <1>3, Zenon DEF reserve, runQuery, commitResult, failCall, Call, worldVars
  <1>4. ASSUME NEW e \in Processes, maintainRuntimeLease(e) \/ Renew(e) \/ Crash(e) PROVE WorldTypeOK'
    BY <1>2, <1>4, Zenon DEF maintainRuntimeLease, Renew, Crash, worldVars
  <1>5. ASSUME NEW e \in Processes, ClaimAndRecover(e) PROVE WorldTypeOK'
    <2>1. PICK life : /\ life = IF episode.life = "running" THEN "admitted" ELSE episode.life
                      /\ episode' = [episode EXCEPT !.inFlight = FALSE, !.life = life]
      BY <1>5, Zenon DEF ClaimAndRecover
    <2>2. life \in {"admitted", "running", "closed"} /\ episode \in Episodes
      BY <2>1 DEF WorldTypeOK, Episodes
    <2>3. episode' \in Episodes
      BY <2>1, <2>2, EndedEpisode
    <2>4. now' = now /\ events' = events /\ tokens' = tokens
      BY <1>5, Zenon DEF ClaimAndRecover
    <2> QED
      BY <1>1, <2>3, <2>4 DEF WorldTypeOK
  <1>6. ASSUME NEW e \in Processes, EndAttempt(e) PROVE WorldTypeOK'
    <2>1. PICK life \in {"admitted", "closed"} : episode' = [episode EXCEPT !.inFlight = FALSE, !.life = life]
      <3>1. PICK life \in {"admitted", "closed"} : episode' = [episode EXCEPT !.life = life, !.inFlight = FALSE]
        BY <1>6 DEF EndAttempt
      <3>2. [episode EXCEPT !.life = life, !.inFlight = FALSE] = [episode EXCEPT !.inFlight = FALSE, !.life = life]
        BY DEF WorldTypeOK, Episodes
      <3> QED
        BY <3>1, <3>2
    <2>2. episode' \in Episodes
      BY <2>1, EndedEpisode DEF WorldTypeOK
    <2> QED
      BY <1>1, <1>6, <2>2 DEF EndAttempt, WorldTypeOK
  <1>7. ASSUME NEW e \in Processes, StartAttempt(e) PROVE WorldTypeOK'
    <2>1. e \in Epochs /\ TTL \in Nat
      BY SettingTypes DEF WorldTypeOK
    <2>2. Issue(e) \in [epoch: Epochs, expires: Nat]
      BY <2>1 DEF Issue, WorldTypeOK
    <2>3. tokens' \in [DOMAIN tokens' -> [epoch: Epochs, expires: Nat]]
      BY <1>7, <2>2 DEF StartAttempt, WorldTypeOK
    <2>4. episode' \in Episodes
      BY <1>7 DEF StartAttempt, WorldTypeOK, Episodes
    <2> QED
      BY <1>1, <1>7, <2>3, <2>4 DEF StartAttempt, WorldTypeOK
  <1>8. CASE Lapses \/ UNCHANGED <<vars, setting>>
    BY <1>2, <1>8 DEF Lapses, vars
  <1>9. CASE Tick \/ Ingest
    BY <1>1, <1>9 DEF Tick, Ingest, WorldTypeOK
  <1> QED
    BY <1>3, <1>4, <1>5, <1>6, <1>7, <1>8, <1>9 DEF Next, Step

\* The moves of a handler: to the query, and from it to the second transaction.
AtStamp(c, s, t) == [c EXCEPT !.at = s, !.stamp = t]
AtResult(c, s, t, r) == [c EXCEPT !.at = s, !.stamp = t, !.result = r]

LEMMA HandlerMoves ==
  ASSUME NEW c \in Jobs, NEW s \in {"query", "commit", "fail"}, NEW t \in Int, NEW r \in Int
  PROVE  [c EXCEPT !.at = s] \in Jobs /\ AtStamp(c, s, t) \in Jobs /\ AtResult(c, s, t, r) \in Jobs
  <1> DEFINE a == [c EXCEPT !.at = s]
             b == [a EXCEPT !.stamp = t]
  <1>1. a \in Jobs
    BY DEF Jobs
  <1>2. AtStamp(c, s, t) = b /\ AtResult(c, s, t, r) = [b EXCEPT !.result = r]
    BY Zenon DEF AtStamp, AtResult
  <1> HIDE DEF a
  <1>3. b \in Jobs
    BY <1>1 DEF Jobs
  <1> HIDE DEF b
  <1>4. [b EXCEPT !.result = r] \in Jobs
    BY <1>3 DEF Jobs
  <1> QED
    BY <1>1, <1>2, <1>3, <1>4 DEF a

LEMMA HandlerStep == TypeOK /\ [Next]_<<vars, setting>> => handlers' \in [Handlers -> Jobs \cup {NoCall}]
  <1> SUFFICES ASSUME TypeOK, [Next]_<<vars, setting>> PROVE handlers' \in [Handlers -> Jobs \cup {NoCall}]
    OBVIOUS
  <1>0. handlers \in [Handlers -> Jobs \cup {NoCall}] /\ now \in Int
    BY DEF TypeOK
  <1>1. ASSUME handlers' = handlers PROVE handlers' \in [Handlers -> Jobs \cup {NoCall}]
    BY <1>0, <1>1
  <1>2. ASSUME NEW h \in Handlers, NEW c \in Jobs \cup {NoCall}, Set(h, c)
        PROVE  handlers' \in [Handlers -> Jobs \cup {NoCall}]
    BY <1>0, <1>2 DEF Set
  <1>3. ASSUME NEW h \in Handlers, Leave(h) PROVE handlers' \in [Handlers -> Jobs \cup {NoCall}]
    BY <1>2, <1>3 DEF Leave
  <1>4. ASSUME NEW h \in Handlers, NEW e \in Processes, NEW req \in Requests, Call(h, e, req)
        PROVE  handlers' \in [Handlers -> Jobs \cup {NoCall}]
    <2>1. BindArguments(req) \in Bound
      BY <1>4, BoundCall DEF Call, admitCall
    <2>2. e \in Epochs
      BY SettingTypes DEF TypeOK
    <2>3. [at |-> "reserve", epoch |-> e, call |-> BindArguments(req), stamp |-> now, result |-> 0] \in Jobs
      BY <1>0, <2>1, <2>2 DEF Jobs
    <2> QED
      BY <1>2, <1>4, <2>3 DEF Call
  <1>5. ASSUME NEW h \in Handlers, handlers[h] # NoCall, reserve(h)
        PROVE  handlers' \in [Handlers -> Jobs \cup {NoCall}]
    <2>1. handlers[h] \in Jobs
      BY <1>5, JobTypes
    <2>2. [handlers[h] EXCEPT !.at = "query"] \in Jobs
      BY <2>1 DEF Jobs
    <2>3. Leave(h) \/ Set(h, [handlers[h] EXCEPT !.at = "query"])
      BY <1>5, Zenon DEF reserve
    <2> QED
      BY <1>2, <1>3, <2>2, <2>3
  <1>6. ASSUME NEW h \in Handlers, handlers[h] # NoCall, runQuery(h)
        PROVE  handlers' \in [Handlers -> Jobs \cup {NoCall}]
    <2> DEFINE result == EventLogQuery(handlers[h].call)
    <2>1. handlers[h] \in Jobs /\ handlers[h].call.rows \in Int
      BY <1>6, JobTypes
    <2>2. result \in Int
      BY <2>1, MinOfTwo DEF EventLogQuery, TypeOK
    <2>3. \/ Set(h, AtStamp(handlers[h], "fail", now)) \/ Leave(h)
          \/ Set(h, AtResult(handlers[h], "commit", now, result))
      BY <1>6, Zenon DEF runQuery, AtStamp, AtResult
    <2> HIDE DEF result
    <2>4. AtStamp(handlers[h], "fail", now) \in Jobs /\ AtResult(handlers[h], "commit", now, result) \in Jobs
      BY <1>0, <2>1, <2>2, HandlerMoves
    <2> QED
      BY <1>2, <1>3, <2>3, <2>4
  <1>7. ASSUME NEW h \in Handlers, commitResult(h) \/ failCall(h)
        PROVE  handlers' \in [Handlers -> Jobs \cup {NoCall}]
    BY <1>3, <1>7, Zenon DEF commitResult, failCall
  <1>8. ASSUME NEW e \in Processes, Crash(e) PROVE handlers' \in [Handlers -> Jobs \cup {NoCall}]
    BY <1>0, <1>8 DEF Crash
  <1>9. ASSUME NEW e \in Processes,
               maintainRuntimeLease(e) \/ ClaimAndRecover(e) \/ Renew(e) \/ StartAttempt(e) \/ EndAttempt(e)
        PROVE  handlers' \in [Handlers -> Jobs \cup {NoCall}]
    BY <1>1, <1>9, Zenon DEF maintainRuntimeLease, ClaimAndRecover, Renew, StartAttempt, EndAttempt
  <1>10. CASE Lapses \/ Tick \/ Ingest \/ UNCHANGED <<vars, setting>>
    BY <1>1, <1>10, Zenon DEF Lapses, Tick, Ingest, vars
  <1>11. Serving \subseteq Handlers
    BY EvidenceAssumption DEF TypeOK, Serving
  <1> QED
    BY <1>4, <1>5, <1>6, <1>7, <1>8, <1>9, <1>10, <1>11 DEF Next, Step

-----------------------------------------------------------------------------
(* The invariant and the theorems. *)

\* No call was made at first, and every handler, owner and clock step keeps IInv.
THEOREM EvidenceInvariance == Spec => []IInv
  <1>1. Init => IInv
    <2> SUFFICES ASSUME Init PROVE IInv
      OBVIOUS
    <2>1. DOMAIN rows = {} /\ DOMAIN tokens = {} /\ replies = {} /\ queried = [k \in Keys |-> 0]
      BY DEF Init
    <2>2. TypeOK
      BY <2>1 DEF Init, TypeOK
    <2>3. QueriedOnce /\ RepliesStored
      BY <2>1 DEF QueriedOnce, RepliesStored
    <2> QED
      BY <2>2, <2>3 DEF IInv
  <1>2. IInv /\ [Next]_<<vars, setting>> => IInv'
    <2> SUFFICES ASSUME IInv, [Next]_<<vars, setting>> PROVE IInv'
      OBVIOUS
    <2>1. WorldTypeOK' /\ handlers' \in [Handlers -> Jobs \cup {NoCall}]
      BY WorldStep, HandlerStep DEF IInv
    <2>2. Answers'
      BY StepMoves
    <2> QED
      BY <2>1, <2>2 DEF WorldTypeOK, Answers, IInv, TypeOK, Episodes
  <1> QED
    BY <1>1, <1>2, PTL DEF Spec

\* However often a request is sent and however many handlers and process lives
\* serve it, its call is put to the provider once and every worker that is
\* answered is told the stored result (reserve, commitResult).
THEOREM CallAnsweredOnce == Spec => []OneAnswerPerCall
  <1>1. IInv => OneAnswerPerCall
    <2> SUFFICES ASSUME IInv PROVE OneAnswerPerCall
      OBVIOUS
    <2>1. \A k \in Keys : queried[k] <= 1
      BY DEF IInv, QueriedOnce
    <2> QED
      BY <2>1 DEF IInv, RepliesStored, OneAnswerPerCall
  <1> QED
    BY <1>1, EvidenceInvariance, PTL

\* Every step that completes a row is a commit for the attempt that is running,
\* under the lease of the process that reserved the row.
THEOREM CommitsAreCurrent == Spec => CommittedForCurrentAttempt
  <1>1. ASSUME IInv, [Next]_<<vars, setting>>
        PROVE  [\A k \in DOMAIN rows :
                  rows[k].status # "completed" /\ rows'[k].status = "completed"
                     => /\ Holds(rows[k].epoch)
                        /\ episode = [life |-> "running", fence |-> k[1], inFlight |-> TRUE]]_vars
    <2> SUFFICES ASSUME NEW k \in DOMAIN rows, rows[k].status # "completed", rows'[k].status = "completed"
                 PROVE  Holds(rows[k].epoch) /\ episode = [life |-> "running", fence |-> k[1], inFlight |-> TRUE]
      OBVIOUS
    <2>1. PICK key \in Keys : Commits(key)
      BY <1>1, StepMoves DEF Move
    <2>2. key = k
      BY <2>1 DEF Commits
    <2>3. episode \in Episodes
      BY <1>1 DEF IInv, TypeOK, Episodes
    <2> QED
      BY <2>1, <2>2, <2>3 DEF Commits, Current, Episodes
  <1> QED
    BY <1>1, EvidenceInvariance, PTL DEF Spec, CommittedForCurrentAttempt
=============================================================================
