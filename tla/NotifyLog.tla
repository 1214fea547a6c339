------------------------------ MODULE NotifyLog ------------------------------
(***************************************************************************)
(* The durable notification outbox (internal/notify) and the Server-Sent   *)
(* Events streams that read it (internal/api).  Producers append events    *)
(* with a tenant-local cursor, an operator prunes old ones under the       *)
(* runtime owner lease, and subscribers follow the log by cursor, across   *)
(* disconnects, prunes and records whose stored bytes no longer verify.    *)
(*                                                                         *)
(* One tenant: every key of the five tables starts with the tenant.  An    *)
(* append and a prune are one transaction each.  A page read is not: the   *)
(* oldest cursor, the highwater, the rows and every poison counter are     *)
(* statements or transactions of their own, and are steps of their own.    *)
(* An event's identity is its id; its canonical bytes are its id and time. *)
(***************************************************************************)
EXTENDS Integers, Sequences, FiniteSets, FiniteSetsExt

CONSTANTS
    Floor,    \* RetentionFloor
    Settings  \* the deployments to check, by name

NotifyAssumption ==
    /\ Floor \in Nat
    /\ \A n \in DOMAIN Settings : LET p == Settings[n] IN
          /\ {p.maxTime, p.maxCursor, p.pageSize, p.maxLag, p.poisonBudget, p.maxCorrupt, p.maxDrops, p.maxStops} \subseteq Nat
          /\ p.pageSize > 0 /\ p.poisonBudget > 0
          /\ p.retentions \subseteq Nat
          /\ p.hidden \subseteq p.ids
          /\ p.leaseLapses \in BOOLEAN

VARIABLES
    now,        \* the clock
    log,        \* notifications: cursor -> [id, time, at, poison]
    nextCursor, \* notification_cursors; 0 while the tenant has no row
    tombstones, \* notification_event_tombstones: id -> [time, at]
    attempts,   \* notification_poison_attempts: cursor -> count
    audits,     \* notification_audits: the set of <<action, cursor>>
    history,    \* what was ever published, by cursor (a history variable)
    up,         \* whether the runtime process serves streams
    pruneResult,\* the outcome of the last prune
    drops,      \* broken connections so far
    stops,      \* stops of the runtime so far
    stream,     \* the server's side of each subscriber's stream
    client,     \* the subscriber's own durable side
    setting     \* the deployment, chosen once

tables == <<log, nextCursor, tombstones, attempts, audits>>
vars == <<now, tables, history, up, pruneResult, drops, stops, stream, client>>

\* The parameters of the chosen setting.
Ids == Settings[setting].ids
Hidden == Settings[setting].hidden
Subscribers == Settings[setting].subscribers
MaxTime == Settings[setting].maxTime
MaxCursor == Settings[setting].maxCursor
Retentions == Settings[setting].retentions
PageSize == Settings[setting].pageSize
MaxLag == Settings[setting].maxLag
PoisonBudget == Settings[setting].poisonBudget
MaxCorrupt == Settings[setting].maxCorrupt
MaxDrops == Settings[setting].maxDrops
MaxStops == Settings[setting].maxStops
LeaseLapses == Settings[setting].leaseLapses

Cursors == 1..MaxCursor
NoCursor == 0

Without(f, S) == [x \in DOMAIN f \ S |-> f[x]]
With(f, x, v) == [y \in DOMAIN f \cup {x} |-> IF y = x THEN v ELSE f[y]]

-----------------------------------------------------------------------------
(* Appending.                                                              *)

Expired(time) == time < now - Floor

FindNotification(id) == {c \in DOMAIN log : log[c].id = id}

AllocateCursor == IF nextCursor = 0 THEN 1 ELSE nextCursor

notificationRow(id, time) == [id |-> id, time |-> time, at |-> now, poison |-> FALSE]

(* appendSealed: an event already stored, one whose id has a tombstone and *)
(* one past the deduplication horizon leave the tables as they are: the    *)
(* first returns its cursor or a payload conflict, the others an error     *)
(* that rolls the caller's transaction back.                               *)
AppendEvent(id, time) ==
    /\ AllocateCursor <= MaxCursor
    /\ ~Expired(time)
    /\ FindNotification(id) = {}
    /\ id \notin DOMAIN tombstones
    /\ log' = With(log, AllocateCursor, notificationRow(id, time))
    /\ nextCursor' = AllocateCursor + 1
    /\ history' = Append(history, [id |-> id, time |-> time])
    /\ UNCHANGED <<now, tombstones, attempts, audits, up, pruneResult, drops, stops, stream, client>>

-----------------------------------------------------------------------------
(* Retention.                                                              *)

Retirable(cutoff) == {c \in DOMAIN log : log[c].at < cutoff}

RetireNotifications(cutoff) ==
    [id \in DOMAIN tombstones \cup {log[c].id : c \in Retirable(cutoff)} |->
        IF id \in DOMAIN tombstones
        THEN tombstones[id]
        ELSE [time |-> log[CHOOSE c \in Retirable(cutoff) : log[c].id = id].time, at |-> now]]

DeleteExpiredTombstones(retired, cutoff) ==
    Without(retired, {id \in DOMAIN retired : retired[id].at < cutoff})

(* notification_poison_attempts references notifications, and foreign keys *)
(* are enforced: deleting a row that has a counter aborts the transaction. *)
Referenced(cutoff) == Retirable(cutoff) \cap DOMAIN attempts # {}

retire(cutoff) ==
    \/ /\ Referenced(cutoff)
       /\ pruneResult' = "failed"
       /\ UNCHANGED tables
    \/ /\ ~Referenced(cutoff)
       /\ pruneResult' = "done"
       /\ tombstones' = DeleteExpiredTombstones(RetireNotifications(cutoff), cutoff)
       /\ log' = Without(log, Retirable(cutoff))
       /\ UNCHANGED <<nextCursor, attempts, audits>>

(* The operator's prune claims the owner lease first, so the runtime is    *)
(* stopped, or, where LeaseLapses, has let its lease expire.  A page is    *)
(* read without the lease: raced remembers (as history) what a prune took  *)
(* between the bounds and the rows of a page.                              *)
Prune(retention) ==
    /\ retention >= Floor
    /\ ~up \/ LeaseLapses
    /\ retire(now - retention)
    /\ client' = [s \in Subscribers |->
           IF stream[s].at \in {"bounds", "rows"}
           THEN [client[s] EXCEPT !.raced = @ \cup (DOMAIN log \ DOMAIN log')] ELSE client[s]]
    /\ UNCHANGED <<now, history, up, drops, stops, stream>>

(* Environment: the stored bytes of a row stop matching their digest.      *)
Corrupt(c) ==
    /\ c \in DOMAIN log
    /\ ~log[c].poison
    /\ Cardinality({d \in DOMAIN log : log[d].poison}) < MaxCorrupt
    /\ log' = [log EXCEPT ![c].poison = TRUE]
    /\ UNCHANGED <<now, nextCursor, tombstones, attempts, audits, history, up, pruneResult, drops, stops, stream, client>>

-----------------------------------------------------------------------------
(* Reading a page.                                                         *)

Closed == [at |-> "off", cursor |-> 0, seen |-> {}, oldest |-> NoCursor, rows |-> <<>>, page |-> <<>>, next |-> 0]

(* The stream ends: the handler returns and its state is gone.             *)
Close(s) == stream' = [stream EXCEPT ![s] = Closed]

(* Fault: a cursor is expired only once nothing is retained.               *)
ExpiredWhenEmpty(cursor, oldest, highwater) ==
    oldest = NoCursor /\ highwater # 0 /\ cursor < highwater - 1

expired(cursor, oldest, highwater) ==
    IF oldest # NoCursor THEN cursor < oldest - 1 ELSE highwater # 0 /\ cursor < highwater - 1

lagging(cursor, highwater) == MaxLag > 0 /\ highwater # 0 /\ highwater - 1 - cursor > MaxLag

(* The first statement of TenantBounds.                                    *)
ReadOldest(s) ==
    /\ stream[s].at = "oldest"
    /\ stream' = [stream EXCEPT ![s].at = "bounds",
                                ![s].oldest = IF log = <<>> THEN NoCursor ELSE Min(DOMAIN log)]
    /\ UNCHANGED <<now, tables, history, up, pruneResult, drops, stops, client>>

(* A refused resume is audited; the client learns why and must resnapshot. *)
auditRefusal(s, action) ==
    /\ audits' = audits \cup {<<action, stream[s].cursor>>}
    /\ client' = [client EXCEPT ![s].told = action]
    /\ Close(s)

(* The second statement of TenantBounds, then RefuseResume.                *)
RefuseResume(s) ==
    /\ stream[s].at = "bounds"
    /\ \/ /\ expired(stream[s].cursor, stream[s].oldest, nextCursor)
          /\ auditRefusal(s, "cursor_expired")
       \/ /\ ~expired(stream[s].cursor, stream[s].oldest, nextCursor)
          /\ lagging(stream[s].cursor, nextCursor)
          /\ auditRefusal(s, "subscriber_too_slow")
       \/ /\ ~expired(stream[s].cursor, stream[s].oldest, nextCursor)
          /\ ~lagging(stream[s].cursor, nextCursor)
          /\ stream' = [stream EXCEPT ![s].at = "rows"]
          /\ UNCHANGED <<audits, client>>
    /\ UNCHANGED <<now, log, nextCursor, tombstones, attempts, history, up, pruneResult, drops, stops>>

(* The first PageSize rows after the cursor, as they are stored now.       *)
PageRows(cursor) ==
    LET after == {c \in DOMAIN log : c > cursor}
        taken == {c \in after : Cardinality({d \in after : d <= c}) <= PageSize}
        sorted == CHOOSE q \in [1..Cardinality(taken) -> taken] :
                      \A i, j \in DOMAIN q : i < j => q[i] < q[j]
    IN  [i \in DOMAIN sorted |-> [cursor |-> sorted[i], id |-> log[sorted[i]].id, poison |-> log[sorted[i]].poison]]

ReadRows(s) ==
    /\ stream[s].at = "rows"
    /\ stream' = [stream EXCEPT ![s].at = "admit", ![s].rows = PageRows(stream[s].cursor),
                                ![s].page = <<>>, ![s].next = stream[s].cursor]
    /\ UNCHANGED <<now, tables, history, up, pruneResult, drops, stops, client>>

(* Page.Deliver and Page.Skip.                                             *)
Deliver(st) == [st EXCEPT !.rows = Tail(@), !.page = Append(@, Head(st.rows)), !.next = Head(st.rows).cursor]
Skip(st) == [st EXCEPT !.rows = Tail(@), !.next = Head(st.rows).cursor]

(* A valid record joins the page and its poison counter is cleared.        *)
AdmitValid(s) ==
    /\ stream[s].at = "admit" /\ stream[s].rows # <<>>
    /\ ~Head(stream[s].rows).poison
    /\ attempts' = Without(attempts, {Head(stream[s].rows).cursor})
    /\ stream' = [stream EXCEPT ![s] = Deliver(@)]
    /\ UNCHANGED <<now, log, nextCursor, tombstones, audits, history, up, pruneResult, drops, stops, client>>

PoisonAttempts(c) == IF c \in DOMAIN attempts THEN attempts[c] + 1 ELSE 1

CountPoisonAttempt(c) == With(attempts, c, PoisonAttempts(c))

SkipAudit(c) == audits \cup {<<"subscriber_skipped", c>>}

(* admitPoison: the attempt is counted; while the budget lasts the page    *)
(* and the stream fail, and once it is spent the record is skipped, the    *)
(* skip audited and the counter cleared in one transaction.  Counting an   *)
(* attempt of a row that was pruned meanwhile breaks the foreign key.      *)
admitPoison(s) ==
    /\ stream[s].at = "admit" /\ stream[s].rows # <<>>
    /\ Head(stream[s].rows).poison
    /\ LET c == Head(stream[s].rows).cursor IN
       \/ /\ c \notin DOMAIN log
          /\ Close(s)
          /\ UNCHANGED <<attempts, audits>>
       \/ /\ c \in DOMAIN log /\ PoisonAttempts(c) < PoisonBudget
          /\ attempts' = CountPoisonAttempt(c)
          /\ Close(s)
          /\ UNCHANGED audits
       \/ /\ c \in DOMAIN log /\ PoisonAttempts(c) >= PoisonBudget
          /\ audits' = SkipAudit(c)
          /\ attempts' = Without(attempts, {c})
          /\ stream' = [stream EXCEPT ![s] = Skip(@)]
    /\ UNCHANGED <<now, log, nextCursor, tombstones, history, up, pruneResult, drops, stops, client>>

-----------------------------------------------------------------------------
(* The stream handler.                                                     *)

(* A subscriber connects with the last id it stored.                       *)
Connect(s) ==
    /\ up
    /\ stream[s].at = "off"
    /\ client[s].told = "ok"
    /\ stream' = [stream EXCEPT ![s] = [Closed EXCEPT !.at = "oldest", !.cursor = client[s].last]]
    /\ UNCHANGED <<now, tables, history, up, pruneResult, drops, stops, client>>

(* Dedup: the window of four pages is cleared when it is full.             *)
Remember(seen, id) == (IF Cardinality(seen) >= 4 * PageSize THEN {} ELSE seen) \cup {id}

(* deliverRecord: the server's cursor moves; a repeated event or one whose *)
(* type is not allowed writes no frame, so the client's id does not move.  *)
deliverRecord(s) ==
    /\ stream[s].at = "admit" /\ stream[s].rows = <<>> /\ stream[s].page # <<>>
    /\ LET record == Head(stream[s].page)
           repeated == record.id \in stream[s].seen
       IN  /\ stream' = [stream EXCEPT ![s].page = Tail(@), ![s].cursor = record.cursor,
                                       ![s].seen = IF repeated THEN @ ELSE Remember(@, record.id)]
           /\ client' = IF repeated \/ record.id \in Hidden THEN client
                        ELSE [client EXCEPT ![s].last = record.cursor, ![s].got = @ \cup {record.cursor}]
    /\ UNCHANGED <<now, tables, history, up, pruneResult, drops, stops>>

(* writePage: after the last record the cursor moves past skipped rows.    *)
PageDone(s) ==
    /\ stream[s].at = "admit" /\ stream[s].rows = <<>> /\ stream[s].page = <<>>
    /\ stream' = [stream EXCEPT ![s].at = "idle", ![s].oldest = NoCursor,
                                ![s].cursor = Max({@, stream[s].next}), ![s].next = 0]
    /\ UNCHANGED <<now, tables, history, up, pruneResult, drops, stops, client>>

pollOnce(s) ==
    /\ stream[s].at = "idle"
    /\ stream' = [stream EXCEPT ![s].at = "oldest"]
    /\ UNCHANGED <<now, tables, history, up, pruneResult, drops, stops, client>>

(* The connection breaks; a frame that was not received is a lost write.   *)
Drop(s) ==
    /\ stream[s].at # "off"
    /\ drops < MaxDrops
    /\ drops' = drops + 1
    /\ Close(s)
    /\ UNCHANGED <<now, tables, history, up, pruneResult, stops, client>>

(* External: a refused client takes a snapshot of the head and resumes.    *)
Resnapshot(s) ==
    /\ client[s].told # "ok"
    /\ client' = [client EXCEPT ![s] = [told |-> "ok", last |-> nextCursor - 1, base |-> nextCursor - 1, got |-> {}, raced |-> {}]]
    /\ UNCHANGED <<now, tables, history, up, pruneResult, drops, stops, stream>>

(* The runtime process stops, ending every stream, and starts again.       *)
Stop ==
    /\ up
    /\ stops < MaxStops
    /\ stops' = stops + 1
    /\ up' = FALSE
    /\ stream' = [s \in Subscribers |-> Closed]
    /\ UNCHANGED <<now, tables, history, pruneResult, drops, client>>

Start ==
    /\ ~up
    /\ up' = TRUE
    /\ UNCHANGED <<now, tables, history, pruneResult, drops, stops, stream, client>>

Tick ==
    /\ now < MaxTime
    /\ now' = now + 1
    /\ UNCHANGED <<tables, history, up, pruneResult, drops, stops, stream, client>>

-----------------------------------------------------------------------------
Init ==
    /\ setting \in DOMAIN Settings
    /\ now = 0
    /\ log = <<>> /\ nextCursor = 0 /\ tombstones = <<>> /\ attempts = <<>> /\ audits = {}
    /\ history = <<>>
    /\ up = TRUE
    /\ pruneResult = "none"
    /\ drops = 0 /\ stops = 0
    /\ stream = [s \in Subscribers |-> Closed]
    /\ client = [s \in Subscribers |-> [told |-> "ok", last |-> 0, base |-> 0, got |-> {}, raced |-> {}]]

AppendAny == up /\ \E id \in Ids, time \in 0..now : AppendEvent(id, time)

Serve(s) ==
    \/ ReadOldest(s) \/ RefuseResume(s) \/ ReadRows(s) \/ AdmitValid(s) \/ admitPoison(s)
    \/ deliverRecord(s) \/ PageDone(s) \/ pollOnce(s)

Step ==
    \/ AppendAny
    \/ \E r \in Retentions : Prune(r)
    \/ \E c \in Cursors : Corrupt(c)
    \/ \E s \in Subscribers : Serve(s) \/ Connect(s) \/ Drop(s) \/ Resnapshot(s)
    \/ Stop \/ Start \/ Tick

Next == Step /\ UNCHANGED setting

Spec == Init /\ [][Next]_<<vars, setting>>

-----------------------------------------------------------------------------

(* A client's stored id never moves past a record without a reason: every  *)
(* cursor since its last snapshot was delivered, was of a hidden type, was *)
(* poison whose skip is in the audit table, or was pruned between the      *)
(* bounds check and the row read of one page, which takes a prune under a  *)
(* lapsed lease (ReadPage, RefuseResume, Page.Skip).                       *)
SkipsAreExplained ==
    \A s \in Subscribers : \A c \in client[s].base + 1..client[s].last :
        \/ c \in client[s].got
        \/ history[c].id \in Hidden
        \/ <<"subscriber_skipped", c>> \in audits
        \/ LeaseLapses /\ c \in client[s].raced
=============================================================================
