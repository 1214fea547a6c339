----------------------------- MODULE WatchLedger -----------------------------
(***************************************************************************)
(* Watches (internal/watch): bounded, expiring conditions that an approved *)
(* command installs and that the batches of the pipeline fire on the       *)
(* events they ingest (internal/runtime, fireRecentWatches).               *)
(*                                                                         *)
(* Installing, expiring and firing are one transaction each.  Between the  *)
(* listing of an event's candidates, the reading of a Situation's features *)
(* and the firing transaction other processes, the maintenance loop and    *)
(* the clock may move; what was read is kept in the process.  Several      *)
(* process lives run at once, and only the lease tells the owner.          *)
(***************************************************************************)
EXTENDS OwnerFence, Integers, Sequences, FiniteSets

CONSTANTS
    Watches,        \* watch ids: the idempotency keys of install commands
    Targets,        \* the entities that events are about
    Situations,     \* the situations that watches belong to
    Commands,       \* install commands: a route, an expression that compiles or
                    \* not, and the condition [situation, target, expires, max]
    MaxFires,       \* the largest allowance a payload may ask for, 100 in the code
    MaxClock,       \* bound on the clock
    MaxEvents       \* bound on the event log

ASSUME WatchAssumption ==
    /\ MaxClock \in Nat /\ MaxEvents \in Nat
    /\ MaxFires \in Nat \ {0}
    /\ Commands \subseteq
          [route: {"watch", "other"}, compiles: BOOLEAN,
           condition: [situation: Situations, target: Targets, expires: Nat, max: Nat]]

VARIABLES
    now,        \* the clock
    tripped,    \* the governance interlock
    watches,    \* watch_conditions: id -> [condition, remaining, status]
    fires,      \* watch_fires: the set of [watch, event, at]
    log,        \* the event log: the target (entity) of every event
    features,   \* per Situation: does its runtime state satisfy the expression
    proc        \* the batch of every process life

ledgerVars == <<watches, fires>>
vars == <<ownerVars, now, tripped, ledgerVars, log, features, proc>>

(* A Situation without runtime state has no features.                      *)
Found == {"match", "mismatch"}
Features == Found \cup {"absent"}

Status == {"active", "disabled", "expired"}

Idle == [at |-> "idle", cursor |-> 0, last |-> 0, candidates |-> {}, watch |-> "none", matched |-> FALSE, stamp |-> 0]

FiresOf(w) == {f \in fires : f.watch = w}

-----------------------------------------------------------------------------
(* Rules of the store.                                                     *)

(* Fault: a watch still fires at the instant it expires.                   *)
DueLate(row, at) == row.status = "active" /\ row.condition.expires < at

Due(row, at) == row.status = "active" /\ row.condition.expires <= at

LoadActive(rows, w, at) == w \in DOMAIN rows /\ rows[w].status = "active" /\ ~Due(rows[w], at)

ExpireDue(rows, at) ==
    [w \in DOMAIN rows |-> IF Due(rows[w], at) THEN [rows[w] EXCEPT !.status = "expired"] ELSE rows[w]]

(* Fault: an existing watch is replaced.                                   *)
InsertConditionReplacing(rows, w, c) ==
    [x \in DOMAIN rows \cup {w} |-> IF x = w THEN [condition |-> c, remaining |-> c.max, status |-> "active"] ELSE rows[x]]

InsertCondition(rows, w, c) ==
    IF w \in DOMAIN rows THEN rows
    ELSE [x \in DOMAIN rows \cup {w} |->
             IF x = w THEN [condition |-> c, remaining |-> c.max, status |-> "active"] ELSE rows[x]]

RecordsFire(rows, w, event, at) ==
    /\ LoadActive(rows, w, at) /\ rows[w].remaining > 0
    /\ \A f \in FiresOf(w) : f.event # event

(* Fault: the last unit leaves the watch active.                           *)
SpendAllowanceOpen(row) == [row EXCEPT !.remaining = @ - 1]

SpendAllowance(row) ==
    [row EXCEPT !.remaining = @ - 1,
                !.status = IF row.remaining = 1 THEN "disabled" ELSE @]

ActiveForTarget(target) ==
    {w \in DOMAIN watches : watches[w].condition.target = target /\ LoadActive(watches, w, now)}

assertGuards(e) == Holds(e) /\ ~tripped

-----------------------------------------------------------------------------
(* Installing: the effector's dispatch of a watch command.                 *)

RequireRoute(command) == command.route = "watch"

ConditionFromCommand(command, at) ==
    /\ command.condition.max \in 1..MaxFires
    /\ command.compiles
    /\ command.condition.expires > at

(* A repeat of an installed watch is accepted, or refused as a conflict    *)
(* with the stored condition, and changes nothing; a first install passes  *)
(* the guards in its transaction.                                          *)
installOnce(e, w, c) ==
    /\ w \in DOMAIN watches \/ assertGuards(e)
    /\ watches' = InsertCondition(watches, w, c)

(* The clock is read before the transaction, which may wait for the writer *)
(* lock: a watch can be born due.                                          *)
Dispatch(e, w, command) ==
    /\ RequireRoute(command)
    /\ \E at \in 0..now : ConditionFromCommand(command, at)
    /\ installOnce(e, w, command.condition)
    /\ UNCHANGED <<ownerVars, now, tripped, fires, log, features, proc>>

-----------------------------------------------------------------------------
(* A batch: ingest, expire, run the engine, fire the watches of what was   *)
(* ingested, event by event.                                               *)

Goto(e, p) == proc' = [proc EXCEPT ![e] = p]

(* An append asserts the owner in its transaction.  The position before    *)
(* the batch is read first; firing starts there.                           *)
Ingest(e, target) ==
    /\ proc[e].at = "idle"
    /\ Holds(e)
    /\ Len(log) < MaxEvents
    /\ log' = Append(log, target)
    /\ Goto(e, [Idle EXCEPT !.at = "ingested", !.cursor = Len(log)])
    /\ UNCHANGED <<ownerVars, now, tripped, ledgerVars, features>>

(* Expire at the start of the batch.  Without the lease the batch fails    *)
(* and its events are never offered to a watch again.                      *)
advanceBatch(e) ==
    /\ proc[e].at = "ingested"
    /\ \/ /\ Holds(e)
          /\ watches' = ExpireDue(watches, now)
          /\ Goto(e, [proc[e] EXCEPT !.at = "page"])
       \/ /\ ~Holds(e)
          /\ Goto(e, Idle)
          /\ UNCHANGED watches
    /\ UNCHANGED <<ownerVars, now, tripped, fires, log, features>>

(* The page of events after the position, as the log is now: events of     *)
(* another process that took the lease meanwhile are among them.           *)
fireRecentWatches(e) ==
    /\ proc[e].at = "page"
    /\ Goto(e, [proc[e] EXCEPT !.at = "event", !.last = Len(log)])
    /\ UNCHANGED <<ownerVars, now, tripped, ledgerVars, log, features>>

FireEvent(e) ==
    /\ proc[e].at = "event"
    /\ proc[e].cursor < proc[e].last
    /\ Goto(e, [proc[e] EXCEPT !.at = "candidates", !.cursor = @ + 1,
                               !.candidates = ActiveForTarget(log[proc[e].cursor + 1])])
    /\ UNCHANGED <<ownerVars, now, tripped, ledgerVars, log, features>>

BatchDone(e) ==
    /\ proc[e].at = "event"
    /\ proc[e].cursor = proc[e].last
    /\ Goto(e, Idle)
    /\ UNCHANGED <<ownerVars, now, tripped, ledgerVars, log, features>>

EventDone(e) ==
    /\ proc[e].at = "candidates"
    /\ proc[e].candidates = {}
    /\ Goto(e, [proc[e] EXCEPT !.at = "event"])
    /\ UNCHANGED <<ownerVars, now, tripped, ledgerVars, log, features>>

(* The features are read before the transaction, then the clock.           *)
fireCandidate(e, w) ==
    /\ proc[e].at = "candidates"
    /\ w \in proc[e].candidates
    /\ LET read == features[watches[w].condition.situation]
           rest == [proc[e] EXCEPT !.candidates = @ \ {w}]
       IN  Goto(e, IF read \in Found
                   THEN [rest EXCEPT !.at = "fire", !.watch = w, !.matched = (read = "match"), !.stamp = now]
                   ELSE rest)
    /\ UNCHANGED <<ownerVars, now, tripped, ledgerVars, log, features>>

InScope(row, event) == row.condition.target = log[event]

activeWatchMatches(rows, w, event, matched, at) ==
    LoadActive(rows, w, at) /\ InScope(rows[w], event) /\ matched

(* One transaction: guards, ExpireDue, then the fire and its allowance.  A *)
(* failed guard fails the batch.                                           *)
fireIn(e) ==
    /\ proc[e].at = "fire"
    /\ LET w == proc[e].watch
           event == proc[e].cursor
           at == proc[e].stamp
           rows == ExpireDue(watches, at)
           fired == activeWatchMatches(rows, w, event, proc[e].matched, at) /\ RecordsFire(rows, w, event, at)
       IN  \/ /\ assertGuards(e)
              /\ fired
              /\ fires' = fires \cup {[watch |-> w, event |-> event, at |-> at]}
              /\ watches' = [rows EXCEPT ![w] = SpendAllowance(@)]
              /\ Goto(e, [proc[e] EXCEPT !.at = "candidates"])
           \/ /\ assertGuards(e)
              /\ ~fired
              /\ watches' = rows
              /\ Goto(e, [proc[e] EXCEPT !.at = "candidates"])
              /\ UNCHANGED fires
           \/ /\ ~assertGuards(e)
              /\ Goto(e, Idle)
              /\ UNCHANGED ledgerVars
    /\ UNCHANGED <<ownerVars, now, tripped, log, features>>

(* Expire of the maintenance loop, under the lease.                        *)
Expire(e) ==
    /\ Holds(e)
    /\ watches' = ExpireDue(watches, now)
    /\ UNCHANGED <<ownerVars, now, tripped, fires, log, features, proc>>

-----------------------------------------------------------------------------
(* The surroundings: the clock, the interlock, the Situation's features,   *)
(* the lease and the death of a process.                                   *)

Tick == now < MaxClock /\ now' = now + 1 /\ UNCHANGED <<ownerVars, tripped, ledgerVars, log, features, proc>>
Trip == ~tripped /\ tripped' = TRUE /\ UNCHANGED <<ownerVars, now, ledgerVars, log, features, proc>>
Learn(s, f) == features' = [features EXCEPT ![s] = f] /\ UNCHANGED <<ownerVars, now, tripped, ledgerVars, log, proc>>
Crash(e) == proc[e] # Idle /\ Goto(e, Idle) /\ UNCHANGED <<ownerVars, now, tripped, ledgerVars, log, features>>
Lease == OwnerNext /\ UNCHANGED <<now, tripped, ledgerVars, log, features, proc>>

Init ==
    /\ OwnerInit
    /\ now = 0
    /\ tripped = FALSE
    /\ watches = <<>> /\ fires = {}
    /\ log = <<>>
    /\ features \in [Situations -> Features]
    /\ proc = [e \in Epochs |-> Idle]

Batch(e) ==
    \/ advanceBatch(e) \/ fireRecentWatches(e) \/ FireEvent(e) \/ BatchDone(e) \/ EventDone(e) \/ fireIn(e)
    \/ \E w \in Watches : fireCandidate(e, w)

Next ==
    \/ \E e \in Epochs :
          \/ \E w \in Watches, c \in Commands : Dispatch(e, w, c)
          \/ \E t \in Targets : Ingest(e, t)
          \/ Batch(e) \/ Expire(e) \/ Crash(e)
    \/ Tick \/ Trip \/ Lease
    \/ \E s \in Situations, f \in Features : Learn(s, f)

Spec == Init /\ [][Next]_vars

-----------------------------------------------------------------------------

(* The allowance is exact: what is left and what was fired add up to what  *)
(* was approved, an event fires a watch once, and a watch is disabled      *)
(* exactly when nothing is left, whichever processes list, fire and crash. *)
AllowanceHolds ==
    \A w \in DOMAIN watches :
        /\ watches[w].remaining + Cardinality(FiresOf(w)) = watches[w].condition.max
        /\ \A f, g \in FiresOf(w) : f.event = g.event => f = g
        /\ watches[w].remaining = 0 <=> watches[w].status = "disabled"

(* A fire was recorded before its watch expired, on an event of its own    *)
(* target, although the candidate and the features were read earlier.      *)
FiredInScope ==
    \A f \in fires :
        /\ f.at < watches[f.watch].condition.expires
        /\ log[f.event] = watches[f.watch].condition.target

(* An installed watch never changes its condition, and one that expired or *)
(* spent its allowance never becomes active again, whatever is installed   *)
(* again under its id.                                                     *)
WatchIsFinal ==
    [][\A w \in DOMAIN watches :
          /\ w \in DOMAIN watches'
          /\ watches'[w].condition = watches[w].condition
          /\ watches[w].status # "active" => watches'[w] = watches[w]]_vars

-----------------------------------------------------------------------------
(* Instances for TLC: payloads for one id that differ in allowance, expiry *)
(* and target, and payloads that are refused.                              *)

Install(target, expires, max) ==
    [route |-> "watch", compiles |-> TRUE,
     condition |-> [situation |-> "x1", target |-> target, expires |-> expires, max |-> max]]

MCCommands ==
    LET twice == Install("t1", 2, 2)
        once == Install("t1", 1, 1)
    IN  {twice, once, Install("t2", 2, 1), Install("t1", 2, 0), Install("t1", 2, 3),
         [twice EXCEPT !.compiles = FALSE], [once EXCEPT !.route = "other"]}
=============================================================================
