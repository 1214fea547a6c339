---------------------------- MODULE MCGovernance ----------------------------
(****************************************************************************)
(* Governance for TLC: the evaluation and approval of intents, the outbox   *)
(* that their commands leave by, the notification log and the cost ledger.  *)
(* One component moves in a behaviour, the others rest where they begin, so *)
(* that every component is checked over its own deployments and             *)
(* interleavings.                                                           *)
(****************************************************************************)
EXTENDS Governance, TLC

CONSTANTS Global, Tenants, Unset, NoLimit, NoReservation, NoCommand

VARIABLES
    part,   \* the component that moves
    notifyNow, notifyLog, nextCursor, tombstones, attempts, audits, history, up, pruneResult, drops,
    stops, stream, client, setting,
    limit, reservation, life, configured, costSetting,
    outboxOwner, outboxValid, outboxRetired, outboxInterlock, proc, queue, cmd, box, lease, live, lapsed,
    outcomes, ver, work, calls, applied

-----------------------------------------------------------------------------
(* The deployments of Governance.                                            *)

MCCatalog ==
    [notice |-> [risk |-> "R1", approval |-> FALSE, limit |-> 1],
     valve |-> [risk |-> "R2", approval |-> FALSE, limit |-> 0],
     mode |-> [risk |-> "R0", approval |-> TRUE, limit |-> 0]]

MCBucketOf == [v \in 1..2 |-> 1]

Intent(id, type, risk, target, expires) ==
    [id |-> id, type |-> type, risk |-> risk, target |-> target, compensates |-> target # "none",
     expires |-> expires, bound |-> TRUE, entity |-> "dispatched", preset |-> "kept", evidence |-> {}]

Decision(intents) ==
    [attempt |-> "dispatched", snapshot |-> "dispatched", until |-> 9, code |-> "none", kind |-> "act",
     reconsider |-> FALSE, facts |-> {}, intents |-> intents]

Notice == Decision(<<Intent("i1", "notice", "R1", "none", 2)>>)

\* One consequential intent, and the same one under a lower label.
ApprovalDecisions ==
    {Decision(<<Intent("i1", "valve", "R2", "none", 2)>>),
     Decision(<<Intent("i1", "valve", "R1", "none", 2)>>)}

\* Two notices compete for the limit, one of them as a compensation; a Decision
\* may not carry both, nor answer for an old attempt.
LimitDecisions ==
    {Notice,
     Decision(<<Intent("i2", "notice", "R1", "none", 2)>>),
     [Decision(<<Intent("i2", "notice", "R1", "i1", 2)>>) EXCEPT !.reconsider = TRUE],
     Decision(<<Intent("i1", "notice", "R1", "none", 2), Intent("i2", "notice", "R1", "none", 2)>>),
     [Decision(<<Intent("i1", "notice", "R1", "none", 2)>>) EXCEPT !.attempt = "fenced"]}

\* A flagged automatic intent and a notice, and a request for evidence.
QueueDecisions ==
    {Decision(<<Intent("i1", "mode", "R0", "none", 2)>>),
     Decision(<<Intent("i2", "notice", "R1", "none", 2)>>),
     [Decision(<<>>) EXCEPT !.kind = "need_more_evidence"]}

Grants == {<<"ann", "R2">>, <<"ann", "R0">>}

Document(active, key, grants) ==
    [listed |-> {"ann", "rob"}, active |-> active, key |-> [p \in {"ann", "rob"} |-> key], grants |-> grants]

\* Ann may approve; a later document disables them; a grant on R3 is refused.
ApprovalRosters ==
    {Document({"ann", "rob"}, "k1", Grants), Document({"rob"}, "k1", Grants), Document({"ann", "rob"}, "k1", {<<"ann", "R3">>})}

OneRoster == {Document({"ann", "rob"} \cap {"ann", "rob"}, "k1", Grants)}

Deployment(epochs, decisions, rosters, maxTime) ==
    [epochs |-> epochs, decisions |-> decisions, rosters |-> rosters, maxTime |-> maxTime,
     unreadable |-> {}, misbound |-> {}, unconcluded |-> {}, undated |-> {}]

MCDeployments ==
    {Deployment({"r1", "op"}, ApprovalDecisions, ApprovalRosters, 2),
     Deployment({"r1"}, LimitDecisions, OneRoster, 1),
     Deployment({"r1", "r2"}, {Notice}, OneRoster, 0),
     [Deployment({"r1"}, QueueDecisions, OneRoster, 1) EXCEPT !.misbound = {"i2"}],
     [Deployment({"r1"}, {Notice}, OneRoster, 0) EXCEPT !.unreadable = {"i1"}],
     [Deployment({"r1"}, {Notice}, OneRoster, 0) EXCEPT !.unconcluded = {"i1"}],
     [Deployment({"r1"}, {Notice}, OneRoster, 0) EXCEPT !.undated = {"i1"}]}

-----------------------------------------------------------------------------
(* The deployments of NotifyLog.                                             *)

Quiet ==
    [ids |-> {"e1", "e2"}, hidden |-> {}, subscribers |-> {"s1"}, retentions |-> {1},
     pageSize |-> 2, maxLag |-> 0, poisonBudget |-> 3, maxTime |-> 0, maxCursor |-> 2,
     maxCorrupt |-> 0, maxDrops |-> 0, maxStops |-> 0, leaseLapses |-> FALSE]

NotifySettings ==
    [\* Appends, repeats and prunes over the retention horizon, also when the lease lapses under a reader.
     retention |-> [Quiet EXCEPT !.retentions = {1, 2}, !.pageSize = 1, !.poisonBudget = 2, !.maxTime = 3,
                                 !.maxCursor = 3, !.maxCorrupt = 1, !.leaseLapses = TRUE],
     \* A corrupted row, a broken connection and a prune during a stop.
     streams   |-> [Quiet EXCEPT !.poisonBudget = 2, !.maxTime = 2, !.maxCorrupt = 1, !.maxDrops = 1, !.maxStops = 1],
     \* A hidden type, a lag limit, two corrupted rows in one page and a broken connection.
     poison    |-> [Quiet EXCEPT !.ids = {"e1", "e2", "e3"}, !.hidden = {"e2"}, !.maxLag = 2, !.maxCursor = 3,
                                 !.maxCorrupt = 2, !.maxDrops = 1],
     \* Two clients share the poison counters of the tenant.
     shared    |-> [Quiet EXCEPT !.subscribers = {"s1", "s2"}, !.maxCorrupt = 2]]

-----------------------------------------------------------------------------
(* The deployments of CostLedger.                                            *)

Row(max) == [max |-> max, kill |-> FALSE, reserved |-> 0, spent |-> 0]

(* The global ceiling and one tenant's.                                      *)
Configured == {(Global :> Row(3)) @@ ("t1" :> Row(2)) @@ [t \in Tenants |-> NoLimit]}

CostSettings ==
    [\* Configured again while episodes run.
     again    |-> [costs |-> {0, 2}, ceilings |-> {0, 2}, maxConfigured |-> 1],
     \* Configured before any episode; workers that overspend.
     overrun  |-> [costs |-> {0, 1, 3}, ceilings |-> {}, maxConfigured |-> 0]]

-----------------------------------------------------------------------------
Notify == INSTANCE NotifyLog WITH
    Floor <- 1, Settings <- NotifySettings, now <- notifyNow, log <- notifyLog

Cost == INSTANCE CostLedger WITH
    Episodes <- {"e1", "e2"}, Amounts <- {0, 1, 2}, Settings <- CostSettings, setting <- costSetting

(* One dispatcher in each of two processes, one command with a document     *)
(* that fails its verification.                                             *)
Outbox == INSTANCE ActionOutbox WITH
    Epochs <- {"r1", "r2"}, Runtimes <- {"r1", "r2"}, Dispatchers <- {"d1", "d2"},
    DispatcherOf <- [d \in {"d1", "d2"} |-> IF d = "d1" THEN "r1" ELSE "r2"], Commands <- {"c1", "c2"},
    Invalid <- {"c2"}, MaxOutcomes <- 3, owner <- outboxOwner, valid <- outboxValid,
    retired <- outboxRetired, interlock <- outboxInterlock

ASSUME CatalogAssumption
ASSUME GovernanceAssumption
ASSUME Notify!NotifyAssumption

intentsVars == <<vars, deployment>>
notifyVars ==
    <<notifyNow, notifyLog, nextCursor, tombstones, attempts, audits, history, up, pruneResult,
      drops, stops, stream, client, setting>>
costVars ==
    <<limit, reservation, life, configured, costSetting>>
outboxVars ==
    <<outboxOwner, outboxValid, outboxRetired, outboxInterlock, proc, queue, cmd, box, lease, live, lapsed,
      outcomes, ver, work, calls, applied>>
all == <<part, intentsVars, notifyVars, costVars, outboxVars>>

(* A component that rests stays where one of its deployments begins.       *)
MCInit ==
    /\ part \in {"intents", "notify", "cost", "outbox"}
    /\ part # "intents" => deployment = Deployment({"r1", "r2"}, {Notice}, OneRoster, 0)
    /\ part # "notify" => setting = "shared"
    /\ part # "cost" => costSetting = "again"
    /\ Init /\ Notify!Init /\ Cost!Init /\ Outbox!Init

MCNext ==
    \/ part = "intents" /\ Next /\ UNCHANGED <<part, notifyVars, costVars, outboxVars>>
    \/ part = "notify" /\ Notify!Next /\ UNCHANGED <<part, intentsVars, costVars, outboxVars>>
    \/ part = "cost" /\ Cost!Next /\ UNCHANGED <<part, intentsVars, notifyVars, outboxVars>>
    \/ part = "outbox" /\ Outbox!Next /\ UNCHANGED <<part, intentsVars, notifyVars, costVars>>

(* The fairness of the dispatchers asks nothing of the outbox at rest,      *)
(* where no process is up.                                                  *)
MCSpec == MCInit /\ [][MCNext]_all /\ Outbox!Fairness

-----------------------------------------------------------------------------
(* A subscriber is told of everything it was not sent (NotifyLog).          *)
SkipsAreExplained == Notify!SkipsAreExplained

(* Every limit row holds the sum of the reservations and of what was spent  *)
(* behind it, a row created late short of the earlier ones (CostLedger).    *)
LimitsBalance == Cost!LimitsBalance

(* Every command leaves the outbox while one dispatcher keeps serving       *)
(* (ActionOutbox).                                                          *)
RowsClose == Outbox!RowsClose
=============================================================================
