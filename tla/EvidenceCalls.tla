---------------------------- MODULE EvidenceCalls ----------------------------
(***************************************************************************)
(* Evidence calls (internal/evidence): the bounded reads that a worker may *)
(* ask for during its attempt.  A call is admitted against the capability  *)
(* of the attempt, reserved in the ledger, answered by a query outside any *)
(* transaction, and committed or failed in a second transaction.           *)
(*                                                                         *)
(* Several handlers of several process lives run at once; a request may be *)
(* sent again while its first handler works.  The attempts of the one      *)
(* episode come and go beside them (EpisodeLedger models that in full).    *)
(* A result is the number of events read: rows and bytes are both counted  *)
(* in events.  Tokens are unforgeable and name their attempt.              *)
(***************************************************************************)
EXTENDS OwnerFence, Integers, FiniteSets, FiniteSetsExt

CONSTANTS
    Handlers,   \* concurrent executions of Server.Call
    Calls,      \* call ids
    Fences,     \* the fences 1..n the attempts of the episode draw
    NoDeadline, \* the deadline of a request that names none
    CallTime,   \* default time for a call
    Settings    \* the deployments to check, by name

ASSUME EvidenceAssumption ==
    /\ Fences \subseteq Nat \ {0} /\ CallTime \in Nat \ {0} /\ NoDeadline \notin Nat
    /\ \A n \in DOMAIN Settings : LET p == Settings[n] IN
       /\ p.processes \subseteq Epochs /\ p.handlers \subseteq Handlers
       /\ {p.scopeRows, p.scopeBytes, p.ttl, p.lease} \subseteq Nat \ {0}
       /\ p.maxTime \in Nat /\ p.maxEvents \in Nat
       /\ p.requests \subseteq
          [call: Calls, fence: Fences, token: Fences, entity: {"own", "other"},
           window: {"inside", "outside"}, rows: Nat, bytes: Nat, deadline: Nat \cup {NoDeadline}]

VARIABLES
    now,
    episode,    \* the episode: [life, fence, inFlight] of its current attempt
    tokens,     \* capabilities: fence -> [epoch, expires]
    events,     \* number of events in the granted window
    rows,       \* evidence_call_ledger: <<fence, call>> -> reservation
    handlers,   \* what every handler holds
    queried,    \* history: how often each key was put to the provider
    replies,    \* history: results given to a worker, [key, result]
    setting     \* the deployment, chosen once

vars == <<ownerVars, now, episode, tokens, events, rows, handlers, queried, replies>>
historyVars == <<queried, replies>>
worldVars == <<ownerVars, now, episode, tokens, events>>

\* The parameters of the chosen setting.
Requests == Settings[setting].requests
ScopeRows == Settings[setting].scopeRows
ScopeBytes == Settings[setting].scopeBytes
TTL == Settings[setting].ttl
Lease == Settings[setting].lease
MaxTime == Settings[setting].maxTime
MaxEvents == Settings[setting].maxEvents
Serving == Settings[setting].handlers
Processes == Settings[setting].processes

Keys == Fences \X Calls
NoCall == [at |-> "idle"]

-----------------------------------------------------------------------------
(* Capabilities.                                                           *)

Issue(e) == [epoch |-> e, expires |-> now + TTL]

CheckValidity(token) == now < token.expires

Verify(req) == req.token \in DOMAIN tokens /\ CheckValidity(tokens[req.token])

grants(req) == req.token = req.fence /\ req.entity = "own"
coversTimeRange(req) == req.window = "inside"
AuthorizeScope(req, e) == grants(req) /\ tokens[req.token].epoch = e /\ coversTimeRange(req)

ValidateEnvelope(req) == req.rows > 0 /\ req.bytes > 0

minNonZero(left, right) == IF left = 0 THEN right ELSE Min({left, right})

CallDeadline(req) ==
    Min({IF req.deadline = NoDeadline THEN now + CallTime ELSE req.deadline, tokens[req.token].expires})

(* The call as it was authorized; its fingerprint is all of its fields.    *)
BindArguments(req) ==
    [key |-> <<req.fence, req.call>>, rows |-> minNonZero(req.rows, ScopeRows),
     bytes |-> minNonZero(req.bytes, ScopeBytes), deadline |-> CallDeadline(req)]

admitCall(req, e) ==
    ValidateEnvelope(req) /\ Verify(req) /\ AuthorizeScope(req, e) /\ CallDeadline(req) > now

-----------------------------------------------------------------------------
(* Rules of the ledger.                                                    *)

Current(key) == episode.fence = key[1]
CheckLiveEpisode(key) == Current(key) /\ episode.life \in {"admitted", "running"}
attemptInFlight(key) == Current(key) /\ episode.inFlight
assertLiveAttempt(key) == CheckLiveEpisode(key) /\ attemptInFlight(key)

(* Fault: the result is stored for an attempt that is over.                *)
assertAttemptAssumed(key) == TRUE

assertAttemptRunning(key) == Current(key) /\ episode.life = "running" /\ attemptInFlight(key)

SameRequest(row, call, e) == row.call = call /\ row.epoch = e

(* The condition of the updates that complete or fail a row.               *)
OwnedReservation(key, call, e, at) ==
    /\ key \in DOMAIN rows
    /\ rows[key].status = "running"
    /\ SameRequest(rows[key], call, e)
    /\ rows[key].lease > at

InsertReservation(call, e, at) ==
    [k \in DOMAIN rows \cup {call.key} |->
        IF k = call.key
        THEN [call |-> call, epoch |-> e, status |-> "running", lease |-> at + Lease, result |-> 0]
        ELSE rows[k]]

StoreResult(key, result) == [rows EXCEPT ![key].status = "completed", ![key].result = result]

Interrupt(keys) ==
    [k \in DOMAIN rows |->
        IF k \in keys /\ rows[k].status = "running" THEN [rows[k] EXCEPT !.status = "interrupted"] ELSE rows[k]]

ReclaimExpired(e) == Interrupt({k \in DOMAIN rows : rows[k].lease <= now \/ rows[k].epoch # e})

Recover(e) == Interrupt({k \in DOMAIN rows : rows[k].epoch # e})

(* Fault: a repeated call that still runs is put to the provider again.    *)
ReservationRefusalLoose(row) == row.status # "running"

(* A row that this handler did not create is refused: still running, or    *)
(* terminal without a result.                                              *)
ReservationRefusal(row) == row.status # "completed"

-----------------------------------------------------------------------------
(* A call, step by step.                                                   *)

Set(h, c) == handlers' = [handlers EXCEPT ![h] = c]
Leave(h) == Set(h, NoCall)
Reply(key, result) == replies' = replies \cup {[key |-> key, result |-> result]}

(* Admission changes nothing; the clock for the reservation's lease is read *)
(* with it.  A refused request leaves no trace.                            *)
Call(h, e, req) ==
    /\ handlers[h] = NoCall
    /\ admitCall(req, e)
    /\ Set(h, [at |-> "reserve", epoch |-> e, call |-> BindArguments(req), stamp |-> now, result |-> 0])
    /\ UNCHANGED <<worldVars, rows, historyVars>>

(* The reservation transaction, and what follows from an existing row.     *)
reserve(h) ==
    LET c == handlers[h]
        key == c.call.key
        passed == Holds(c.epoch) /\ assertLiveAttempt(key)
        existing == key \in DOMAIN rows
        same == existing /\ SameRequest(rows[key], c.call, c.epoch)
        stored == same /\ rows[key].status = "completed"
        refused == existing /\ (~same \/ ReservationRefusal(rows[key]))
    IN  /\ c.at = "reserve"
        /\ \/ /\ passed /\ ~stored /\ ~refused
              /\ rows' = IF existing THEN rows ELSE InsertReservation(c.call, c.epoch, c.stamp)
              /\ queried' = [queried EXCEPT ![key] = @ + 1]
              /\ Set(h, [c EXCEPT !.at = "query"])
              /\ UNCHANGED replies
           \/ /\ passed /\ stored
              /\ Reply(key, rows[key].result)
              /\ Leave(h)
              /\ UNCHANGED <<rows, queried>>
           \/ /\ ~passed \/ (refused /\ ~stored)
              /\ Leave(h)
              /\ UNCHANGED <<rows, historyVars>>
        /\ UNCHANGED worldVars

(* The provider reads at most as many events as the call may have.         *)
EventLogQuery(call) == Min({events, call.rows})

ResultViolation(call, result) == result > call.bytes \/ result > call.rows

(* The query ends with an error, with a result that is out of bounds, with *)
(* a result that comes too late or to nobody, or with a result.            *)
runQuery(h) ==
    LET c == handlers[h]
        result == EventLogQuery(c.call)
        violated == ResultViolation(c.call, result)
    IN  /\ c.at = "query"
        /\ \/ Set(h, [c EXCEPT !.at = "fail", !.stamp = now])
           \/ violated /\ now < c.call.deadline /\ Set(h, [c EXCEPT !.at = "fail", !.stamp = now])
           \/ Leave(h)
           \/ ~violated /\ now < c.call.deadline /\ Set(h, [c EXCEPT !.at = "commit", !.stamp = now, !.result = result])
        /\ UNCHANGED <<worldVars, rows, historyVars>>

(* The second transaction, detached from the worker's context.  A result   *)
(* that cannot be committed is not returned, and its row stays as it is.   *)
commitResult(h) ==
    LET c == handlers[h]
        key == c.call.key
        owned == Holds(c.epoch) /\ assertAttemptRunning(key) /\ OwnedReservation(key, c.call, c.epoch, c.stamp)
    IN  /\ c.at = "commit"
        /\ \/ owned /\ rows' = StoreResult(key, c.result) /\ Reply(key, c.result)
           \/ ~owned /\ UNCHANGED <<rows, replies>>
        /\ Leave(h)
        /\ UNCHANGED <<worldVars, queried>>

(* Its error is dropped; the worker hears of the failed query either way.  *)
failCall(h) ==
    LET c == handlers[h]
        key == c.call.key
        owned == Holds(c.epoch) /\ OwnedReservation(key, c.call, c.epoch, c.stamp)
    IN  /\ c.at = "fail"
        /\ \/ owned /\ rows' = [rows EXCEPT ![key].status = "failed"]
           \/ ~owned /\ UNCHANGED rows
        /\ Leave(h)
        /\ UNCHANGED <<worldVars, historyVars>>

-----------------------------------------------------------------------------
(* The heartbeat reclaims, and a new owner recovers as it claims.          *)

maintainRuntimeLease(e) ==
    /\ Holds(e)
    /\ rows' = ReclaimExpired(e)
    /\ UNCHANGED <<worldVars, handlers, historyVars>>

(* Recovery interrupts the attempts and the calls of other epochs in the   *)
(* claiming transaction.                                                   *)
ClaimAndRecover(e) ==
    /\ owner # e
    /\ Take(e)
    /\ rows' = Recover(e)
    /\ episode' = [episode EXCEPT !.inFlight = FALSE,
                                  !.life = IF @ = "running" THEN "admitted" ELSE @]
    /\ UNCHANGED <<now, tokens, events, handlers, historyVars>>

-----------------------------------------------------------------------------
(* The surroundings.                                                       *)

StartAttempt(e) ==
    /\ Holds(e)
    /\ episode.life = "admitted" /\ ~episode.inFlight
    /\ episode.fence + 1 \in Fences
    /\ episode' = [life |-> "running", fence |-> episode.fence + 1, inFlight |-> TRUE]
    /\ tokens' = [f \in DOMAIN tokens \cup {episode.fence + 1} |->
                    IF f = episode.fence + 1 THEN Issue(e) ELSE tokens[f]]
    /\ UNCHANGED <<ownerVars, now, events, rows, handlers, historyVars>>

(* The attempt fails and may be retried, or the episode is closed.         *)
EndAttempt(e) ==
    /\ Holds(e)
    /\ episode.inFlight
    /\ \E life \in {"admitted", "closed"} : episode' = [episode EXCEPT !.life = life, !.inFlight = FALSE]
    /\ UNCHANGED <<ownerVars, now, tokens, events, rows, handlers, historyVars>>

Lapses == Lapse /\ UNCHANGED <<now, episode, tokens, events, rows, handlers, historyVars>>
Renew(e) == owner = e /\ Take(e) /\ UNCHANGED <<now, episode, tokens, events, rows, handlers, historyVars>>
Tick == now < MaxTime /\ now' = now + 1 /\ UNCHANGED <<ownerVars, episode, tokens, events, rows, handlers, historyVars>>
Ingest == events < MaxEvents /\ events' = events + 1 /\ UNCHANGED <<ownerVars, now, episode, tokens, rows, handlers, historyVars>>

(* A process dies with its handlers.                                       *)
Crash(e) ==
    /\ handlers' = [h \in Handlers |-> IF handlers[h] # NoCall /\ handlers[h].epoch = e THEN NoCall ELSE handlers[h]]
    /\ UNCHANGED <<worldVars, rows, historyVars>>

Init ==
    /\ setting \in DOMAIN Settings
    /\ OwnerInit
    /\ now = 0 /\ events = 0
    /\ episode = [life |-> "admitted", fence |-> 0, inFlight |-> FALSE]
    /\ tokens = <<>> /\ rows = <<>>
    /\ handlers = [h \in Handlers |-> NoCall]
    /\ queried = [k \in Keys |-> 0]
    /\ replies = {}

Step ==
    \/ \E h \in Serving :
          \/ handlers[h] # NoCall /\ (reserve(h) \/ runQuery(h) \/ commitResult(h) \/ failCall(h))
          \/ \E e \in Processes, req \in Requests : Call(h, e, req)
    \/ \E e \in Processes :
          \/ maintainRuntimeLease(e) \/ ClaimAndRecover(e) \/ Renew(e)
          \/ StartAttempt(e) \/ EndAttempt(e) \/ Crash(e)
    \/ Lapses \/ Tick \/ Ingest

Next == Step /\ UNCHANGED setting

Spec == Init /\ [][Next]_<<vars, setting>>
-----------------------------------------------------------------------------

(* A call id is put to the provider once, however often it is sent, by     *)
(* however many handlers and process lives, and what a worker was told for *)
(* it is what the ledger keeps: a repeated call, whichever handler serves  *)
(* it, gets the same result although the event log has grown.              *)
OneAnswerPerCall ==
    /\ \A k \in Keys : queried[k] <= 1
    /\ \A r \in replies : rows[r.key].status = "completed" /\ rows[r.key].result = r.result

(* A result is committed only while its attempt is the running one, under  *)
(* the lease of the process that reserved it.                              *)
CommittedForCurrentAttempt ==
    [][\A k \in DOMAIN rows :
          rows[k].status # "completed" /\ rows'[k].status = "completed"
              => /\ Holds(rows[k].epoch)
                 /\ episode = [life |-> "running", fence |-> k[1], inFlight |-> TRUE]]_vars

---------------------------------------------------------------------------
(* Instances for TLC. *)

Ask(fence, rowLimit, byteLimit, deadline) ==
    [call |-> "c1", fence |-> fence, token |-> fence, entity |-> "own", window |-> "inside",
     rows |-> rowLimit, bytes |-> byteLimit, deadline |-> deadline]

First == Ask(1, 1, 1, 3)

(* One call sent again as it is, without a deadline, and with another      *)
(* limit, which asks for more than the capability grants.                  *)
Repeated == {First, [First EXCEPT !.deadline = NoDeadline], [First EXCEPT !.rows = 2, !.bytes = 2]}

(* The same call id in two attempts.                                       *)
Attempts == {First, [First EXCEPT !.fence = 2, !.token = 2]}

(* Requests that admission refuses, beside one it accepts and one whose    *)
(* result may be larger than its bytes.                                    *)
Refused ==
    {First, Ask(1, 2, 1, NoDeadline), [First EXCEPT !.rows = 0], [First EXCEPT !.token = 2], [First EXCEPT !.entity = "other"],
     [First EXCEPT !.window = "outside"], [First EXCEPT !.deadline = 0]}

MCSettings ==
    [\* One call sent several times to two handlers of one process life.
     repeat   |-> [requests |-> Repeated, processes |-> {"p1"}, handlers |-> {"h1", "h2"},
                   scopeRows |-> 1, scopeBytes |-> 1, ttl |-> 2, lease |-> 1, maxTime |-> 2, maxEvents |-> 2],
     \* The same call id in two attempts across a change of the owner.
     handover |-> [requests |-> Attempts, processes |-> {"p1", "p2"}, handlers |-> {"h1", "h2"},
                   scopeRows |-> 1, scopeBytes |-> 1, ttl |-> 2, lease |-> 1, maxTime |-> 1, maxEvents |-> 0],
     \* Requests outside the capability, and handlers that give up.
     reclaim  |-> [requests |-> Refused, processes |-> {"p1", "p2"}, handlers |-> {"h1"},
                   scopeRows |-> 2, scopeBytes |-> 2, ttl |-> 2, lease |-> 1, maxTime |-> 2, maxEvents |-> 2]]

=============================================================================
