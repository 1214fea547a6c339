-------------------------- MODULE PlantConversation --------------------------
(***************************************************************************)
(* The plant wire host (internal/plantwire) as a listener: sessions one at *)
(* a time, the sequence of a node's records, births and rebirths, readings *)
(* that become events, heartbeats on the node's time, and barriers that    *)
(* are answered once the ingest queue and the reasoning allow it.  The     *)
(* feeder drains the queue into the pipeline concurrently.                 *)
(*                                                                         *)
(* External: the node, which sends any record.  The pipeline is the event  *)
(* log that keeps one event per id.  A device has one metric; a sample     *)
(* either carries its alias or an alias the birth did not declare.  The    *)
(* payload of an event is the seq of its record and its quality.  A node   *)
(* carries one birth document of Births in every NBIRTH.                   *)
(***************************************************************************)
EXTENDS Integers, Sequences, SequencesExt, FiniteSets, TLC

CONSTANTS
    Environment,  \* Settings.Environment of the host
    Contract,     \* the contract version and digest of the host
    Commissioned, \* kind -> digest of its kind file
    Site,         \* device -> [kind, entity, beats]: the site file
    EveryMS,      \* heartbeat period of the site
    MaxSessions,  \* bound: sessions
    Settings      \* the deployments to check, by name

Devices == DOMAIN Site
Kinds == DOMAIN Commissioned
ProtocolVersion == 1

PlantAssumption ==
    /\ EveryMS \in Nat
    /\ \A n \in DOMAIN Settings :
          /\ Settings[n].lastSeq \in 0 .. Settings[n].top /\ Settings[n].queueSize \in Nat \ {0}
          /\ Settings[n].staleAfter \in Nat
          /\ Settings[n].others \subseteq {"invalid", "outside", "unknown alias", "historical"}
    /\ \A d \in Devices : Site[d].kind \in Kinds /\ (Site[d].beats => Site[d].entity)

VARIABLES
    host,       \* running, stopping, stopped
    sessions,   \* sessions accepted so far
    conv,       \* the Conversation of the live session, with its ingest
    queue,      \* ingestQueue.events
    feeder,     \* the feed goroutine: [at, event]
    drained,    \* a token in ingestQueue.drained
    held,       \* replies held behind a barrier
    recheck,    \* the poll timer of a held barrier is set
    reasoning,  \* the consumer has reasoning in flight
    log,        \* events of the event log
    conflicts,  \* events quarantined as conflicting duplicates
    wire,       \* history: records written in the current or latest session
    seen,       \* history of the session: good samples as <<device, boot, time>>
    setting     \* the deployment, chosen once

feedVars == <<queue, feeder, drained>>
logVars == <<log, conflicts>>
holdVars == <<held, recheck>>
vars == <<host, sessions, conv, feedVars, holdVars, reasoning, logVars, wire, seen>>

\* The parameters of the chosen setting.
Births == Settings[setting].births
Types == Settings[setting].types
Qualities == Settings[setting].qualities
Others == Settings[setting].others
BootIDs == Settings[setting].boots
StaleAfterMS == Settings[setting].staleAfter
QueueSize == Settings[setting].queueSize
Reasoned == Settings[setting].reasoned
CheckFails == Settings[setting].checkFails
Stops == Settings[setting].stops
Top == Settings[setting].top
LastSeq == Settings[setting].lastSeq
MaxBD == Settings[setting].maxBD
MaxTime == Settings[setting].maxTime
MaxOut == Settings[setting].maxOut

Unborn == [boot |-> 0]
NoEvent == [kind |-> "none"]
NoConversation ==
    [live |-> FALSE, accepted |-> FALSE, asked |-> FALSE, next |-> 0, out |-> 0, bd |-> 0, kinds |-> {},
     devices |-> [d \in Devices |-> Unborn], nowNS |-> 0]

Init ==
    /\ setting \in DOMAIN Settings
    /\ host = "running" /\ sessions = 0 /\ conv = NoConversation
    /\ queue = <<>> /\ feeder = [at |-> "idle", event |-> NoEvent] /\ drained = FALSE
    /\ held = <<>> /\ recheck = FALSE /\ reasoning = FALSE
    /\ log = {} /\ conflicts = {}
    /\ wire = <<>> /\ seen = {}

-----------------------------------------------------------------------------
(* Admission of a birth.                                                   *)

protocolValid(b) == b.min <= b.max

strayBoard(b) == \E board \in b.boards : board.environment # b.environment
unmixed(b) == {board.environment : board \in b.boards} # {"simulated", "hardware"}
claimFault(b) == IF b.environment = "mixed" THEN unmixed(b) ELSE strayBoard(b)
faultOfEnvironment(b) == claimFault(b) \/ Environment \notin {"mixed", b.environment}
environmentAgrees(b) == ~faultOfEnvironment(b)

contractSupported(b) == b.contract = Contract

versionSupported(b) == b.min <= ProtocolVersion /\ ProtocolVersion <= b.max

(* A kind of a birth is [name, declared, digest]; digest is recomputed.    *)
misdigestedKind(b) == \E i \in DOMAIN b.kinds : b.kinds[i].declared # b.kinds[i].digest
repeatedKind(b) == \E i, j \in DOMAIN b.kinds : i # j /\ b.kinds[i].name = b.kinds[j].name
carries(b, d) == \E board \in b.boards : d \in board.members
missingDevice(b) == \E d \in Devices : ~carries(b, d)
inventoryMatches(b) == ~misdigestedKind(b) /\ ~repeatedKind(b) /\ ~missingDevice(b)

(* Admit: the refusal of the first rule that fails, or none.               *)
Admit(b) ==
    IF ~protocolValid(b) THEN "protocol_invalid"
    ELSE IF ~environmentAgrees(b) THEN "environment_mismatch"
    ELSE IF ~contractSupported(b) THEN "contract_unsupported"
    ELSE IF ~versionSupported(b) THEN "version_unsupported"
    ELSE IF ~inventoryMatches(b) THEN "inventory_mismatch"
    ELSE ""

Quarantined(b) ==
    {b.kinds[i].name : i \in {j \in DOMAIN b.kinds :
        b.kinds[j].name \notin Kinds \/ Commissioned[b.kinds[j].name] # b.kinds[j].declared}}

KindNames(b) == {b.kinds[i].name : i \in DOMAIN b.kinds}

-----------------------------------------------------------------------------
(* Host records.                                                           *)

stateRecord(refusal) == [type |-> "STATE", refusal |-> refusal]
goodbyeRecord == [type |-> "STATE", refusal |-> "offline"]
syncRecord(through) == [type |-> "HSYNC", through |-> through]
rebirthRecord == [type |-> "NCMD"]

(* stamp: a record is numbered when it is written.                         *)
Stamped(records, out) == [i \in DOMAIN records |-> [seq |-> out + i - 1, record |-> records[i]]]

isBarrierAnswer(record) == record.type = "HSYNC"

(* A reaction: the conversation after the record, the replies, the events, *)
(* and why the session ends.                                               *)
Reaction(c, s) == [c |-> c, s |-> s, replies |-> <<>>, events |-> <<>>, end |-> ""]
Reply(r, record) == [r EXCEPT !.replies = Append(@, record)]
emit(r, event) == [r EXCEPT !.events = Append(@, event)]

-----------------------------------------------------------------------------
(* Readings, heartbeats and the node's time.                               *)

readingEvent(d, device, a) ==
    [kind |-> "reading", device |-> d, boot |-> device.boot, at |-> a.at, seq |-> a.seq, good |-> a.good]
heartbeatEvent(d, device, at, a) ==
    [kind |-> "heartbeat", device |-> d, boot |-> device.boot, at |-> at, seq |-> a.seq, good |-> TRUE]
eventID(e) == <<e.kind, e.device, e.boot, e.at>>

noteNodeTime(r, ns) == [r EXCEPT !.c.nowNS = IF ns > @ THEN ns ELSE @]

(* Fault: a sample of any quality counts as good.                          *)
markGoodAny(r, a) ==
    [r EXCEPT !.c.devices[a.device].good = TRUE,
              !.c.devices[a.device].goodNS = IF a.at > @ THEN a.at ELSE @,
              !.s = IF a.good THEN @ \cup {<<a.device, a.boot, a.at>>} ELSE @]

markGood(r, a) ==
    IF a.good THEN [r EXCEPT !.c.devices[a.device].good = TRUE,
                             !.c.devices[a.device].goodNS = IF a.at > @ THEN a.at ELSE @,
                             !.s = @ \cup {<<a.device, a.boot, a.at>>}]
    ELSE r

fresh(device, now) == device.good /\ now - device.goodNS <= StaleAfterMS
due(device, now) == ~device.beaten \/ now - device.lastBeat >= EveryMS

heartbeatDue(c, d) ==
    LET device == c.devices[d]
    IN device # Unborn /\ Site[d].beats /\ device.entity /\ fresh(device, c.nowNS) /\ due(device, c.nowNS)

(* beat: every device that is due, in one pass.                            *)
beat(r, a) ==
    LET c == r.c
        beating == {d \in Devices : heartbeatDue(c, d)}
    IN [r EXCEPT !.c.devices = [d \in Devices |-> IF d \in beating
                                   THEN [c.devices[d] EXCEPT !.beaten = TRUE, !.lastBeat = c.nowNS]
                                   ELSE c.devices[d]],
                 !.events = @ \o SetToSeq({heartbeatEvent(d, c.devices[d], c.nowNS, a) : d \in beating})]

advance(r, ns, a) == beat(noteNodeTime(r, ns), a)

(* unborn: the kind is not commissioned, or not the one of the site file.  *)
unborn(c, a) == a.kind \notin c.kinds \/ Site[a.device].kind # a.kind

bornDevice(a) ==
    [boot |-> a.boot, kind |-> a.kind, entity |-> Site[a.device].entity,
     good |-> FALSE, goodNS |-> 0, beaten |-> FALSE, lastBeat |-> 0]

deviceBirth(r, a) ==
    IF unborn(r.c, a) THEN [r EXCEPT !.c.devices[a.device] = Unborn]
    ELSE advance(markGood([r EXCEPT !.c.devices[a.device] = bornDevice(a)], a), a.at, a)

OnThisBoot(c, a) == c.devices[a.device] # Unborn /\ c.devices[a.device].boot = a.boot

sample(r, a) ==
    LET noted == noteNodeTime(r, a.at)
        device == r.c.devices[a.device]
        marked == markGood(noted, a)
    IN IF ~a.known THEN noted
       ELSE IF device.entity THEN emit(marked, readingEvent(a.device, device, a)) ELSE marked

(* data: historical data and data of another boot are dropped.             *)
data(r, a) == IF ~a.live \/ ~OnThisBoot(r.c, a) THEN r ELSE beat(sample(r, a), a)

deviceDeath(r, a) == IF OnThisBoot(r.c, a) THEN [r EXCEPT !.c.devices[a.device] = Unborn] ELSE r

observe(r, a) ==
    CASE a.type = "DBIRTH" -> deviceBirth(r, a)
      [] a.type = "DDATA"  -> data(r, a)
      [] a.type = "DDEATH" -> deviceDeath(r, a)
      [] a.type = "NSYNC"  -> advance(r, a.at, a)
      [] OTHER             -> r

(* ingest.rebirth: no device is born, the kinds are those of the birth.    *)
ingestRebirth(r, b) ==
    [r EXCEPT !.c.devices = [d \in Devices |-> Unborn], !.c.kinds = KindNames(b) \ Quarantined(b)]

-----------------------------------------------------------------------------
(* The conversation: sequence, handshake, rebirth, death, barriers.        *)

Accept(next, seq) ==
    CASE seq < next -> [order |-> "duplicate", next |-> next]
      [] seq >= next /\ seq = Top -> [order |-> "gap", next |-> next]
      [] seq # Top /\ seq = next -> [order |-> "in order", next |-> next + 1]
      [] seq # Top /\ seq > next -> [order |-> "gap", next |-> seq + 1]

askRebirth(r) ==
    IF ~r.c.accepted \/ r.c.asked THEN r
    ELSE Reply([r EXCEPT !.c.asked = TRUE], rebirthRecord)

inSequence(r, a, order) == IF order = "gap" THEN askRebirth(r) ELSE r

unusable(c, a) == ~a.valid \/ (~c.accepted /\ a.type # "NBIRTH") \/ (c.accepted /\ ~a.within)

commission(r, b) == ingestRebirth(r, b)

handshake(r, a) ==
    LET refusal == Admit(a.birth)
        told == Reply([r EXCEPT !.c.accepted = (refusal = ""), !.c.bd = a.bd, !.c.out = 0], stateRecord(refusal))
    IN IF refusal = "" THEN commission(told, a.birth) ELSE [told EXCEPT !.end = "refused"]

rebirth(r, a) ==
    LET refusal == Admit(a.birth)
    IN IF a.bd <= r.c.bd THEN r
       ELSE IF refusal # "" THEN [Reply(r, stateRecord(refusal)) EXCEPT !.end = "refused"]
       ELSE commission([r EXCEPT !.c.bd = a.bd], a.birth)

birth(r, a) ==
    LET asked == [r EXCEPT !.c.asked = FALSE]
    IN IF r.c.accepted THEN rebirth(asked, a) ELSE handshake(asked, a)

death(r, a) == IF a.bd < r.c.bd THEN r ELSE [r EXCEPT !.end = "node death"]

react(r, a) ==
    observe(CASE a.type = "NBIRTH" -> birth(r, a)
              [] a.type = "NDEATH" -> death(r, a)
              [] a.type = "NSYNC"  -> Reply(r, syncRecord(a.seq))
              [] OTHER             -> r, a)

(* Receive: a duplicate is dropped, a gap asks for a rebirth and the       *)
(* record is still read.                                                   *)
Receive(a) ==
    LET accept == Accept(conv.next, a.seq)
        r == inSequence(Reaction([conv EXCEPT !.next = accept.next], seen), a, accept.order)
    IN IF accept.order = "duplicate" THEN Reaction(conv, seen)
       ELSE IF unusable(conv, a) THEN r ELSE react(r, a)

-----------------------------------------------------------------------------
(* The ingest queue and the feeder.                                        *)

(* enqueue: the events that fit; the session ends when one does not.       *)
Fitting(events) == SubSeq(events, 1, IF Len(events) < QueueSize - Len(queue) THEN Len(events) ELSE QueueSize - Len(queue))

enqueue(events) == queue' = queue \o Fitting(events)

backedUp(q) == Len(q) >= (IF QueueSize \div 4 > 1 THEN QueueSize \div 4 ELSE 1)

(* The event log keeps one event per id.  The same event again is ignored, *)
(* another payload under the id is quarantined (insertEvent).              *)
appendEvent(e) ==
    LET logged == {l \in log : eventID(l) = eventID(e)}
    IN /\ log' = IF logged = {} THEN log \cup {e} ELSE log
       /\ conflicts' = IF logged # {} /\ e \notin logged THEN conflicts \cup {e} ELSE conflicts

feedTakes ==
    /\ feeder.at = "idle" /\ queue # <<>>
    /\ feeder' = [at |-> "emitting", event |-> Head(queue)]
    /\ queue' = Tail(queue)
    /\ UNCHANGED <<host, sessions, conv, drained, holdVars, reasoning, logVars, wire, seen>>

(* emit ends; a new event may start reasoning.  signalDrained.             *)
feedEmits ==
    /\ feeder.at = "emitting"
    /\ appendEvent(feeder.event)
    /\ \E starts \in {FALSE, Reasoned /\ log' # log} : reasoning' = (reasoning \/ starts)
    /\ feeder' = [at |-> "idle", event |-> NoEvent]
    /\ drained' = (drained \/ queue = <<>>)
    /\ UNCHANGED <<host, sessions, conv, queue, holdVars, wire, seen>>

(* emit fails: the host stops.                                             *)
feedFails ==
    /\ Stops /\ feeder.at = "emitting"
    /\ feeder' = [at |-> "stopped", event |-> NoEvent]
    /\ host' = IF host = "running" THEN "stopping" ELSE host
    /\ UNCHANGED <<sessions, conv, queue, drained, holdVars, reasoning, logVars, wire, seen>>

feedStops ==
    /\ host # "running" /\ feeder.at = "idle"
    /\ feeder' = [at |-> "stopped", event |-> NoEvent]
    /\ UNCHANGED <<host, sessions, conv, queue, drained, holdVars, reasoning, logVars, wire, seen>>

(* The episode ends, or the waiting work is admitted and ends.             *)
reasoningEnds ==
    /\ reasoning /\ reasoning' = FALSE
    /\ UNCHANGED <<host, sessions, conv, feedVars, holdVars, logVars, wire, seen>>

-----------------------------------------------------------------------------
(* Barriers.                                                               *)

mayHoldBarriers(q) == Reasoned \/ backedUp(q)
shouldHold(replies, q) == mayHoldBarriers(q) /\ \E i \in DOMAIN replies : isBarrierAnswer(replies[i])
holdUntilDrained(replies, q) == held # <<>> \/ shouldHold(replies, q)

(* reasoningInFlight: the answers the check can give; an error is idle.    *)
reasoningInFlight == IF ~Reasoned THEN {FALSE} ELSE {reasoning} \cup (IF CheckFails THEN {FALSE} ELSE {})

Write(records, out) == wire' = wire \o Stamped(records, out)

(* releaseHeld: the queue first, then the reasoning check, which sets the  *)
(* poll timer while it is busy; held answers are numbered here.            *)
releaseHeld(c, pending, q) ==
    \E busy \in reasoningInFlight :
        IF q # <<>> \/ busy
        THEN held' = pending /\ recheck' = (q = <<>> /\ busy) /\ conv' = c /\ wire' = wire
        ELSE held' = <<>> /\ recheck' = FALSE /\ Write(pending, c.out)
             /\ conv' = [c EXCEPT !.out = @ + Len(pending)]

close ==
    /\ conv' = NoConversation /\ held' = <<>> /\ recheck' = FALSE

(* answer: replies behind a barrier wait with it.                          *)
answer(r, q) ==
    IF holdUntilDrained(r.replies, q)
    THEN IF r.end # "" THEN close /\ wire' = wire
         ELSE releaseHeld(r.c, held \o r.replies, q)
    ELSE /\ Write(r.replies, r.c.out)
         /\ IF r.end # "" THEN close
            ELSE conv' = [r.c EXCEPT !.out = @ + Len(r.replies)] /\ UNCHANGED holdVars

-----------------------------------------------------------------------------
(* The session loop.                                                       *)

Seqs == {conv.next - 1, conv.next, conv.next + 1} \cap (0 .. LastSeq)
Flag(fault) == IF fault \in Others THEN BOOLEAN ELSE {TRUE}

(* Records a node may send: the members a type does not carry are fixed.   *)
Carries(types, set, default) == [t \in Types |-> IF t \in types THEN set ELSE {default}]

Arrivals ==
    UNION {[type : {t}, seq : Seqs, valid : Flag("invalid"), within : Flag("outside"),
            birth : Carries({"NBIRTH"}, Births, CHOOSE b \in Births : TRUE)[t],
            bd : Carries({"NBIRTH", "NDEATH"}, 1 .. MaxBD, 1)[t],
            device : Carries({"DBIRTH", "DDATA", "DDEATH"}, Devices, CHOOSE d \in Devices : TRUE)[t],
            kind : Carries({"DBIRTH"}, Kinds, CHOOSE k \in Kinds : TRUE)[t],
            boot : Carries({"DBIRTH", "DDATA", "DDEATH"}, BootIDs, CHOOSE b \in BootIDs : TRUE)[t],
            at : Carries({"DBIRTH", "DDATA", "NSYNC"}, 1 .. MaxTime, 1)[t],
            good : Carries({"DBIRTH", "DDATA"}, Qualities, TRUE)[t],
            known : Carries({"DDATA"}, Flag("unknown alias"), TRUE)[t],
            live : Carries({"DDATA"}, Flag("historical"), TRUE)[t]] : t \in Types}

acceptSession ==
    /\ host = "running" /\ ~conv.live /\ sessions < MaxSessions
    /\ sessions' = sessions + 1
    /\ conv' = [NoConversation EXCEPT !.live = TRUE]
    /\ wire' = <<>> /\ seen' = {}
    /\ UNCHANGED <<host, feedVars, holdVars, reasoning, logVars>>

(* receive: the conversation reacts, the events are queued, the replies    *)
(* are written or held.                                                    *)
receive ==
    /\ conv.live /\ Len(wire) + Len(held) < MaxOut
    /\ \E a \in Arrivals :
        LET r == Receive(a)
        IN /\ seen' = r.s
           /\ enqueue(r.events)
           /\ IF Fitting(r.events) # r.events THEN close /\ wire' = wire ELSE answer(r, queue')
    /\ UNCHANGED <<host, sessions, feeder, drained, reasoning, logVars>>

heartbeat ==
    /\ conv.accepted /\ Len(wire) + Len(held) < MaxOut
    /\ Write(<<stateRecord("")>>, conv.out)
    /\ conv' = [conv EXCEPT !.out = @ + 1]
    /\ UNCHANGED <<host, sessions, feedVars, holdVars, reasoning, logVars, seen>>

draining ==
    /\ conv.live /\ held # <<>> /\ drained
    /\ drained' = FALSE
    /\ releaseHeld(conv, held, queue)
    /\ UNCHANGED <<host, sessions, queue, feeder, reasoning, logVars, seen>>

rechecks ==
    /\ conv.live /\ recheck
    /\ releaseHeld(conv, held, queue)
    /\ UNCHANGED <<host, sessions, feedVars, reasoning, logVars, seen>>

(* The node closes the connection, or it is lost while reading or writing. *)
lostConnection ==
    /\ conv.live
    /\ close
    /\ UNCHANGED <<host, sessions, feedVars, reasoning, logVars, wire, seen>>

(* ctx.Done: the held answers, then the goodbye.                           *)
endHostStopping ==
    /\ host = "stopping" /\ conv.live
    /\ Write(held \o (IF conv.accepted THEN <<goodbyeRecord>> ELSE <<>>), conv.out)
    /\ close
    /\ UNCHANGED <<host, sessions, feedVars, reasoning, logVars, seen>>

StopHost ==
    /\ Stops /\ host = "running"
    /\ host' = "stopping"
    /\ UNCHANGED <<sessions, conv, feedVars, holdVars, reasoning, logVars, wire, seen>>

(* Run returns once no session is served and the feeder ended.             *)
stopped ==
    /\ host = "stopping" /\ ~conv.live /\ feeder.at = "stopped"
    /\ host' = "stopped"
    /\ UNCHANGED <<sessions, conv, feedVars, holdVars, reasoning, logVars, wire, seen>>

Session == receive \/ heartbeat \/ draining \/ rechecks \/ lostConnection \/ endHostStopping
Feed == feedTakes \/ feedEmits \/ feedFails \/ feedStops
Step == acceptSession \/ Session \/ Feed \/ reasoningEnds \/ StopHost \/ stopped

Next == Step /\ UNCHANGED setting

Spec == Init /\ [][Next]_<<vars, setting>>

-----------------------------------------------------------------------------
(* Properties.                                                             *)

Answered(w) == {w[i].record.through : i \in {j \in DOMAIN w : isBarrierAnswer(w[j].record)}}
Events == UNION {log, conflicts, ToSet(queue), {feeder.event} \ {NoEvent}}

(* A heartbeat event says that its device gave a good sample on that boot, *)
(* not longer than StaleAfterMS before the heartbeat's time, whatever      *)
(* births, deaths, bad samples and jumps of the node's time came between   *)
(* (ingest.beat, fresh).  Events of the live session.                      *)
HeartbeatsFollowSamples ==
    sessions = 1 => \A e \in Events : e.kind = "heartbeat" =>
        \E s \in seen : s[1] = e.device /\ s[2] = e.boot /\ s[3] <= e.at /\ e.at - s[3] <= StaleAfterMS

(* Events read and not yet processed: in the queue or with the feeder.     *)
Unprocessed == ToSet(queue) \cup ({feeder.event} \ {NoEvent})

(* What the wire contract says of HSYNC: while the host runs with a        *)
(* reasoning check, an answered barrier means that every event read up to  *)
(* it was processed.  releaseHeld asks whether the queue is empty, not     *)
(* whether the feeder is still emitting the event it took.                 *)
AnswersCoverEvents ==
    (sessions = 1 /\ host = "running" /\ Reasoned) => \A t \in Answered(wire), e \in Unprocessed : e.seq > t
=============================================================================
