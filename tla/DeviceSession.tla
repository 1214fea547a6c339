---------------------------- MODULE DeviceSession ----------------------------
(***************************************************************************)
(* The typed gateway session (internal/device) on top of DeviceAuthority.  *)
(* Every process life has one session with the device.  Its lock is held   *)
(* for a whole exchange: claim, bind, assert, send, receipt, result.  The  *)
(* dispatcher, a safe stop and an embedder that queries or resolves use    *)
(* the session concurrently; only the safe-stop latch is set outside the   *)
(* lock.  Several lives may be connected at once: a process that lost the  *)
(* runtime lease may still be in the middle of an exchange.                *)
(*                                                                         *)
(* The device and the gateway link are external: a command may be lost,    *)
(* answered late or garbled, and the device may reboot at any moment.  A   *)
(* frame carries the number of the send it answers, which the code cannot  *)
(* see; all safe stops have one command id.                                *)
(***************************************************************************)
EXTENDS DeviceAuthority, Sequences

CONSTANTS
    Stop,     \* the command id of every safe stop
    Settings  \* the deployments to check, by name

SessionAssumption ==
    /\ Stop \notin Commands
    /\ \A n \in DOMAIN Settings :
          Settings[n] \in [lives : SUBSET Epochs, handed : SUBSET Commands, embedders : SUBSET Epochs,
                           stoppers : SUBSET Epochs, repeated : SUBSET Commands, durable : SUBSET BOOLEAN,
                           fencing : SUBSET Epochs, boots : Boots, time : 0 .. MaxTime, maxSends : Nat]

VARIABLES
    device,     \* the device: [boot, output]
    session,    \* the Session of every epoch and its connection
    work,       \* the dispatcher inside DispatchAuthorized and VerifyDeviceCommand
    halt,       \* the caller of SafeStop
    crossed,    \* history: sends of a command that may have reached the device
    doubt,      \* history: the untrusted exchanges of a command or stop on a boot: [id, boot, resolved]
    setting     \* the deployment, chosen once

sessionVars == <<session, work, halt>>
historyVars == <<crossed, doubt>>
vars == <<ownerVars, authorityVars, device, sessionVars, historyVars>>

\* The parameters of the chosen setting.
Lives == Settings[setting].lives
Handed == Settings[setting].handed
Fencing == Settings[setting].fencing
Embedders == Settings[setting].embedders
Stoppers == Settings[setting].stoppers
Repeated == Settings[setting].repeated
Durable == Settings[setting].durable
MaxSends == Settings[setting].maxSends

Off == "off"
NoWork == [at |-> "idle", cmd |-> Stop, boot |-> 1, tag |-> 0, fence |-> 0, accepted |-> FALSE]
NoHalt == [at |-> "idle", tag |-> 0, accepted |-> FALSE, durable |-> TRUE]
(* sent and got are the frames on the connection.  Two fields are history: *)
(* barred, the boots whose safe stop the session read when it opened or    *)
(* recorded, and queried, that it queried since it opened or met doubt.    *)
Unconnected ==
    [at |-> "none", open |-> FALSE, boot |-> 1, state |-> [boot |-> 1, output |-> Off],
     required |-> FALSE, query |-> FALSE, latched |-> FALSE, receipts |-> {}, targets |-> {},
     sends |-> 0, sent |-> <<>>, got |-> <<>>, barred |-> {}, queried |-> FALSE]

WorkSteps == {"idle", "lifetime", "claim", "bind", "assert", "send", "receipt", "held", "result", "cache",
              "unknown", "verify", "query"}
HaltSteps == {"idle", "wait", "send", "receipt", "result", "conclude", "failed"}

Init ==
    /\ setting \in DOMAIN Settings
    /\ AuthorityInit
    /\ device = [boot |-> 1, output |-> Off]
    /\ session = [e \in Epochs |-> Unconnected]
    /\ work = [e \in Epochs |-> NoWork]
    /\ halt = [e \in Epochs |-> NoHalt]
    /\ crossed = [c \in Commands |-> 0]
    /\ doubt = {}

Locked(e) == work[e].at \in WorkSteps \ {"idle", "lifetime", "verify", "query"} \/ halt[e].at \in HaltSteps \ {"idle", "wait"}
Free(e) == session[e].at \in {"live", "closed"} /\ ~Locked(e)

(* ensureOpen: opened and not closed.                                      *)
ensureOpen(e) == session[e].at = "live" /\ session[e].open

-----------------------------------------------------------------------------
(* The device and the link (external).                                     *)

Frame(kind, sent, accepted) ==
    [kind |-> kind, id |-> sent.id, boot |-> device.boot, accepted |-> accepted, tag |-> sent.tag]

(* The device takes the next command of a connection.  It rejects another  *)
(* boot's command, may reject any, and may answer with an unreadable frame. *)
DeviceAnswers(e) ==
    /\ session[e].sent # <<>>
    /\ LET sent == Head(session[e].sent)
       IN \E accepted \in {FALSE, sent.boot = device.boot} : \E receipt \in {"receipt", "garbled"} :
            /\ device' = IF accepted
                         THEN [device EXCEPT !.output = IF sent.id = Stop THEN Off ELSE sent.id] ELSE device
            /\ session' = [session EXCEPT ![e].sent = Tail(@), ![e].got = @ \o
                  <<Frame(receipt, sent, accepted), Frame("result", sent, accepted)>>]
    /\ UNCHANGED <<ownerVars, authorityVars, work, halt, historyVars>>

(* A reboot; the output may be retained.                                   *)
Reboot ==
    /\ device.boot < Settings[setting].boots
    /\ \E output \in {Off, device.output} : device' = [boot |-> device.boot + 1, output |-> output]
    /\ UNCHANGED <<ownerVars, authorityVars, sessionVars, historyVars>>

-----------------------------------------------------------------------------
(* Opening, querying, resolving and closing a session.                     *)

(* receiveHandshake: the connection greets with the device's state.        *)
receiveHandshake(e) ==
    /\ session[e].at = "none" /\ Holds(e)
    /\ session' = [session EXCEPT ![e].at = "greeted", ![e].boot = device.boot, ![e].state = device]
    /\ UNCHANGED <<ownerVars, authorityVars, device, work, halt, historyVars>>

restoreSafeStopState(s, prior) ==
    [s EXCEPT !.at = "live", !.open = TRUE, !.required = recon'.required,
              !.query = prior \/ recon'.required, !.latched = SafeStopLatched(s.boot), !.barred = stops]

(* bindHandshakeBarrier: record the state, take over barrier and latch.    *)
bindHandshakeBarrier(e) ==
    /\ session[e].at = "greeted"
    /\ RecordDeviceState(e, session[e].state)
    /\ session' = [session EXCEPT ![e] = restoreSafeStopState(@, Required)]
    /\ UNCHANGED <<ownerVars, now, fenced, claims, bindings, stops, ledger, device, work, halt, historyVars>>

handshakeFails(e) ==
    /\ session[e].at = "greeted" /\ ~Admitted(e)
    /\ session' = [session EXCEPT ![e].at = "closed"]
    /\ UNCHANGED <<ownerVars, authorityVars, device, work, halt, historyVars>>

(* applyRefreshedState: another boot forgets the receipts.                 *)
applyRefreshedState(s, state) ==
    [s EXCEPT !.boot = state.boot, !.state = state,
              !.receipts = IF state.boot = s.boot THEN @ ELSE {}]

(* persistRefreshedState: without a durable barrier the session is unusable. *)
persistRefreshedState(e, state) ==
    IF Admitted(e)
    THEN /\ RecordDeviceState(e, state)
         /\ session' = [session EXCEPT ![e] = [applyRefreshedState(@, state) EXCEPT
                            !.required = recon'.required, !.query = FALSE, !.queried = TRUE]]
    ELSE /\ session' = [session EXCEPT ![e] = [applyRefreshedState(@, state) EXCEPT
                            !.required = TRUE, !.open = FALSE]]
         /\ UNCHANGED <<recon, openings>>

(* failStateRefresh: no readable state within the time of the query.       *)
failStateRefresh(e) ==
    /\ session' = [session EXCEPT ![e].open = FALSE]
    /\ UNCHANGED <<recon, openings>>

QueryState(e) ==
    /\ e \in Embedders /\ Free(e) /\ ensureOpen(e)
    /\ persistRefreshedState(e, device) \/ failStateRefresh(e)
    /\ UNCHANGED <<ownerVars, now, fenced, claims, bindings, stops, ledger, device, work, halt, historyVars>>

(* An untrusted exchange; a resolution answers those of its boot.          *)
Doubt(id, b, resolved) == [id |-> id, boot |-> b, resolved |-> resolved]
Doubted(id, b) == doubt' = (doubt \ {Doubt(id, b, TRUE)}) \cup {Doubt(id, b, FALSE)}
Answered(b) == {IF d.boot = b THEN [d EXCEPT !.resolved = TRUE] ELSE d : d \in doubt}

(* Session.ResolveReconciliation with evidence of its own latest state.    *)
resolveCurrentState(e) ==
    /\ e \in Embedders /\ Free(e) /\ ensureOpen(e)
    /\ session[e].required /\ ~session[e].query
    /\ \E resolved \in BOOLEAN :
          /\ ResolveReconciliation(e, session[e].boot, session[e].state, resolved)
          /\ session' = [session EXCEPT ![e].required = ~resolved]
          /\ doubt' = IF resolved THEN Answered(session[e].boot) ELSE doubt
    /\ UNCHANGED <<ownerVars, now, fenced, claims, bindings, openings, stops, ledger, device, work, halt, crossed>>

(* releaseClaims names every claimed target with the session's boot.       *)
releaseClaims(e) ==
    claims' = [t \in Targets |->
        IF t \in session[e].targets /\ CheckReleasable(t, e, session[e].boot)
        THEN [claims[t] EXCEPT !.active = FALSE] ELSE claims[t]]

Close(e) ==
    /\ Free(e) /\ session[e].at = "live"
    /\ session' = [session EXCEPT ![e].at = "closed", ![e].sent = <<>>, ![e].got = <<>>]
    /\ releaseClaims(e)
    /\ UNCHANGED <<ownerVars, now, fenced, bindings, recon, openings, stops, ledger, device, work, halt, historyVars>>

(* The process dies at any point.                                          *)
Crash(e) ==
    /\ session[e].at \in {"greeted", "live"}
    /\ session' = [session EXCEPT ![e] = [Unconnected EXCEPT !.at = "dead"]]
    /\ work' = [work EXCEPT ![e] = NoWork]
    /\ halt' = [halt EXCEPT ![e] = NoHalt]
    /\ UNCHANGED <<ownerVars, authorityVars, device, historyVars>>

-----------------------------------------------------------------------------
(* An ordinary command: DispatchAuthorized and its exchange.               *)

Cmd(e) == work[e].cmd
Target(e) == TargetOf[work[e].cmd]

Step(e, at) == work' = [work EXCEPT ![e].at = at]

(* The dispatcher records what it knows while it owns the command.         *)
Finalize(e, status) ==
    /\ work' = [work EXCEPT ![e] = NoWork]
    /\ ledger' = [ledger EXCEPT ![Cmd(e)] = IF Holds(e) /\ @ = "dispatching" THEN status ELSE @]

(* dispatchMaterialized: the command is materialized for the boot read now. *)
dispatchMaterialized(e, c) ==
    /\ session[e].at = "live" /\ Free(e) /\ work[e].at = "idle" /\ Admitted(e)
    /\ ledger[c] = "pending" \/ (c \in Repeated /\ ledger[c] # "dispatching")
    /\ work' = [work EXCEPT ![e] = [NoWork EXCEPT !.at = "lifetime", !.cmd = c, !.boot = session[e].boot]]
    /\ ledger' = [ledger EXCEPT ![c] = IF @ = "reconciling" THEN @ ELSE "dispatching"]
    /\ UNCHANGED <<ownerVars, now, fenced, claims, bindings, recon, openings, stops, device, session, halt, historyVars>>

(* exchange and exchangeOrdinaryCommand, up to the claim.                  *)
MayExchange(e) ==
    /\ ensureOpen(e) /\ ~session[e].latched
    /\ work[e].boot = session[e].boot
    /\ ~session[e].required

exchange(e) ==
    /\ work[e].at = "lifetime" /\ Free(e)
    /\ IF MayExchange(e) THEN Step(e, "claim") /\ UNCHANGED ledger ELSE Finalize(e, "settled")
    /\ UNCHANGED <<ownerVars, now, fenced, claims, bindings, recon, openings, stops, device, session, halt, historyVars>>

claimCommand(e) ==
    /\ work[e].at = "claim"
    /\ \/ /\ Claim(Target(e), e, session[e].boot)
          /\ work' = [work EXCEPT ![e].at = "bind", ![e].fence = claims'[Target(e)].fence]
          /\ UNCHANGED ledger
       \/ ~MayClaim(Target(e), e) /\ Finalize(e, "settled") /\ UNCHANGED claims
    /\ UNCHANGED <<ownerVars, now, fenced, bindings, recon, openings, stops, device, session, halt, historyVars>>

(* A refused binding releases the claim; an accepted one is remembered.    *)
bindCommand(e) ==
    /\ work[e].at = "bind"
    /\ \/ /\ BindCommand(Cmd(e), e, session[e].boot)
          /\ session' = [session EXCEPT ![e].targets = @ \cup {Target(e)}]
          /\ Step(e, "assert")
          /\ UNCHANGED <<claims, ledger>>
       \/ /\ ~MayBind(Cmd(e), e, session[e].boot)
          /\ ReleaseClaim(Target(e), e, session[e].boot)
          /\ Finalize(e, "settled")
          /\ UNCHANGED <<bindings, session>>
    /\ UNCHANGED <<ownerVars, now, fenced, recon, openings, stops, device, halt, historyVars>>

cachedExchange(e) == {r \in session[e].receipts : r.cmd = Cmd(e)}

(* A completed exchange: an accepted command is verified next.             *)
acceptedDeviceEffect(e, accepted) ==
    IF accepted THEN Step(e, "verify") /\ UNCHANGED ledger ELSE Finalize(e, "settled")

assertDelivery(e) ==
    /\ work[e].at = "assert"
    /\ IF ~AssertClaim(Target(e), e, session[e].boot) THEN Finalize(e, "settled")
       ELSE IF cachedExchange(e) = {} THEN Step(e, "send") /\ UNCHANGED ledger
       ELSE \E r \in cachedExchange(e) : acceptedDeviceEffect(e, r.accepted)
    /\ UNCHANGED <<ownerVars, now, fenced, claims, bindings, recon, openings, stops, device, session, halt, historyVars>>

(* transport.Send: the whole frame, a part of it, or nothing is written.   *)
Transmit(e, id) ==
    session' = [session EXCEPT ![e].sends = @ + 1,
        ![e].sent = Append(@, [id |-> id, boot |-> session[e].boot, tag |-> session[e].sends + 1])]

deliverClaimedCommand(e) ==
    /\ work[e].at = "send"
    /\ \/ /\ session[e].sends < MaxSends
          /\ Transmit(e, Cmd(e))
          /\ work' = [work EXCEPT ![e].at = "receipt", ![e].tag = session[e].sends + 1]
          /\ crossed' = [crossed EXCEPT ![Cmd(e)] = @ + 1]
          /\ UNCHANGED ledger
       \/ /\ Step(e, "unknown")
          /\ crossed' = [crossed EXCEPT ![Cmd(e)] = @ + 1]
          /\ UNCHANGED <<session, ledger>>
       \/ Finalize(e, "settled") /\ UNCHANGED <<session, crossed>>
    /\ UNCHANGED <<ownerVars, now, fenced, claims, bindings, recon, openings, stops, device, halt, doubt>>

ReceiptMatches(e, frame, id) == frame.kind = "receipt" /\ frame.id = id /\ frame.boot = session[e].boot

ResultMatches(e, frame, id, accepted) ==
    frame.kind = "result" /\ frame.id = id /\ frame.boot = session[e].boot /\ frame.accepted = accepted

NextFrame(e) == Head(session[e].got)
Consume(e) == session' = [session EXCEPT ![e].got = Tail(@)]

(* A receive: a frame that fits, one that does not, or none in time.       *)
receiveCommandOutcome(e) ==
    /\ work[e].at = "receipt"
    /\ \/ /\ session[e].got # <<>> /\ ReceiptMatches(e, NextFrame(e), Cmd(e))
          /\ work' = [work EXCEPT ![e].at = "held", ![e].accepted = NextFrame(e).accepted]
          /\ Consume(e)
       \/ /\ session[e].got # <<>> /\ ~ReceiptMatches(e, NextFrame(e), Cmd(e))
          /\ Step(e, "unknown") /\ Consume(e)
       \/ Step(e, "unknown") /\ UNCHANGED session
    /\ UNCHANGED <<ownerVars, authorityVars, device, halt, historyVars>>

completeCommandOutcome(e) ==
    /\ work[e].at = "held"
    /\ Step(e, IF AssertClaim(Target(e), e, session[e].boot) THEN "result" ELSE "unknown")
    /\ UNCHANGED <<ownerVars, authorityVars, device, session, halt, historyVars>>

receiveDeviceResult(e) ==
    /\ work[e].at = "result"
    /\ \/ /\ session[e].got # <<>> /\ Consume(e)
          /\ Step(e, IF ResultMatches(e, NextFrame(e), Cmd(e), work[e].accepted) THEN "cache" ELSE "unknown")
       \/ Step(e, "unknown") /\ UNCHANGED session
    /\ UNCHANGED <<ownerVars, authorityVars, device, halt, historyVars>>

OutcomeHeld(e) == AssertClaim(Target(e), e, session[e].boot)

cacheCommandOutcome(e) ==
    /\ work[e].at = "cache"
    /\ \/ /\ OutcomeHeld(e)
          /\ session' = [session EXCEPT ![e].receipts = @ \cup {[cmd |-> Cmd(e), accepted |-> work[e].accepted]}]
          /\ acceptedDeviceEffect(e, work[e].accepted)
       \/ /\ ~OutcomeHeld(e)
          /\ Step(e, "unknown") /\ UNCHANGED <<session, ledger>>
    /\ UNCHANGED <<ownerVars, now, fenced, claims, bindings, recon, openings, stops, device, halt, historyVars>>

invalidateTransportLocked(s) == [s EXCEPT !.open = FALSE, !.sent = <<>>, !.got = <<>>]

requireReconciliation(s) == [s EXCEPT !.query = TRUE, !.required = TRUE, !.queried = FALSE]

(* unknownDeviceOutcome: the durable barrier, then the link is given up.   *)
unknownDeviceOutcome(e) ==
    /\ work[e].at = "unknown"
    /\ RequireReconciliation(e, session[e].boot)
    /\ session' = [session EXCEPT ![e] = invalidateTransportLocked(requireReconciliation(@))]
    /\ Doubted(Cmd(e), session[e].boot)
    /\ Step(e, "verify")
    /\ UNCHANGED <<ownerVars, now, fenced, claims, bindings, stops, ledger, device, halt, crossed>>

(* VerifyDeviceCommand reads the boot it expects before it queries.        *)
VerifyDeviceCommand(e) ==
    /\ work[e].at = "verify" /\ Free(e)
    /\ work' = [work EXCEPT ![e].at = "query", ![e].boot = session[e].boot]
    /\ UNCHANGED <<ownerVars, authorityVars, device, session, halt, historyVars>>

SameBoot(e) == device.boot = work[e].boot

(* A verdict needs a recorded state of the expected boot; without one the  *)
(* outcome stays unknown.                                                  *)
verifyMaterializedCommand(e) ==
    /\ work[e].at = "query" /\ Free(e)
    /\ IF ensureOpen(e)
       THEN \/ persistRefreshedState(e, device) /\ Finalize(e, IF Admitted(e) /\ SameBoot(e) THEN "settled" ELSE "reconciling")
            \/ failStateRefresh(e) /\ Finalize(e, "reconciling")
       ELSE Finalize(e, "reconciling") /\ UNCHANGED <<session, recon, openings>>
    /\ UNCHANGED <<ownerVars, now, fenced, claims, bindings, stops, device, halt, historyVars>>

-----------------------------------------------------------------------------
(* A safe stop: the latch, then the lock, then the priority lane.          *)

HaltStep(e, at) == halt' = [halt EXCEPT ![e].at = at]
HaltEnds(e) == halt' = [halt EXCEPT ![e] = NoHalt]

SafeStop(e) ==
    /\ e \in Stoppers /\ session[e].at = "live" /\ halt[e].at = "idle" /\ session[e].sends < MaxSends
    /\ session' = [session EXCEPT ![e].latched = TRUE]
    /\ HaltStep(e, "wait")
    /\ UNCHANGED <<ownerVars, authorityVars, device, work, historyVars>>

(* recordSafeStop: any recorded stage latches the boot.                    *)
recordSafeStop(e, durable) == IF durable THEN RecordSafeStop(session[e].boot) ELSE UNCHANGED stops
Barred(e, durable) == IF durable THEN session[e].barred \cup {session[e].boot} ELSE session[e].barred

deliverSafeStop(e) ==
    /\ halt[e].at = "wait" /\ Free(e)
    /\ IF ensureOpen(e)
       THEN \E durable \in Durable :
              /\ recordSafeStop(e, durable)
              /\ session' = [session EXCEPT ![e].barred = Barred(e, durable)]
              /\ halt' = [halt EXCEPT ![e].at = "send", ![e].durable = durable]
       ELSE HaltEnds(e) /\ UNCHANGED <<stops, session>>
    /\ UNCHANGED <<ownerVars, now, fenced, claims, bindings, recon, openings, ledger, device, work, historyVars>>

(* A partial write gives up the link at once; nothing written is a failure. *)
sendSafeStop(e) ==
    /\ halt[e].at = "send"
    /\ \/ /\ session[e].sends < MaxSends
          /\ Transmit(e, Stop)
          /\ halt' = [halt EXCEPT ![e].at = "receipt", ![e].tag = session[e].sends + 1]
          /\ UNCHANGED stops
       \/ /\ session' = [session EXCEPT ![e] = invalidateTransportLocked(@)]
          /\ HaltStep(e, "failed") /\ UNCHANGED stops
       \/ \E durable \in Durable :
              /\ recordSafeStop(e, durable)
              /\ session' = [session EXCEPT ![e].barred = Barred(e, durable)]
              /\ HaltEnds(e)
    /\ UNCHANGED <<ownerVars, now, fenced, claims, bindings, recon, openings, ledger, device, work, historyVars>>

GiveUp(e) ==
    /\ session' = [session EXCEPT ![e] = invalidateTransportLocked(@)]
    /\ HaltStep(e, "failed")

completeSafeStopExchange(e) ==
    /\ halt[e].at = "receipt"
    /\ \/ /\ session[e].got # <<>> /\ ReceiptMatches(e, NextFrame(e), Stop)
          /\ halt' = [halt EXCEPT ![e].at = "result", ![e].accepted = NextFrame(e).accepted]
          /\ Consume(e)
       \/ GiveUp(e)
    /\ UNCHANGED <<ownerVars, authorityVars, device, work, historyVars>>

receiveSafeStopResult(e) ==
    /\ halt[e].at = "result"
    /\ \/ /\ session[e].got # <<>> /\ ResultMatches(e, NextFrame(e), Stop, halt[e].accepted)
          /\ HaltStep(e, "conclude") /\ Consume(e)
       \/ GiveUp(e)
    /\ UNCHANGED <<ownerVars, authorityVars, device, work, historyVars>>

(* failedSafeStopReceive and failedSafeStopReceipt: barrier, then record.  *)
failedSafeStop(e) ==
    /\ halt[e].at = "failed"
    /\ RequireReconciliation(e, session[e].boot)
    /\ \E durable \in Durable :
          /\ recordSafeStop(e, durable)
          /\ session' = [session EXCEPT ![e] = [requireReconciliation(@) EXCEPT !.barred = Barred(e, durable)]]
    /\ Doubted(Stop, session[e].boot)
    /\ HaltEnds(e)
    /\ UNCHANGED <<ownerVars, now, fenced, claims, bindings, ledger, device, work, crossed>>

LifecycleDurable(e, durable) == halt[e].durable /\ durable

(* concludeSafeStopResponse: a record that could not be written opens the  *)
(* barrier, and after a rejection also gives up the link.                  *)
concludeSafeStopResponse(e) ==
    /\ halt[e].at = "conclude"
    /\ \E durable \in Durable :
          /\ recordSafeStop(e, durable)
          /\ IF LifecycleDurable(e, durable)
             THEN /\ session' = [session EXCEPT ![e].barred = Barred(e, durable)]
                  /\ UNCHANGED <<recon, openings>>
             ELSE /\ RequireReconciliation(e, session[e].boot)
                  /\ session' = [session EXCEPT ![e] = requireReconciliation(
                        IF halt[e].accepted THEN @ ELSE invalidateTransportLocked(@))]
    /\ HaltEnds(e)
    /\ UNCHANGED <<ownerVars, now, fenced, claims, bindings, ledger, device, work, historyVars>>
-----------------------------------------------------------------------------
(* The owner lease, the clock and the rest of the action plane.            *)

OwnerSteps ==
    /\ \/ Lapse
       \/ \E e \in Lives : Take(e)
    /\ UNCHANGED <<authorityVars, device, sessionVars, historyVars>>

TimePasses ==
    /\ Tick /\ now < Settings[setting].time
    /\ UNCHANGED <<ownerVars, fenced, claims, bindings, recon, openings, stops, ledger, device, sessionVars, historyVars>>

ControlFences(e) ==
    /\ e \in Fencing /\ DrainOrKill(e)
    /\ UNCHANGED <<ownerVars, now, claims, bindings, recon, openings, stops, ledger, device, sessionVars, historyVars>>

(* A later owner finds the dispatch lease expired: the outcome is unknown. *)
AbandonExpiredLease(e, c) ==
    /\ session[e].at # "dead" /\ Holds(e)
    /\ ledger[c] = "dispatching" /\ ~\E p \in Epochs : Holds(p) /\ work[p].cmd = c
    /\ ledger' = [ledger EXCEPT ![c] = "reconciling"]
    /\ UNCHANGED <<ownerVars, now, fenced, claims, bindings, recon, openings, stops, device, sessionVars, historyVars>>

(* An operator settles an unknown outcome with evidence of the bound boot. *)
ReconcileCommand(e, c) ==
    /\ Holds(e) /\ ledger[c] = "reconciling" /\ CheckCommandEvidence(c, device.boot)
    /\ ledger' = [ledger EXCEPT ![c] = "settled"]
    /\ UNCHANGED <<ownerVars, now, fenced, claims, bindings, recon, openings, stops, device, sessionVars, historyVars>>

Exchanging(e) ==
    \/ exchange(e) \/ claimCommand(e) \/ bindCommand(e) \/ assertDelivery(e) \/ deliverClaimedCommand(e)
    \/ receiveCommandOutcome(e) \/ completeCommandOutcome(e) \/ receiveDeviceResult(e) \/ cacheCommandOutcome(e)
    \/ unknownDeviceOutcome(e) \/ VerifyDeviceCommand(e) \/ verifyMaterializedCommand(e)

Stopping(e) ==
    \/ deliverSafeStop(e) \/ sendSafeStop(e) \/ completeSafeStopExchange(e) \/ receiveSafeStopResult(e)
    \/ failedSafeStop(e) \/ concludeSafeStopResponse(e)

Moves ==
    \/ \E e \in Lives :
          \/ receiveHandshake(e) \/ bindHandshakeBarrier(e) \/ handshakeFails(e)
          \/ QueryState(e) \/ resolveCurrentState(e) \/ Close(e) \/ Crash(e)
          \/ \E c \in Handed : dispatchMaterialized(e, c) \/ AbandonExpiredLease(e, c) \/ ReconcileCommand(e, c)
          \/ Exchanging(e) \/ SafeStop(e) \/ Stopping(e)
          \/ DeviceAnswers(e) \/ ControlFences(e)
    \/ Reboot \/ OwnerSteps \/ TimePasses

Next == Moves /\ UNCHANGED setting

Spec == Init /\ [][Next]_<<vars, setting>>
-----------------------------------------------------------------------------
(* Properties.                                                             *)

(* A command crosses the link at most once, however often callers hand it  *)
(* over and whichever owner they belong to: the receipt cache answers      *)
(* repeats (cachedExchange), the binding refuses other owners and boots    *)
(* (DecideBinding), and an untrusted exchange ends the session.  And an    *)
(* exchange that ended untrusted leaves the device under reconciliation on *)
(* its boot until a resolution answers it, also when it ended after its    *)
(* owner lost the lease (RequireReconciliation) and whatever states later  *)
(* lives report and record (ObserveState).                                 *)
DeliverySafe ==
    /\ \A c \in Commands : crossed[c] <= 1
    /\ \A d \in doubt : ~d.resolved /\ recon.boot = d.boot => recon.required

(* "Unknown command outcomes must already have gone through the dispatcher *)
(* reconciliation path; the durable store refuses to clear while command   *)
(* ledgers remain unresolved" (Session.ResolveReconciliation): the barrier *)
(* of an untrusted exchange stands while the ledger has not settled its    *)
(* command.  A resolution counts the rows that say "reconciling"; the row  *)
(* of a dispatcher that lost its process or lease still says               *)
(* "dispatching" when a later life resolves.                               *)
ResolvedOnlyWhenSettled ==
    \A d \in doubt : d.id \in Commands \ Silent /\ ledger[d.id] # "settled" /\ recon.boot = d.boot => recon.required
=============================================================================
