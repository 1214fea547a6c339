------------------------------ MODULE PlantHost ------------------------------
(***************************************************************************)
(* The command side of the plant-wire host (internal/plantwire) on top of  *)
(* DeviceAuthority: DispatchAuthorized and VerifyDeviceCommand against the *)
(* session that owns the connection.  PlantConversation models the same    *)
(* session's ordering, barriers and ingest.                                *)
(*                                                                         *)
(* Every process life runs one dispatcher and serves one session after     *)
(* another.  The dispatcher reaches session state only through calls the   *)
(* session's loop runs, and the loop runs none while it holds a barrier    *)
(* answer.  One device with one output is modelled; a command with         *)
(* readback sets the output to its own id.  The node is external: it may   *)
(* run, refuse, queue or lose a command, reboot the device, or announce it *)
(* on another board, and the connection may drop with frames on it.        *)
(***************************************************************************)
EXTENDS DeviceAuthority, Sequences

CONSTANTS
    Boards,      \* the boards the device may be announced on
    AuthorizedBoards,  \* those Settings.Authorizes accepts
    MaxSessions, \* bound on the sessions of one process
    Settings     \* the deployments to check, by name
HostAssumption ==
    /\ AuthorizedBoards \subseteq Boards /\ MaxSessions \in Nat
    /\ \A n \in DOMAIN Settings :
          /\ Settings[n].handed \in Seq(Commands) /\ Settings[n].boots \in Boots /\ Settings[n].time \in 0 .. MaxTime
          /\ Settings[n].boards \subseteq Boards /\ Settings[n].outcomes \subseteq {"succeeded", "failed", "unknown"}
          /\ {Settings[n].holding, Settings[n].crashes, Settings[n].owned} \subseteq BOOLEAN
          /\ Settings[n].maxFrames \in Nat

VARIABLES
    node,       \* the device at the node: [boot, output, board, waiting]
    link,       \* the connection: [to, up, down]
    sess,       \* the latest session of every process
    work,       \* the dispatcher of every process
    verdict,    \* history: what the host concluded of a command
    ran,        \* history: commands the device ran, with the boot
    proven,     \* history: commands a fitting reading followed the answer of
    setting     \* the deployment, chosen once

historyVars == <<verdict, ran, proven>>
vars == <<ownerVars, authorityVars, node, link, sess, work, historyVars>>

\* The parameters of the chosen setting.
Handed == Settings[setting].handed
Outcomes == Settings[setting].outcomes
Holding == Settings[setting].holding
Slow == Settings[setting].slow  \* whether a dispatch may outlast the outbox lease
MaxFrames == Settings[setting].maxFrames

Off == "off"
Target == CHOOSE t \in Targets : TRUE
NoSession ==
    [n |-> 0, at |-> "none", boot |-> 0, board |-> Off, reading |-> NoRecord, held |-> FALSE,
     phase |-> [c \in Commands |-> "none"], watch |-> {}, watchers |-> {}, claim |-> 0]
NoWork ==
    [at |-> "idle", cmd |-> NoRecord, n |-> 0, boot |-> 0, reading |-> NoRecord, mail |-> <<>>,
     out |-> "none", seen |-> "none"]
NoLink == [to |-> NoEpoch, up |-> <<>>, down |-> <<>>]

Init ==
    /\ setting \in DOMAIN Settings
    /\ AuthorityInit
    /\ node = [boot |-> 1, output |-> Off, board |-> CHOOSE b \in AuthorizedBoards : TRUE, waiting |-> <<>>]
    /\ link = NoLink
    /\ sess = [e \in Epochs |-> NoSession]
    /\ work = [e \in Epochs |-> NoWork]
    /\ verdict = [c \in Commands |-> "none"]
    /\ ran = {} /\ proven = {}

-----------------------------------------------------------------------------
(* The node and the connection (external).                                 *)

Birth(good) == [kind |-> "birth", boot |-> node'.boot, board |-> node'.board, good |-> good]
Receipt(c, status) == [kind |-> "receipt", cmd |-> c, boot |-> node.boot, status |-> status]
Result(c, status) == [kind |-> "result", cmd |-> c, boot |-> node.boot, status |-> status]
Sample(good) == [kind |-> "sample", boot |-> node.boot, value |-> node.output, good |-> good]

Room(k) == Len(link.up) + k <= MaxFrames

(* The node carries an order out: accepted, then its result.               *)
Runs(c, waiting, rest) ==
    /\ Room(2)
    /\ \E status \in Outcomes : \E applied \in {status = "succeeded", status # "failed"} :
          /\ ran' = IF applied THEN ran \cup {<<c, node.boot>>} ELSE ran
          /\ node' = [node EXCEPT !.waiting = waiting,
                          !.output = IF applied /\ c \notin Silent THEN c ELSE @]
          /\ link' = [link EXCEPT !.down = rest,
                          !.up = @ \o <<Receipt(c, "accepted"), Result(c, status)>>]

(* The node answers an order without running it.                           *)
Answers(c, status, waiting, rest) ==
    /\ Room(1)
    /\ node' = [node EXCEPT !.waiting = waiting]
    /\ link' = [link EXCEPT !.down = rest, !.up = Append(@, Receipt(c, status))]
    /\ UNCHANGED ran

(* The next order: run, refused, or queued for the node's operator.  An    *)
(* order for another boot is refused.                                      *)
NodeTakes ==
    /\ link.down # <<>>
    /\ LET order == Head(link.down)
       IN \/ order.boot = node.boot /\ Runs(order.cmd, node.waiting, Tail(link.down))
          \/ Answers(order.cmd, "refused", node.waiting, Tail(link.down))
          \/ /\ order.boot = node.boot
             /\ Answers(order.cmd, "queued", Append(node.waiting, order.cmd), Tail(link.down))
    /\ UNCHANGED <<ownerVars, authorityVars, sess, work, verdict, proven>>

(* The node's operator releases or refuses a queued order.                 *)
NodeReleases ==
    /\ link.to # NoEpoch /\ node.waiting # <<>>
    /\ \/ Runs(Head(node.waiting), Tail(node.waiting), link.down)
       \/ Answers(Head(node.waiting), "refused", Tail(node.waiting), link.down)
    /\ UNCHANGED <<ownerVars, authorityVars, sess, work, verdict, proven>>

NodeReads ==
    /\ link.to # NoEpoch /\ Room(1)
    /\ \E good \in BOOLEAN : link' = [link EXCEPT !.up = Append(@, Sample(good))]
    /\ UNCHANGED <<ownerVars, authorityVars, node, sess, work, historyVars>>

Announced == IF link.to = NoEpoch THEN UNCHANGED link
             ELSE Room(1) /\ \E good \in BOOLEAN : link' = [link EXCEPT !.up = Append(@, Birth(good))]

(* A reboot; the output may be retained, queued orders are not.            *)
Reboot ==
    /\ node.boot < Settings[setting].boots
    /\ \E output \in {Off, node.output} :
          node' = [node EXCEPT !.boot = @ + 1, !.output = output, !.waiting = <<>>]
    /\ Announced
    /\ UNCHANGED <<ownerVars, authorityVars, sess, work, historyVars>>

MoveBoard ==
    /\ \E board \in Settings[setting].boards \ {node.board} : node' = [node EXCEPT !.board = board]
    /\ Announced
    /\ UNCHANGED <<ownerVars, authorityVars, sess, work, historyVars>>

(* The connection drops with every frame on it; the node forgets the       *)
(* orders it queued for the session.                                       *)
LinkLost ==
    /\ link.to # NoEpoch
    /\ link' = NoLink /\ node' = [node EXCEPT !.waiting = <<>>]
    /\ UNCHANGED <<ownerVars, authorityVars, sess, work, historyVars>>

-----------------------------------------------------------------------------
(* The session: serve, its loop's reactions, and close.                    *)

(* A session whose write failed is closing: its loop takes nothing more.   *)
Serving(e) == sess[e].at = "live"
Open(e) == sess[e].at \in {"live", "closing"}

(* serve: a connection becomes the live session; its births arrive first.  *)
serve(e) ==
    /\ link.to = NoEpoch /\ sess[e].at \in {"none", "ended"} /\ sess[e].n < MaxSessions
    /\ Holds(e)
    /\ node' = node
    /\ \E good \in BOOLEAN : link' = [to |-> e, up |-> <<Birth(good)>>, down |-> <<>>]
    /\ sess' = [sess EXCEPT ![e] = [NoSession EXCEPT !.n = sess[e].n + 1, !.at = "live"]]
    /\ UNCHANGED <<ownerVars, authorityVars, work, historyVars>>

Terminal(phase) == phase \notin {"queued", "accepted"}
Verifiable(phase) == phase \in {"succeeded", "unknown"}

(* The dispatcher that still waits for command c of the session.           *)
Awaits(e, c) == work[e].cmd = c /\ work[e].n = sess[e].n /\ work[e].at # "idle"

(* watch: without a device on the command's boot, or without an output to  *)
(* read, the verification is over at once.                                 *)
Watchable(s, c) == s.boot = bindings[c].boot /\ c \notin Silent

receipt(s, f) ==
    [taken |-> s.phase[f.cmd] \in {"sent", "queued"},
     phase |-> IF f.status = "accepted" /\ f.boot # bindings[f.cmd].boot THEN "unknown" ELSE f.status]

result(s, f) ==
    [taken |-> s.phase[f.cmd] = "accepted",
     phase |-> IF f.boot = bindings[f.cmd].boot THEN f.status ELSE "unknown"]

(* Conversation.settle, then the session hands over what it means.         *)
settle(s, c, phase) ==
    [s EXCEPT !.phase[c] = IF Terminal(phase) THEN "none" ELSE phase,
              !.watch = IF Verifiable(phase) /\ Watchable(s, c) THEN @ \cup {c} ELSE @,
              !.watchers = IF Terminal(phase) /\ (~Verifiable(phase) \/ ~Watchable(s, c)) THEN @ \ {c} ELSE @]

deliverReaction(e, c, phase) ==
    IF ~Awaits(e, c) THEN UNCHANGED work
    ELSE work' = [work EXCEPT ![e].mail = Append(@, phase),
                     ![e].seen = IF Verifiable(phase) /\ ~Watchable(sess[e], c) /\ c \in sess[e].watchers
                                 THEN "no" ELSE @]

answered(e, f) ==
    LET a == IF f.kind = "receipt" THEN receipt(sess[e], f) ELSE result(sess[e], f)
    IN IF a.taken
       THEN sess' = [sess EXCEPT ![e] = settle(@, f.cmd, a.phase)] /\ deliverReaction(e, f.cmd, a.phase)
       ELSE UNCHANGED <<sess, work>>

hold(s, good) == [s EXCEPT !.reading = [good |-> good, boot |-> s.boot, at |-> now]]

(* A birth forgets the readings; it may carry values of its own.           *)
birth(e, f) ==
    LET born == [sess[e] EXCEPT !.boot = f.boot, !.board = f.board, !.reading = NoRecord]
    IN sess' = [sess EXCEPT ![e] = IF f.good THEN hold(born, TRUE) ELSE born] /\ UNCHANGED work

(* Fault: a reading of any boot verifies.                                  *)
observeAnyBoot(s, f) == IF f.good THEN {c \in s.watch : f.value = c} ELSE {}

observe(s, f) == IF f.good THEN {c \in s.watch : f.value = c /\ bindings[c].boot = s.boot} ELSE {}

(* A sample of the device's live boot is held and shown to every watch; a  *)
(* sample of another boot is dropped.                                      *)
verify(e, f) ==
    IF f.boot # sess[e].boot THEN UNCHANGED <<sess, work>>
    ELSE LET seen == observe(sess[e], f)
         IN /\ sess' = [sess EXCEPT ![e] = [hold(@, f.good) EXCEPT !.watch = @ \ seen, !.watchers = @ \ seen]]
            /\ work' = IF \E c \in seen : Awaits(e, c) /\ c \in sess[e].watchers
                       THEN [work EXCEPT ![e].seen = "yes"] ELSE work

(* History: a reading that fits follows the terminal answer of a command.  *)
Fits(e, f) == {c \in Commands : /\ f.kind = "sample" /\ f.good /\ f.value = c
                                /\ bindings[c] # NoRecord /\ f.boot = bindings[c].boot
                                /\ sess[e].phase[c] = "none" /\ bindings[c].epoch = e}

(* The loop's step for one line from the node.                             *)
step(e) ==
    /\ Serving(e) /\ link.to = e /\ link.up # <<>>
    /\ LET f == Head(link.up)
       IN /\ CASE f.kind = "birth" -> birth(e, f)
               [] f.kind \in {"receipt", "result"} -> answered(e, f)
               [] f.kind = "sample" -> verify(e, f)
          /\ proven' = proven \cup Fits(e, f)
    /\ link' = [link EXCEPT !.up = Tail(@)]
    /\ UNCHANGED <<ownerVars, authorityVars, node, verdict, ran>>

(* The barrier answer is held while reasoning is in flight.                *)
holdBarrier(e) ==
    /\ Holding /\ Serving(e) /\ ~sess[e].held
    /\ sess' = [sess EXCEPT ![e].held = TRUE]
    /\ UNCHANGED <<ownerVars, authorityVars, node, link, work, historyVars>>

releaseBarrier(e) ==
    /\ Serving(e) /\ sess[e].held
    /\ sess' = [sess EXCEPT ![e].held = FALSE]
    /\ UNCHANGED <<ownerVars, authorityVars, node, link, work, historyVars>>

abandoned(phase) == IF phase = "queued" THEN "refused" ELSE "unknown"

(* Abandon settles what is in flight; nothing is watched any more.         *)
Abandon(e) ==
    work' = IF \E c \in Commands : sess[e].phase[c] # "none" /\ Awaits(e, c)
            THEN [work EXCEPT ![e].mail = Append(@, abandoned(sess[e].phase[work[e].cmd]))] ELSE work

releaseClaims(e) ==
    IF sess[e].claim = 0 THEN UNCHANGED claims ELSE ReleaseClaim(Target, e, sess[e].claim)

(* close: the connection is lost, or the host gives it up.                 *)
close(e) ==
    /\ Open(e)
    /\ Abandon(e) /\ releaseClaims(e)
    /\ sess' = [sess EXCEPT ![e] = [NoSession EXCEPT !.n = sess[e].n, !.at = "ended"]]
    /\ link' = IF link.to = e THEN NoLink ELSE link
    /\ node' = IF link.to = e THEN [node EXCEPT !.waiting = <<>>] ELSE node
    /\ UNCHANGED <<ownerVars, now, fenced, bindings, recon, openings, stops, ledger, historyVars>>

(* The process dies at any point.                                          *)
Crash(e) ==
    /\ sess[e].at # "dead" /\ (Open(e) \/ work[e].at # "idle")
    /\ sess' = [sess EXCEPT ![e] = [NoSession EXCEPT !.n = sess[e].n, !.at = "dead"]]
    /\ work' = [work EXCEPT ![e] = NoWork]
    /\ link' = IF link.to = e THEN NoLink ELSE link
    /\ node' = IF link.to = e THEN [node EXCEPT !.waiting = <<>>] ELSE node
    /\ UNCHANGED <<ownerVars, authorityVars, historyVars>>

-----------------------------------------------------------------------------
(* The dispatcher: DispatchAuthorized, then VerifyDeviceCommand.           *)

Cmd(e) == work[e].cmd
Advance(e, at) == work' = [work EXCEPT ![e].at = at]

(* The session the dispatcher works with, and whether its loop takes calls. *)
SameSession(e) == Open(e) /\ sess[e].n = work[e].n
TakesCalls(e) == SameSession(e) /\ Serving(e) /\ ~sess[e].held

(* finalizeIn: the owner records the outcome unless the row was given up   *)
(* meanwhile.                                                              *)
Conclude(e, outcome, status) ==
    /\ work' = [work EXCEPT ![e] = NoWork]
    /\ verdict' = [verdict EXCEPT ![Cmd(e)] = outcome]
    /\ ledger' = [ledger EXCEPT ![Cmd(e)] = IF Holds(e) /\ @ = "dispatching" THEN status ELSE @]

Authorizes(board) == board \in AuthorizedBoards

DispatchAuthorized(e, c) ==
    /\ sess[e].at # "dead" /\ work[e].at = "idle" /\ Admitted(e) /\ ledger[c] = "pending"
    /\ work' = [work EXCEPT ![e] = [NoWork EXCEPT !.at = "prepare", !.cmd = c]]
    /\ ledger' = [ledger EXCEPT ![c] = "dispatching"]
    /\ UNCHANGED <<ownerVars, now, fenced, claims, bindings, recon, openings, stops, node, link, sess, historyVars>>

(* prepare, authorize and checkOrigin on the device as the session sees it *)
(* now.  No session, no device, or the end of the caller's context: not    *)
(* sent.                                                                   *)
prepare(e) ==
    /\ work[e].at = "prepare"
    /\ \/ /\ Serving(e) /\ ~sess[e].held /\ sess[e].boot # 0
          /\ Admitted(e) /\ Authorizes(sess[e].board)
          /\ work' = [work EXCEPT ![e].at = "record", ![e].n = sess[e].n, ![e].boot = sess[e].boot, ![e].reading = sess[e].reading]
          /\ UNCHANGED <<ledger, verdict>>
       \/ Conclude(e, "not sent", "settled")
    /\ UNCHANGED <<ownerVars, now, fenced, claims, bindings, recon, openings, stops, node, link, sess, ran, proven>>

deviceState(b) == [boot |-> b]

(* checkReconciled: the boot is recorded; a required reconciliation must   *)
(* be cleared by the readings prepare saw.                                 *)
checkReconciled(e) ==
    /\ work[e].at = "record"
    /\ \/ /\ RecordDeviceState(e, deviceState(work[e].boot))
          /\ Advance(e, IF recon'.required THEN "clear" ELSE "claim")
          /\ UNCHANGED <<ledger, verdict>>
       \/ ~Admitted(e) /\ Conclude(e, "not sent", "settled") /\ UNCHANGED <<recon, openings>>
    /\ UNCHANGED <<ownerVars, now, fenced, claims, bindings, stops, node, link, sess, ran, proven>>

readingEvidence(e) == [output \in {"output"} |-> work[e].reading]

clearByReadings(e) ==
    /\ work[e].at = "clear"
    /\ \/ /\ ResolveWithReadings(e, work[e].boot, deviceState(work[e].boot), readingEvidence(e))
          /\ Advance(e, "claim")
          /\ UNCHANGED <<ledger, verdict>>
       \/ /\ ~MayClear(e, work[e].boot, deviceState(work[e].boot), readingEvidence(e))
          /\ Conclude(e, "not sent", "settled") /\ UNCHANGED recon
    /\ UNCHANGED <<ownerVars, now, fenced, claims, bindings, openings, stops, node, link, sess, ran, proven>>

(* admit, as ClaimForDelivery: claim, bind, assert, each a transaction.    *)
admitClaim(e) ==
    /\ work[e].at = "claim"
    /\ \/ Claim(Target, e, work[e].boot) /\ Advance(e, "bind") /\ UNCHANGED <<ledger, verdict>>
       \/ ~MayClaim(Target, e) /\ Conclude(e, "not sent", "settled") /\ UNCHANGED claims
    /\ UNCHANGED <<ownerVars, now, fenced, bindings, recon, openings, stops, node, link, sess, ran, proven>>

admitBinding(e) ==
    /\ work[e].at = "bind"
    /\ \/ /\ BindCommand(Cmd(e), e, work[e].boot)
          /\ Advance(e, "assert") /\ UNCHANGED <<claims, ledger, verdict>>
       \/ /\ ~MayBind(Cmd(e), e, work[e].boot)
          /\ ReleaseClaim(Target, e, work[e].boot)
          /\ Conclude(e, "not sent", "settled") /\ UNCHANGED bindings
    /\ UNCHANGED <<ownerVars, now, fenced, recon, openings, stops, node, link, sess, ran, proven>>

(* holdClaim: the session the dispatcher began with keeps the claim.       *)
holdClaim(e) == sess' = IF SameSession(e) THEN [sess EXCEPT ![e].claim = work[e].boot] ELSE sess

admit(e) ==
    /\ work[e].at = "assert"
    /\ holdClaim(e)
    /\ IF AssertClaim(Target, e, work[e].boot)
       THEN Advance(e, "submit") /\ UNCHANGED <<ledger, verdict>>
       ELSE Conclude(e, "not sent", "settled")
    /\ UNCHANGED <<ownerVars, now, fenced, claims, bindings, recon, openings, stops, node, link, ran, proven>>

(* authorized and Prepare, in the loop, right before the write.            *)
authorized(e) ==
    /\ sess[e].boot # 0
    /\ Authorizes(sess[e].board)
    /\ sess[e].boot = work[e].boot
    /\ sess[e].phase[Cmd(e)] = "none"

Register(s, c) == [s EXCEPT !.phase[c] = "sent", !.watchers = @ \cup {c}]

DCMD(e) == [cmd |-> Cmd(e), boot |-> work[e].boot]

Written(e) == link.to = e /\ link' = [link EXCEPT !.down = Append(@, DCMD(e))]

notSent(e) == Conclude(e, "not sent", "settled") /\ UNCHANGED <<sess, link>>

(* deliver: written; nothing written, so not sent; or a failure after some *)
(* bytes, where the node may hold the whole record: the command stays in   *)
(* flight and the session ends.                                            *)
deliver(e) ==
    \/ /\ \/ Written(e) /\ sess' = [sess EXCEPT ![e] = Register(@, Cmd(e))]
          \/ /\ Written(e) \/ UNCHANGED link
             /\ sess' = [sess EXCEPT ![e] = [Register(@, Cmd(e)) EXCEPT !.at = "closing"]]
       /\ Advance(e, "wait") /\ UNCHANGED <<ledger, verdict>>
    \/ notSent(e)

submit(e) ==
    /\ work[e].at = "submit"
    /\ \/ TakesCalls(e) /\ authorized(e) /\ deliver(e)
       \/ TakesCalls(e) /\ ~authorized(e) /\ notSent(e)
       \/ ~TakesCalls(e) /\ notSent(e)
    /\ UNCHANGED <<ownerVars, now, fenced, claims, bindings, recon, openings, stops, node, ran, proven>>

Outcome(e, out) == work' = [work EXCEPT ![e].at = "settle", ![e].out = out, ![e].mail = <<>>]

(* renewClaim while the session lives; a claim that cannot be renewed      *)
(* makes the outcome unknown.                                              *)
renewClaim(e, then) ==
    \/ ~SameSession(e) /\ then /\ UNCHANGED claims
    \/ SameSession(e) /\ Claim(Target, e, work[e].boot) /\ then
    \/ SameSession(e) /\ ~MayClaim(Target, e) /\ Outcome(e, "unknown") /\ UNCHANGED claims

(* One answer: a terminal one is the outcome.                              *)
answer(e) ==
    /\ work[e].at = "wait" /\ work[e].mail # <<>>
    /\ LET phase == Head(work[e].mail)
       IN renewClaim(e, IF Terminal(phase) THEN Outcome(e, phase)
                        ELSE work' = [work EXCEPT ![e].mail = Tail(@)])
    /\ UNCHANGED <<ownerVars, now, fenced, bindings, recon, openings, stops, ledger, node, link, sess, historyVars>>

(* The renewal tick.                                                       *)
renew(e) ==
    /\ work[e].at = "wait" /\ SameSession(e)
    /\ renewClaim(e, UNCHANGED work)
    /\ UNCHANGED <<ownerVars, now, fenced, bindings, recon, openings, stops, ledger, node, link, sess, historyVars>>

(* The command's deadline, or the end of the caller's context.             *)
noAnswer(e) ==
    /\ work[e].at = "wait" /\ Outcome(e, "unknown")
    /\ UNCHANGED <<ownerVars, authorityVars, node, link, sess, historyVars>>

(* settleAuthority: an outcome the device reported counts under the claim. *)
settleAuthority(e) ==
    /\ work[e].at = "settle"
    /\ CASE work[e].out = "unknown" -> Advance(e, "reconcile") /\ UNCHANGED <<ledger, verdict>>
         [] work[e].out = "refused" -> Conclude(e, "refused", "settled")
         [] work[e].out = "succeeded" ->
              /\ work' = IF AssertClaim(Target, e, work[e].boot) THEN [work EXCEPT ![e].at = "verify"]
                         ELSE [work EXCEPT ![e].at = "reconcile", ![e].out = "unknown"]
              /\ UNCHANGED <<ledger, verdict>>
         [] work[e].out = "failed" ->
              IF AssertClaim(Target, e, work[e].boot) THEN Conclude(e, "failed", "settled")
              ELSE work' = [work EXCEPT ![e].at = "reconcile", ![e].out = "unknown"] /\ UNCHANGED <<ledger, verdict>>
    /\ UNCHANGED <<ownerVars, now, fenced, claims, bindings, recon, openings, stops, node, link, sess, ran, proven>>

reconcile(e) ==
    /\ work[e].at = "reconcile"
    /\ RequireReconciliation(e, work[e].boot)
    /\ Advance(e, "verify")
    /\ UNCHANGED <<ownerVars, now, fenced, claims, bindings, stops, ledger, node, link, sess, verdict, ran, proven>>

unknownWithoutReadback(e) == work[e].out = "unknown" /\ Cmd(e) \in Silent

ConcludeSeen(e) ==
    IF work[e].seen = "yes" THEN Conclude(e, "verified", "settled")
    ELSE Conclude(e, IF work[e].out = "unknown" THEN "unknown" ELSE "unverified", "reconciling")

(* VerifyDeviceCommand: readings within the window verify the command;     *)
(* otherwise, and once the session is over, it stops watching.             *)
VerifyDeviceCommand(e) ==
    /\ work[e].at = "verify"
    /\ \/ unknownWithoutReadback(e) /\ Conclude(e, "unread", "reconciling")
       \/ ~unknownWithoutReadback(e) /\ work[e].seen # "none" /\ ConcludeSeen(e)
       \/ ~unknownWithoutReadback(e) /\ Advance(e, "unwatch") /\ UNCHANGED <<ledger, verdict>>
    /\ UNCHANGED <<ownerVars, now, fenced, claims, bindings, recon, openings, stops, node, link, sess, ran, proven>>

(* unwatch waits for the loop or for the end of the session, whatever the  *)
(* caller's context, and takes a verification that came meanwhile.         *)
unwatch(e) ==
    /\ work[e].at = "unwatch" /\ (TakesCalls(e) \/ ~SameSession(e))
    /\ sess' = IF SameSession(e)
               THEN [sess EXCEPT ![e].watch = @ \ {Cmd(e)}, ![e].watchers = @ \ {Cmd(e)}] ELSE sess
    /\ ConcludeSeen(e)
    /\ UNCHANGED <<ownerVars, now, fenced, claims, bindings, recon, openings, stops, node, link, ran, proven>>

-----------------------------------------------------------------------------
(* The rest of the runtime.                                                *)

(* The outbox lease of a command runs out, in the hands of a process that  *)
(* lost the runtime lease or of one that is slow: its outcome is unknown,  *)
(* and whatever the slow process finds comes too late.                     *)
AbandonExpiredLease(c) ==
    /\ ledger[c] = "dispatching" /\ valid
    /\ Slow \/ \A e \in Epochs : Holds(e) => work[e].cmd # c
    /\ ledger' = [ledger EXCEPT ![c] = "reconciling"]
    /\ UNCHANGED <<ownerVars, now, fenced, claims, bindings, recon, openings, stops, node, link, sess, work, historyVars>>

(* An operator reconciles a command by evidence of the provider.           *)
OperatorSettles(c) ==
    /\ ledger[c] = "reconciling" /\ valid
    /\ Slow \/ \A e \in Epochs : work[e].cmd # c
    /\ ledger' = [ledger EXCEPT ![c] = "settled"]
    /\ UNCHANGED <<ownerVars, now, fenced, claims, bindings, recon, openings, stops, node, link, sess, work, historyVars>>

(* In some settings the runtime lease never lapses once it is held.        *)
Owner == OwnerNext /\ (Settings[setting].owned => valid') /\ UNCHANGED <<authorityVars, node, link, sess, work, historyVars>>

Clock ==
    /\ Tick /\ now < Settings[setting].time
    /\ UNCHANGED <<ownerVars, fenced, claims, bindings, recon, openings, stops, ledger, node, link, sess, work, historyVars>>

External == NodeTakes \/ NodeReleases \/ NodeReads \/ Reboot \/ MoveBoard \/ LinkLost \/ Owner \/ Clock
            \/ \E c \in Commands : AbandonExpiredLease(c) \/ OperatorSettles(c)

Dispatcher(e) ==
    \/ prepare(e) \/ checkReconciled(e) \/ clearByReadings(e) \/ admitClaim(e) \/ admitBinding(e) \/ admit(e)
    \/ submit(e) \/ answer(e) \/ noAnswer(e) \/ settleAuthority(e) \/ reconcile(e)
    \/ VerifyDeviceCommand(e) \/ unwatch(e)

Host(e) ==
    \/ serve(e) \/ step(e) \/ holdBarrier(e) \/ releaseBarrier(e) \/ close(e)
    \/ renew(e) \/ Dispatcher(e)
    \/ \E i \in DOMAIN Handed :
          (\A j \in 1 .. i - 1 : ledger[Handed[j]] # "pending") /\ DispatchAuthorized(e, Handed[i])

Next ==
    /\ External \/ \E e \in Epochs : Host(e) \/ (Settings[setting].crashes /\ Crash(e))
    /\ UNCHANGED setting

Spec == Init /\ [][Next]_<<vars, setting>>

-----------------------------------------------------------------------------
(* Properties.                                                             *)

(* What the host reports of a command is true of the device.  A command   *)
(* counts as verified only if a good reading of what it set, on the boot   *)
(* it was bound to, arrived after its answer: neither a reading of another *)
(* boot nor one from before the result proves anything (verify, observe).  *)
(* A command reported as not sent never runs: not later from a queue, not  *)
(* after a failed write (deliver, notSent).                                *)
VerdictsTruthful ==
    \A c \in Commands :
        /\ verdict[c] = "verified" => c \in proven
        /\ verdict[c] = "not sent" => \A b \in Boots : <<c, b>> \notin ran
=============================================================================
