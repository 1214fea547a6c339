--------------------------- MODULE DeviceAuthority ---------------------------
(***************************************************************************)
(* The durable device authority (internal/authority): who may command a    *)
(* target, which device boot a command was bound to, whether the device is *)
(* under reconciliation, and on which boots a safe stop was recorded.      *)
(*                                                                         *)
(* Every operator with primed variables is one transaction.  Ordinary      *)
(* transactions need the runtime lease and an epoch that is neither        *)
(* draining nor killed; the priority path needs neither.  One device with  *)
(* several targets is modelled.  The digest of a state is the state.       *)
(***************************************************************************)
EXTENDS OwnerFence, Integers, FiniteSets

CONSTANTS
    Targets,        \* targets of the device
    Commands,       \* command ids
    TargetOf,       \* the target a command names
    Silent,         \* commands bound with no_readback: nothing of theirs can be read back
    NoRecord,       \* no row for the target, the command or the device
    MaxBoots,       \* bound on the boots of the device
    ClaimLease,     \* lease of a target claim
    MaxTime,        \* bounds on the clock and on the fence of a target
    MaxFence

AuthorityAssumption ==
    /\ TargetOf \in [Commands -> Targets] /\ Silent \subseteq Commands
    /\ MaxBoots \in Nat \ {0} /\ ClaimLease \in Nat \ {0} /\ MaxTime \in Nat /\ MaxFence \in Nat

VARIABLES
    now,        \* the clock the authority reads
    fenced,     \* epochs that drain or were killed
    claims,     \* device_target_claims: target -> [epoch, boot, fence, until, active]
    bindings,   \* device_command_bindings: command -> [epoch, boot, target]
    recon,      \* device_reconciliation: [boot, required, state]
    openings,   \* latest reconciliation-opened event of a boot: [at, reboot]
    stops,      \* boots with a recorded safe-stop stage
    ledger      \* commands.status, as far as the authority reads it

authorityVars == <<now, fenced, claims, bindings, recon, openings, stops, ledger>>

Boots == 1 .. MaxBoots

AuthorityInit ==
    /\ OwnerInit
    /\ now = 0 /\ fenced = {}
    /\ claims = [t \in Targets |-> NoRecord]
    /\ bindings = [c \in Commands |-> NoRecord]
    /\ recon = NoRecord
    /\ openings = [b \in Boots |-> NoRecord]
    /\ stops = {}
    /\ ledger = [c \in Commands |-> "pending"]

(* inAdmittedTx: the runtime lease is held, the epoch admits work.         *)
Admitted(e) == Holds(e) /\ e \notin fenced

-----------------------------------------------------------------------------
(* Target claims.                                                          *)

Live(held) == held # NoRecord /\ held.active /\ held.until > now

HeldBy(held, e) == held # NoRecord /\ held.epoch = e

IsClaim(held, e, b) == HeldBy(held, e) /\ held.boot = b

nextFence(held, e) ==
    IF held = NoRecord THEN 1
    ELSE IF HeldBy(held, e) /\ Live(held) THEN held.fence ELSE held.fence + 1

DecideClaim(t, e) == Live(claims[t]) => HeldBy(claims[t], e)

WriteClaim(t, e, b) ==
    claims' = [claims EXCEPT ![t] =
        [epoch |-> e, boot |-> b, fence |-> nextFence(@, e), until |-> now + ClaimLease, active |-> TRUE]]

MayClaim(t, e) == Admitted(e) /\ DecideClaim(t, e)

Claim(t, e, b) ==
    /\ MayClaim(t, e) /\ nextFence(claims[t], e) <= MaxFence
    /\ WriteClaim(t, e, b)

CheckClaimHeld(t, e, b) == IsClaim(claims[t], e, b) /\ Live(claims[t])

AssertClaim(t, e, b) == Admitted(e) /\ CheckClaimHeld(t, e, b)

CheckReleasable(t, e, b) == IsClaim(claims[t], e, b) /\ claims[t].active

MarkClaimReleased(t) == [claims EXCEPT ![t].active = FALSE]

(* ReleaseClaim on the priority path; not owned changes nothing.           *)
ReleaseClaim(t, e, b) ==
    claims' = IF CheckReleasable(t, e, b) THEN MarkClaimReleased(t) ELSE claims

-----------------------------------------------------------------------------
(* Command bindings.                                                       *)

SameBinding(bound, c, e, b) == bound = [epoch |-> e, boot |-> b, target |-> TargetOf[c]]

DecideBinding(c, e, b) == bindings[c] = NoRecord \/ SameBinding(bindings[c], c, e, b)

InsertBinding(c, e, b) ==
    bindings' = [bindings EXCEPT ![c] = [epoch |-> e, boot |-> b, target |-> TargetOf[c]]]

MayBind(c, e, b) == Admitted(e) /\ DecideBinding(c, e, b)

BindCommand(c, e, b) ==
    /\ MayBind(c, e, b)
    /\ InsertBinding(c, e, b)

(* Evidence that reconciles a bound command is of the boot it was bound to. *)
CheckCommandEvidence(c, b) == bindings[c] # NoRecord => bindings[c].boot = b

-----------------------------------------------------------------------------
(* Reported states and reconciliation.                                     *)

Required == recon # NoRecord /\ recon.required

(* ObserveState: the first state is clear, a reboot requires               *)
(* reconciliation, the same boot keeps its status.                         *)
ObserveState(state) ==
    [boot |-> state.boot, state |-> state,
     required |-> recon # NoRecord /\ (recon.boot # state.boot \/ recon.required)]

Rebooted(state) == recon # NoRecord /\ recon.boot # state.boot

RecordDeviceState(e, state) ==
    /\ Admitted(e)
    /\ recon' = ObserveState(state)
    /\ openings' = IF Rebooted(state)
                   THEN [openings EXCEPT ![state.boot] = [at |-> now, reboot |-> TRUE]] ELSE openings

CheckOpenable(b) == recon # NoRecord /\ recon.boot = b

openReconciliation(b) ==
    /\ recon' = [recon EXCEPT !.required = TRUE]
    /\ openings' = [openings EXCEPT ![b] = [at |-> now, reboot |-> FALSE]]

(* Fault: the opening needs an owner that is still admitted.               *)
RequireReconciliationAdmitted(e, b) ==
    IF CheckOpenable(b) /\ Admitted(e) THEN openReconciliation(b) ELSE UNCHANGED <<recon, openings>>

(* RequireReconciliation: as an ordinary transaction, and on the priority  *)
(* path once authority is lost.  It fails when another boot is recorded.   *)
RequireReconciliation(e, b) ==
    IF CheckOpenable(b) THEN openReconciliation(b) ELSE UNCHANGED <<recon, openings>>

(* Bindings of the boot that read back.                                    *)
ReadBackCommands(b) == {c \in Commands \ Silent : bindings[c] # NoRecord /\ bindings[c].boot = b}

CountUnresolvedOutcomes(b) == Cardinality({c \in ReadBackCommands(b) : ledger[c] = "reconciling"})

CheckCommandsReconciled(b) == CountUnresolvedOutcomes(b) = 0

CheckResolvable(b, state) == Required /\ recon.boot = b /\ recon.state = state

MayResolve(e, b, state) == Admitted(e) /\ CheckResolvable(b, state) /\ CheckCommandsReconciled(b)

RecordResolution(clears) == recon' = [recon EXCEPT !.required = ~clears]

ResolveReconciliation(e, b, state, clears) ==
    /\ MayResolve(e, b, state)
    /\ RecordResolution(clears)

clears(r, b, opening) == r.good /\ r.boot = b /\ (opening.reboot \/ r.at > opening.at)

(* clearing: readings is a function of the outputs; NoRecord is unread.    *)
clearing(readings, b, opening) ==
    \A output \in DOMAIN readings : readings[output] # NoRecord /\ clears(readings[output], b, opening)

MayClear(e, b, state, readings) ==
    /\ DOMAIN readings # {} /\ openings[b] # NoRecord
    /\ clearing(readings, b, openings[b])
    /\ MayResolve(e, b, state)

ResolveWithReadings(e, b, state, readings) ==
    /\ MayClear(e, b, state, readings)
    /\ RecordResolution(TRUE)

-----------------------------------------------------------------------------
(* Safe stops.                                                             *)

RecordSafeStop(b) == stops' = stops \cup {b}

SafeStopLatched(b) == b \in stops

-----------------------------------------------------------------------------
(* The world around the authority.                                         *)

Tick == now < MaxTime /\ now' = now + 1

DrainOrKill(e) == e \notin fenced /\ fenced' = fenced \cup {e}
=============================================================================
