---------------------------- MODULE EffectBoundary ----------------------------
(***************************************************************************)
(* Where a runtime process may act on the world: the start flags and files *)
(* (cmd/agentic-stream), the effect profile and the device catalog         *)
(* (internal/device), the plant wire host's settings, kinds and site       *)
(* (internal/plantwire) and the routing of each command to the effector    *)
(* that owns its route (internal/runtime).  A process starts on any flags  *)
(* it accepts, dispatches commands that outlive it, and is started again   *)
(* on other flags.  The two links themselves are DeviceSession and         *)
(* PlantHost; here a command a link admits is carried out at once.         *)
(* A name a file leaves empty is None; an absent file, entity or range     *)
(* bound is Absent.  A parameter is a number or a text.                    *)
(***************************************************************************)
EXTENDS Integers, Sequences, FiniteSets, TLC

CONSTANTS
    None,               \* an empty name, an absent bound, a refused request
    Absent,             \* an absent file, entity, range bound or a refusal
    WatchRoute,         \* the route the runtime keeps for its own watches
    SpokenVersion,      \* the one device protocol the runtime speaks
    Folded,             \* kind name -> its lower-case form
    NotYet,             \* no process, no answer, no output yet
    DefaultLease,       \* the lease of a dispatch that names none
    AnswerGrace,        \* how long after its expiry a command's answer is awaited
    VerificationWindow, \* how long a reading is awaited
    Settings            \* the deployments to check, by name

VARIABLES
    starts,   \* how many processes were started
    flags,    \* the running process's flags, or NotYet
    results,  \* its simulated results by idempotency key
    answers,  \* command -> how its last dispatch was answered
    outputs,  \* machine -> the output it was last commanded to
    origin,   \* machine -> the board the node announced it on
    peer,     \* what the gateway's device announces
    held,     \* the output the gateway's device reports
    event,    \* the last reading the host emitted
    setting   \* the deployment, chosen once

vars == <<starts, flags, results, answers, outputs, origin, peer, held, event>>

\* The parameters of the chosen setting.
FlagSets == Settings[setting].flagSets
Handed == Settings[setting].commands
Machines == Settings[setting].machines
Origins == Settings[setting].origins
Values == Settings[setting].values
Peers == Settings[setting].peers
MaxStarts == Settings[setting].maxStarts

Profiles == {"simulated", "emulator", "physical"}
Qualities == {"good", "stale"}

(***************************************************************************)
(* The device capability catalog: what makes one acceptable, how a governed *)
(* command becomes a bounded device command, how a report is compared.     *)
(***************************************************************************)
Number(n) == [kind |-> "number", n |-> n]
Text(t) == [kind |-> "text", text |-> t]

LeaseParameter == "lease_ms"

RangeOf(f) == {f[x] : x \in DOMAIN f}

(* --- a route of the catalog -------------------------------------------- *)

RouteTargets(spec) == IF spec.target # None THEN {spec.target} ELSE RangeOf(spec.bindings)

validateTargetBindings(spec) ==
    \A logical \in DOMAIN spec.bindings :
        /\ logical # None /\ spec.bindings[logical] # None
        /\ spec.target # None => spec.bindings[logical] = spec.target

validateTargetArg(spec) ==
    spec.targetArg # None => \A p \in DOMAIN spec.presets : spec.targetArg \notin DOMAIN spec.presets[p]

(* Fault: a bound holds for the presets that carry its parameter. *)
requireBoundedBySomePreset(spec, param) ==
    param # None /\ \E p \in DOMAIN spec.presets : param \in DOMAIN spec.presets[p]

requireBoundedByEveryPreset(spec, param) ==
    param # None /\ \A p \in DOMAIN spec.presets : param \in DOMAIN spec.presets[p]

validateBound(bound) == bound.min # None /\ bound.max # None => bound.min <= bound.max

validateBounds(spec) ==
    \A param \in DOMAIN spec.bounds :
        requireBoundedByEveryPreset(spec, param) /\ validateBound(spec.bounds[param])

validatePresets(spec) ==
    spec.expires >= 1 /\ DOMAIN spec.presets # {} /\ validateTargetArg(spec) /\ validateBounds(spec)

validateRoute(route, spec) ==
    /\ route # None /\ route # WatchRoute
    /\ spec.operation # None /\ spec.selector # None /\ RouteTargets(spec) # {}
    /\ validateTargetBindings(spec) /\ validatePresets(spec)

(* --- the catalog ------------------------------------------------------- *)

validateSafeStops(catalog) ==
    \A target \in DOMAIN catalog.safeStops :
        /\ target # None /\ catalog.safeStops[target].operation = "safe_stop"
        /\ catalog.safeStops[target].expires >= 1

validateCatalog(catalog) ==
    /\ catalog.version = SpokenVersion
    /\ DOMAIN catalog.routes # {}
    /\ \A route \in DOMAIN catalog.routes : validateRoute(route, catalog.routes[route])
    /\ validateSafeStops(catalog)

LoadCapabilityCatalog(file) == IF file # None /\ validateCatalog(file) THEN file ELSE None

NamesRoute(catalog, route) == catalog # None /\ route \in DOMAIN catalog.routes

CheckExpiriesWithin(catalog, callTimeout) ==
    \A route \in DOMAIN catalog.routes : catalog.routes[route].expires < callTimeout

(* --- from a governed command to a device command ----------------------- *)

resolveTarget(spec, command) ==
    IF command.target = None THEN None
    ELSE IF spec.target # None /\ command.target = spec.target THEN spec.target
    ELSE IF command.target \in DOMAIN spec.bindings THEN spec.bindings[command.target]
    ELSE None

checkBound(bound, value) ==
    /\ value.kind = "number"
    /\ bound.max # None => value.n <= bound.max
    /\ bound.min # None => value.n >= bound.min

enforcePresetBounds(spec, preset) ==
    \A param \in DOMAIN spec.bounds \cap DOMAIN preset : checkBound(spec.bounds[param], preset[param])

presetParameters(spec, command) ==
    IF /\ spec.selector \in DOMAIN command.payload
       /\ command.payload[spec.selector] \in DOMAIN spec.presets
       /\ enforcePresetBounds(spec, spec.presets[command.payload[spec.selector]])
    THEN spec.presets[command.payload[spec.selector]]
    ELSE None

boundedParameters(spec, command, target) ==
    LET preset == presetParameters(spec, command)
    IN  IF preset = None \/ spec.targetArg = None THEN preset
        ELSE [p \in DOMAIN preset \cup {spec.targetArg} |->
                 IF p = spec.targetArg THEN Text(target) ELSE preset[p]]

Bound(catalog, command) ==
    IF ~NamesRoute(catalog, command.route) THEN None
    ELSE LET spec == catalog.routes[command.route]
             target == resolveTarget(spec, command)
         IN  IF target = None \/ boundedParameters(spec, command, target) = None THEN None
             ELSE [target |-> target, operation |-> spec.operation,
                   parameters |-> boundedParameters(spec, command, target), expires |-> spec.expires]

checkMaterializable(catalog, command, boot) ==
    catalog.version = SpokenVersion /\ command.identified /\ boot # None

Materialize(catalog, command, boot) ==
    IF catalog # None /\ checkMaterializable(catalog, command, boot) THEN Bound(catalog, command) ELSE None

(* --- what the device reports ------------------------------------------- *)

Outputs(parameters) ==
    {p \in DOMAIN parameters : parameters[p].kind = "number" /\ p # LeaseParameter}

(* The value a command asks for, or None when two parameters name one. *)
expectedOutput(parameters) ==
    CASE Cardinality(Outputs(parameters)) = 0 -> 0
      [] Cardinality(Outputs(parameters)) = 1 -> parameters[CHOOSE p \in Outputs(parameters) : TRUE].n
      [] OTHER -> None

OutputVerified(output, command) ==
    /\ expectedOutput(command.parameters) # None
    /\ output.target = command.target /\ output.operation = command.operation
    /\ output.energized = (expectedOutput(command.parameters) > 0)
    /\ output.value = expectedOutput(command.parameters)

(***************************************************************************)
(* The commissioned kinds and the site file of a plant wire host.  Kind    *)
(* names are compared without case when a kind is looked up.               *)
(***************************************************************************)
foldedName(file) == Folded[file.kind]

(* --- kind files -------------------------------------------------------- *)

emptyRange(range) == range # Absent /\ range.min # Absent /\ range.max # Absent /\ range.min >= range.max

emptyRangeOf(metric) == emptyRange(metric.eu) \/ emptyRange(metric.instrument)

declaresMetric(file, name) == \E metric \in file.metrics : metric.name = name

checkKindFile(file) == ~file.carriesDigest /\ \A metric \in file.metrics : ~emptyRangeOf(metric)

commission(files, i) ==
    /\ \A j \in 1..i - 1 : foldedName(files[j]) # foldedName(files[i])
    /\ checkKindFile(files[i])

Commission(files) ==
    IF files # <<>> /\ \A i \in DOMAIN files : commission(files, i)
    THEN {files[i] : i \in DOMAIN files}
    ELSE Absent

InventoryCommissioned(inventory, kind) == \E file \in inventory : foldedName(file) = Folded[kind]

Declares(inventory, kind, metric) ==
    \E file \in inventory : foldedName(file) = Folded[kind] /\ declaresMetric(file, metric)

(* --- the site file ----------------------------------------------------- *)

NoSite == [devices |-> <<>>, readings |-> <<>>, heartbeats |-> <<>>, quality |-> <<>>]

loadSite(file) == IF file = Absent THEN NoSite ELSE file

emitsFor(site, kind) ==
    \/ \E i \in DOMAIN site.readings : site.readings[i].kind = kind
    \/ \E i \in DOMAIN site.heartbeats : site.heartbeats[i] = kind

checkQuality(site) ==
    \A code \in DOMAIN site.quality : code # "good" => site.quality[code] # site.quality["good"]

checkDevices(site, inventory) ==
    \A name \in DOMAIN site.devices :
        LET device == site.devices[name]
        IN  /\ InventoryCommissioned(inventory, device.kind)
            /\ emitsFor(site, device.kind) => device.entity # Absent

checkReadings(site, inventory) ==
    \A i \in DOMAIN site.readings :
        /\ \A j \in 1..i - 1 : site.readings[j] # site.readings[i]
        /\ Declares(inventory, site.readings[i].kind, site.readings[i].metric)

checkHeartbeats(site, inventory) ==
    \A i \in DOMAIN site.heartbeats :
        /\ \A j \in 1..i - 1 : site.heartbeats[j] # site.heartbeats[i]
        /\ InventoryCommissioned(inventory, site.heartbeats[i])

checkSite(site, inventory) ==
    /\ checkQuality(site) /\ checkDevices(site, inventory)
    /\ checkReadings(site, inventory) /\ checkHeartbeats(site, inventory)

DeviceFor(site, target) == target \in DOMAIN site.devices

checkRouteTargets(site, targets) == \A target \in targets : DeviceFor(site, target)

(***************************************************************************)
(* The effect profile.                                                     *)
(***************************************************************************)
requireNoGateway(r) == ~r.link

requireLiveGateway(r) == ~r.replay /\ r.link

(* Fault: live actuation alone is consent. *)
requireActuationConsentLive(r) == r.live

requireActuationConsent(r) == r.live /\ r.owner

requirePhysicalActuation(r) == requireLiveGateway(r) /\ requireActuationConsent(r)

CheckEffectProfile(r) ==
    CASE r.profile = "simulated" -> requireNoGateway(r)
      [] r.profile = "emulator" -> requireLiveGateway(r)
      [] r.profile = "physical" -> requirePhysicalActuation(r)

GrantsActuationConsent(r) == r.profile = "physical" /\ requireActuationConsent(r)

(* profileConfig: the empty profile is the simulated one. *)
profile(f) == IF f.profile = None THEN "simulated" ELSE f.profile

profileConfig(f, replay) ==
    [profile |-> profile(f), replay |-> replay, link |-> f.deviceSocket \/ f.plantSocket,
     live |-> f.live, owner |-> f.owner]

hasGatewayConfiguration(f) ==
    f.deviceSocket \/ f.plantSocket \/ f.catalog # None \/ f.firmware # {} \/ f.live \/ f.owner

requirePlantWireLink(f) == ~f.deviceSocket /\ f.catalog # None /\ f.firmware = {}

requireGatewayOptions(f) ==
    IF f.plantSocket THEN requirePlantWireLink(f)
    ELSE f.deviceSocket /\ f.catalog # None /\ f.firmware # {}

requireGatewayFlags(f, replay) ==
    IF profile(f) = "simulated" THEN ~hasGatewayConfiguration(f)
    ELSE replay \/ requireGatewayOptions(f)

validateProfile(f, replay) == requireGatewayFlags(f, replay) /\ CheckEffectProfile(profileConfig(f, replay))

(***************************************************************************)
(* The start of a process: run-live over a trace, or serve.                *)
(***************************************************************************)

(* A trace is a replayed source; run-live has nothing else. *)
replaySource(f) == f.batch \/ f.trace

settings(f) ==
    [environment |-> f.environment, boards |-> f.boards, consent |-> GrantsActuationConsent(profileConfig(f, FALSE))]

checkConsent(s) ==
    /\ s.environment = "simulated" => s.boards = {}
    /\ s.environment # "simulated" => s.consent

CheckSettings(s) == s.environment \in {"simulated", "hardware", "mixed"} /\ checkConsent(s)

rejectWithoutSocket(f) == f.environment = "simulated" /\ f.kinds = <<>> /\ f.site = Absent /\ f.boards = {}

validatePlantWire(f) ==
    IF ~f.plantSocket THEN rejectWithoutSocket(f) ELSE f.kinds # <<>> /\ CheckSettings(settings(f))

validateServeSources(f) ==
    /\ f.trace => ~f.liveSocket /\ ~f.plantSocket
    /\ (f.spec # {}) = (f.trace \/ f.liveSocket \/ f.plantSocket)

validateEffects(f) == validateProfile(f, replaySource(f)) /\ validatePlantWire(f)

validateLiveBatch(f) ==
    f.trace /\ f.spec # {} /\ ~f.plantSocket /\ rejectWithoutSocket(f) /\ validateProfile(f, TRUE)

validate(f) == IF f.batch THEN validateLiveBatch(f) ELSE validateServeSources(f) /\ validateEffects(f)

(* The link of an accepted process. *)
Link(f) ==
    IF profile(f) = "simulated" THEN "none" ELSE IF f.plantSocket THEN "plant" ELSE "gateway"

(* CheckState: the handshake accepts only this catalog and a listed firmware. *)
CheckState(f) == peer.capability = f.catalog /\ peer.firmware \in f.firmware

OpenGateway(f) == LoadCapabilityCatalog(f.catalog) # None /\ CheckState(f)

(* actions: the call of a dispatch ends after nine tenths of its lease. *)
CallTimeout(f) == ((IF f.lease = 0 THEN DefaultLease ELSE f.lease) * 9) \div 10

plantWireCallTimeout(f) == CallTimeout(f) - AnswerGrace - VerificationWindow

plantWireCatalog(f) ==
    LoadCapabilityCatalog(f.catalog) # None /\ CheckExpiriesWithin(f.catalog, plantWireCallTimeout(f))

checkCatalogTargets(f, site) ==
    /\ \A route \in DOMAIN f.catalog.routes : checkRouteTargets(site, RouteTargets(f.catalog.routes[route]))
    /\ checkRouteTargets(site, DOMAIN f.catalog.safeStops)

openInventory(f) == Commission(f.kinds) # Absent /\ checkSite(loadSite(f.site), Commission(f.kinds))

OpenPlantHost(f) ==
    /\ plantWireCatalog(f) /\ CheckSettings(settings(f))
    /\ f.site # Absent
    /\ openInventory(f) /\ checkCatalogTargets(f, loadSite(f.site))

openEffects(f) ==
    CASE Link(f) = "none" -> TRUE [] Link(f) = "gateway" -> OpenGateway(f) [] Link(f) = "plant" -> OpenPlantHost(f)

(***************************************************************************)
(* Which effector owns a route.                                            *)
(***************************************************************************)
fallbackEffector(f) == IF profile(f) = "physical" THEN "failClosed" ELSE "simulated"

deviceOwns(f, route) == Link(f) # "none" /\ route # WatchRoute /\ NamesRoute(f.catalog, route)

(* ownerOf: with a device present the fallback owns no route. *)
ownerOf(f, route) ==
    IF route = WatchRoute THEN "watch"
    ELSE IF Link(f) # "none" THEN IF deviceOwns(f, route) THEN Link(f) ELSE "none"
    ELSE IF fallbackEffector(f) = "simulated" THEN "simulated" ELSE "none"

RequireOwners(f) == \A route \in f.spec : ownerOf(f, route) # "none"

(* A refused start changes nothing, so it is no step. *)
Start(f) ==
    /\ flags = NotYet /\ starts < MaxStarts
    /\ validate(f) /\ openEffects(f) /\ RequireOwners(f)
    /\ flags' = f /\ results' = <<>> /\ starts' = starts + 1
    /\ UNCHANGED <<answers, outputs, origin, peer, held, event>>

StopProcess ==
    /\ flags # NotYet
    /\ flags' = NotYet /\ results' = <<>> /\ event' = NotYet
    /\ UNCHANGED <<starts, answers, outputs, origin, peer, held>>

(***************************************************************************)
(* Dispatch of one approved command.                                       *)
(***************************************************************************)
Answer(c, a) == answers' = [answers EXCEPT ![c] = a]

Refuse(c) == Answer(c, "refused") /\ UNCHANGED <<results, outputs, held>>

(* The device carries the command out, or settles on another value (external). *)
CarryOut(c, command) ==
    /\ outputs' = [outputs EXCEPT ![command.target] = command]
    /\ Answer(c, "executed")
    /\ \E value \in Values :
          held' = [target |-> command.target, operation |-> command.operation, value |-> value, energized |-> value > 0]
    /\ UNCHANGED results

applyOnce(c) ==
    [k \in DOMAIN results \cup {c.key} |->
        IF k \in DOMAIN results THEN results[k] ELSE [route |-> c.route, target |-> c.target]]

simulatedDispatch(c) ==
    IF c.key = None THEN Refuse(c)
    ELSE results' = applyOnce(c) /\ Answer(c, "simulated") /\ UNCHANGED <<outputs, held>>

gatewayDispatch(c) ==
    LET command == Materialize(flags.catalog, c, "boot")
    IN  IF command = None THEN Refuse(c) ELSE CarryOut(c, command)

Authorizes(s, o) ==
    \/ o.environment = "simulated"
    \/ o.environment = "hardware" /\ s.consent /\ o.board \in s.boards

orderFor(c) ==
    LET command == Bound(flags.catalog, c)
    IN  IF command # None /\ DeviceFor(loadSite(flags.site), command.target) THEN command ELSE None

plantDispatch(c) ==
    LET command == orderFor(c)
    IN  IF command = None \/ ~Authorizes(settings(flags), origin[command.target]) THEN Refuse(c)
        ELSE CarryOut(c, command)

(* The final interlock check, then the owner of the route. *)
DispatchAuthorized(c, allowed) ==
    LET owner == ownerOf(flags, c.route)
    IN  IF owner = "none" \/ ~allowed THEN Refuse(c)
        ELSE CASE owner = "watch" -> Answer(c, "watched") /\ UNCHANGED <<results, outputs, held>>
               [] owner = "simulated" -> simulatedDispatch(c)
               [] owner = "gateway" -> gatewayDispatch(c)
               [] owner = "plant" -> plantDispatch(c)

Dispatch(c) ==
    /\ flags # NotYet /\ flags.spec # {}
    /\ \E allowed \in BOOLEAN : DispatchAuthorized(c, allowed)
    /\ UNCHANGED <<starts, flags, origin, peer, event>>

(* A fresh report of the gateway's device is compared with the command. *)
VerifyDeviceCommand(c) ==
    /\ flags # NotYet /\ answers[c] = "executed" /\ held # NotYet
    /\ deviceOwns(flags, c.route) /\ Link(flags) = "gateway"
    /\ LET command == Materialize(flags.catalog, c, "boot")
       IN  command # None /\ OutputVerified(held, command)
    /\ Answer(c, "verified")
    /\ UNCHANGED <<starts, flags, results, outputs, origin, peer, held, event>>

(***************************************************************************)
(* The plant's readings, and what changes around a process.                *)
(***************************************************************************)
readingEvent(site, machine, metric, quality) ==
    [entity |-> site.devices[machine].entity, wire |-> quality, quality |-> site.quality[quality],
     valued |-> quality = "good"]

(* A device that is born as the kind the site names gives a sample. *)
Sample(machine, metric, quality) ==
    /\ flags # NotYet /\ Link(flags) = "plant"
    /\ LET site == loadSite(flags.site)
       IN  /\ DeviceFor(site, machine)
           /\ \E i \in DOMAIN site.readings : site.readings[i] = [kind |-> site.devices[machine].kind, metric |-> metric]
           /\ event' = readingEvent(site, machine, metric, quality)
    /\ UNCHANGED <<starts, flags, results, answers, outputs, origin, peer, held>>

(* The node announces a device on another board (external). *)
Rebirth ==
    /\ flags # NotYet /\ Link(flags) = "plant"
    /\ \E m \in Machines, o \in Origins :
          /\ flags.environment \in {o.environment, "mixed"}
          /\ origin' = [origin EXCEPT ![m] = o]
    /\ UNCHANGED <<starts, flags, results, answers, outputs, peer, held, event>>

(* Between two processes the gateway's device is flashed (external). *)
Reflash ==
    /\ flags = NotYet
    /\ peer' \in Peers
    /\ UNCHANGED <<starts, flags, results, answers, outputs, origin, held, event>>

Init ==
    /\ setting \in DOMAIN Settings
    /\ starts = 0 /\ flags = NotYet /\ results = <<>> /\ held = NotYet /\ event = NotYet
    /\ answers = [c \in Handed |-> NotYet]
    /\ outputs = [m \in Machines |-> NotYet]
    /\ origin \in {o \in [Machines -> Origins] : \A m \in Machines : o[m].environment = "simulated"}
    /\ peer \in Peers

Step ==
    \/ \E f \in FlagSets : Start(f)
    \/ StopProcess
    \/ \E c \in Handed : Dispatch(c) \/ VerifyDeviceCommand(c)
    \/ \E m \in Machines, metric \in {"flow"}, q \in Qualities : Sample(m, metric, q)
    \/ Rebirth
    \/ Reflash

Next == Step /\ UNCHANGED setting

Spec == Init /\ [][Next]_<<vars, setting>>

(***************************************************************************)
(* Properties.                                                             *)
(***************************************************************************)

Acts(m) == outputs'[m] # outputs[m]

(* A machine is commanded only by a process with no replayed source, and   *)
(* hardware (a physical gateway, a hardware board) only by one started on  *)
(* the physical profile with both consents, the board named                *)
(* (CheckEffectProfile, checkConsent, Authorizes).                         *)
ConsentBeforeHardware ==
    [][\A m \in Machines : Acts(m) =>
          /\ ~flags.trace /\ ~flags.batch
          /\ profile(flags) = "physical" \/ (Link(flags) = "plant" /\ origin[m].environment = "hardware")
                => profile(flags) = "physical" /\ flags.live /\ flags.owner
          /\ Link(flags) = "plant" /\ origin[m].environment = "hardware" => origin[m].board \in flags.boards]_vars

(* A command within a route of the catalog: the machine is a target of the  *)
(* route and named by its target argument, and every bounded parameter is  *)
(* there, a number within its bounds.                                      *)
Within(spec, command) ==
    /\ command.operation = spec.operation /\ command.target \in RouteTargets(spec)
    /\ spec.targetArg # None => command.parameters[spec.targetArg] = Text(command.target)
    /\ \A p \in DOMAIN spec.bounds : p \in DOMAIN command.parameters /\ checkBound(spec.bounds[p], command.parameters[p])

(* A process keeps to the files it accepted, whatever it dispatches.  A    *)
(* machine is commanded within a route of the catalog; over the gateway    *)
(* the device announced that very catalog, over the plant wire the site    *)
(* names the machine and the answer and the reading of the command fit     *)
(* into the dispatch's call.  A reading speaks of an entity, and a bad one *)
(* never carries the quality of a good one (validateCatalog, Bound,        *)
(* CheckState, checkSite, CheckExpiriesWithin).                            *)
KeepsToItsFiles ==
    [][/\ \A m \in Machines : Acts(m) =>
             /\ outputs'[m].target = m
             /\ \E route \in DOMAIN flags.catalog.routes : Within(flags.catalog.routes[route], outputs'[m])
             /\ Link(flags) = "gateway" => peer = [capability |-> flags.catalog, firmware |-> peer.firmware]
             /\ Link(flags) = "plant" =>
                   /\ m \in DOMAIN flags.site.devices
                   /\ outputs'[m].expires + AnswerGrace + VerificationWindow < CallTimeout(flags)
       /\ event' \notin {event, NotYet} =>
             event'.entity # Absent /\ (event'.wire # "good" => event'.quality # flags.site.quality["good"])]_vars
=============================================================================
