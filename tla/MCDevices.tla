------------------------------ MODULE MCDevices ------------------------------
(****************************************************************************)
(* Effects for TLC: the outbox of approved commands and its dispatchers,    *)
(* the start flags and the consent to touch hardware, the device session    *)
(* over a gateway, and the plant host that dispatches commands. One         *)
(* component moves in a behaviour, the others rest where they begin, so     *)
(* that every component is checked over its own deployments and             *)
(* interleavings.                                                           *)
(****************************************************************************)
EXTENDS ActionOutbox, TLC

CONSTANTS None, NotYet, Absent, NoRecord, Stop

VARIABLES
    part,   \* the component that moves
    starts, flags, results, answers, outputs, origin, peer, held, event, setting,
    sessionOwner, sessionValid, sessionRetired, now, fenced, claims, bindings, recon, openings, stops,
    ledger, device, session, sessionWork, halt, crossed, doubt, sessionSetting,
    hostOwner, hostValid, hostRetired, hostNow, hostFenced, hostClaims, hostBindings, hostRecon,
    hostOpenings, hostStops, hostLedger, node, link, sess, hostWork, verdict, ran, proven,
    hostSetting

-----------------------------------------------------------------------------
(* The deployments of EffectBoundary. Rules is the module without any, for   *)
(* what its rules say of the flags that follow.                              *)

FoldedKinds == ("pump" :> "pump") @@ ("Pump" :> "pump") @@ ("lamp" :> "lamp")

Rules == INSTANCE EffectBoundary WITH
    WatchRoute <- "watch.install", SpokenVersion <- 1, Folded <- FoldedKinds, DefaultLease <- 10,
    AnswerGrace <- 1, VerificationWindow <- 3, Settings <- <<>>

BothOrigins == {[board |-> "b1", environment |-> "simulated"], [board |-> "b1", environment |-> "hardware"],
              [board |-> "b2", environment |-> "hardware"]}

Watch == "watch.install"
Run == "pump.run"
Dim == "lamp.dim"

NoBindings == [x \in {} |-> "p1"]
NoBounds == [x \in {} |-> [min |-> None, max |-> None]]
Presets == ("low" :> ("duty" :> Rules!Number(1))) @@ ("high" :> ("duty" :> Rules!Number(2)))

Route == [operation |-> "run", target |-> "p1", bindings |-> ("l1" :> "p1"), selector |-> "level", expires |-> 1,
          presets |-> Presets, bounds |-> ("duty" :> [min |-> None, max |-> 2]), targetArg |-> None]

CatalogOf(route) ==
    [version |-> 1, routes |-> (Run :> route), safeStops |-> ("p1" :> [operation |-> "safe_stop", expires |-> 1])]

Sound == CatalogOf(Route)

(* Catalogs that differ from the sound one in what a route may say. *)
RouteVariants ==
    {[Route EXCEPT !.target = t, !.bindings = b] : t \in {None, "p1"}, b \in {NoBindings, "l1" :> "p1", "l1" :> "p2"}}
    \cup {[Route EXCEPT !.bounds = ("duty" :> [min |-> lo, max |-> hi])] : lo \in {None, 0, 2}, hi \in {None, 1}}
    \cup {[Route EXCEPT !.presets = ("low" :> preset) @@ Presets] :
            preset \in {("duty" :> Rules!Text("on")), ("speed" :> Rules!Number(1)),
                        ("duty" :> Rules!Number(1)) @@ ("speed" :> Rules!Number(2)),
                        ("duty" :> Rules!Number(1)) @@ (Rules!LeaseParameter :> Rules!Number(2))}}
    \cup {[Route EXCEPT !.targetArg = a] : a \in {None, "duty", "pump"}}
    \cup {[Route EXCEPT !.expires = e] : e \in {0, 1, 4}}
    \cup {[Route EXCEPT !.presets = ("low" :> preset), !.bounds = NoBounds] :
            preset \in {("mode" :> Rules!Text("off")), ("duty" :> Rules!Number(1)) @@ ("speed" :> Rules!Number(2))}}

Catalogs ==
    {CatalogOf(r) : r \in RouteVariants}
    \cup {[Sound EXCEPT !.version = 2], [Sound EXCEPT !.routes = (Watch :> Route)],
          [Sound EXCEPT !.routes = (Run :> Route) @@ (Dim :> [Route EXCEPT !.target = "p2", !.bindings = NoBindings])],
          [Sound EXCEPT !.safeStops = ("p2" :> [operation |-> "safe_stop", expires |-> 1])]}

Metric(lo, hi) == [name |-> "flow", eu |-> [min |-> lo, max |-> hi], instrument |-> Absent]
KindFile(name, carries, lo, hi) == [kind |-> name, carriesDigest |-> carries, metrics |-> {Metric(lo, hi)}]
Pump == KindFile("pump", FALSE, 0, 1)

KindSets == {<<>>, <<Pump>>, <<KindFile("pump", TRUE, 0, 1)>>, <<KindFile("pump", FALSE, 1, 1)>>,
             <<Pump, KindFile("Pump", FALSE, 0, 1)>>, <<Pump, KindFile("lamp", FALSE, 0, 1)>>}

SiteOf(k1, entity, readings, heartbeats, stale) ==
    [devices |-> ("p1" :> [kind |-> k1, entity |-> entity]), readings |-> readings, heartbeats |-> heartbeats,
     quality |-> ("good" :> "ok") @@ ("stale" :> stale)]
Flow(kind) == [kind |-> kind, metric |-> "flow"]
SoundSite == SiteOf("pump", "e", <<Flow("pump")>>, <<"pump">>, "invalid")

Sites ==
    {SiteOf(k, e, r, h, s) : k \in {"pump", "Pump", "lamp"}, e \in {"e", Absent},
        r \in {<<>>, <<Flow("pump")>>, <<Flow("pump"), Flow("pump")>>, <<[kind |-> "pump", metric |-> "heat"]>>},
        h \in {<<>>, <<"pump">>, <<"pump", "pump">>, <<"lamp">>}, s \in {"invalid", "ok"}}

Command(id, route, target, level) ==
    [id |-> id, route |-> route, target |-> target, payload |-> ("level" :> level), key |-> id, identified |-> TRUE]

RunAndDim == {Command(1, Run, "p1", "low"), [Command(3, Dim, "p2", "low") EXCEPT !.key = None]}
WatchAsWell == RunAndDim \cup {Command(2, Watch, "l1", "low")}
RunBoth ==
    {Command(1, Run, "l1", "high"), Command(4, Run, "p1", "low"),
     [Command(3, Dim, "elsewhere", "low") EXCEPT !.identified = FALSE]}

Plain == [profile |-> "simulated", deviceSocket |-> FALSE, plantSocket |-> FALSE, catalog |-> None, firmware |-> {},
          live |-> FALSE, owner |-> FALSE, batch |-> FALSE, trace |-> FALSE, liveSocket |-> TRUE, spec |-> {Run},
          environment |-> "simulated", kinds |-> <<>>, site |-> Absent, boards |-> {}, lease |-> 0]

Gateway == [Plain EXCEPT !.profile = "emulator", !.deviceSocket = TRUE, !.catalog = Sound, !.firmware = {"fw"}]
Plant == [Plain EXCEPT !.profile = "emulator", !.plantSocket = TRUE, !.catalog = Sound, !.kinds = <<Pump>>,
                       !.site = SoundSite, !.liveSocket = FALSE]

(* Every choice of the flags about profile, link, source and consent. *)
FlagChoices ==
    {[Plain EXCEPT !.profile = p, !.deviceSocket = d, !.plantSocket = w, !.catalog = c,
                   !.firmware = IF c = None THEN {} ELSE fw, !.live = consents, !.owner = own, !.batch = b, !.trace = tr,
                   !.liveSocket = ls, !.spec = sp, !.environment = env, !.kinds = IF w THEN <<Pump>> ELSE <<>>,
                   !.site = IF w THEN SoundSite ELSE Absent, !.boards = bo] :
        p \in Rules!Profiles \cup {None}, d \in BOOLEAN, w \in BOOLEAN, c \in {None, Sound}, fw \in {{}, {"fw"}},
        consents \in BOOLEAN, own \in BOOLEAN, b \in BOOLEAN, tr \in BOOLEAN, ls \in BOOLEAN,
        sp \in {{}, {Run}, {Run, Dim}, {Watch}},
        env \in {"simulated", "hardware", "mixed", "other"}, bo \in {{}, {"b1"}}}

(* A start that validate refuses is no step, so it need not be tried. *)
AcceptedFlags == {f \in FlagChoices : Rules!validate(f)}

CatalogChoices ==
    {[f EXCEPT !.catalog = c] : f \in {Gateway, Plant}, c \in Catalogs}
    \cup {[f EXCEPT !.catalog = CatalogOf([Route EXCEPT !.expires = e]), !.lease = 8] :
             f \in {Gateway, Plant}, e \in {0, 1, 4}}

SiteChoices ==
    {[Plant EXCEPT !.kinds = k, !.site = s] : k \in KindSets, s \in Sites \cup {Absent}}

BothFirmwares == {[capability |-> Sound, firmware |-> "fw"], [capability |-> Sound, firmware |-> "old"]}
CatalogPeers == {[capability |-> c, firmware |-> "fw"] : c \in Catalogs}
OnePeer == {[capability |-> Sound, firmware |-> "fw"]}
SimulatedOnly == {[board |-> "b1", environment |-> "simulated"]}

BoundarySettings ==
    [\* Every combination of start flags, two starts, boards of both kinds.
     flags   |-> [machines |-> {"p1"}, flagSets |-> AcceptedFlags, commands |-> RunAndDim, origins |-> BothOrigins,
                  peers |-> BothFirmwares, values |-> {1}, maxStarts |-> 2],
     \* Every catalog on a gateway and on the plant wire.
     catalog |-> [machines |-> {"p1", "p2"}, flagSets |-> CatalogChoices, commands |-> RunBoth,
                  origins |-> SimulatedOnly, peers |-> CatalogPeers, values |-> 1..2, maxStarts |-> 1],
     \* Every set of kinds with every site.
     site    |-> [machines |-> {"p1", "p2"}, flagSets |-> SiteChoices, commands |-> WatchAsWell,
                  origins |-> SimulatedOnly, peers |-> OnePeer, values |-> 0..1, maxStarts |-> 1]]

-----------------------------------------------------------------------------
(* The deployments of DeviceSession.                                         *)

SessionTargets == [c \in {"c1", "c2"} |-> "t1"]

Quiet ==
    [lives |-> {"p1"}, handed |-> {"c1"}, embedders |-> {}, stoppers |-> {}, repeated |-> {}, durable |-> {TRUE},
     fencing |-> {}, boots |-> 1, time |-> 0, maxSends |-> 1]

SessionSettings ==
    [\* Two commands of one life, one handed over repeatedly, and an embedder.
     exchange |-> [Quiet EXCEPT !.handed = {"c1", "c2"}, !.embedders = {"p1"}, !.repeated = {"c1"},
                                !.maxSends = 2],
     \* Safe stops beside the dispatcher.
     stops    |-> [Quiet EXCEPT !.stoppers = {"p1"}, !.durable = BOOLEAN, !.fencing = {"p1"}, !.boots = 2, !.maxSends = 3],
     \* Two lives hand over one command while claims and the lease run out.
     handover |-> [Quiet EXCEPT !.lives = {"p1", "p2"}, !.repeated = {"c1"}, !.time = 1],
     \* A later life resolves what an earlier one or a reboot left.
     clearing |-> [Quiet EXCEPT !.lives = {"p1", "p2"}, !.embedders = {"p2"}, !.boots = 2],
     \* A life opens its session after the safe stop of another.
     latch    |-> [Quiet EXCEPT !.lives = {"p1", "p2"}, !.stoppers = {"p1"}]]

-----------------------------------------------------------------------------
(* The deployments of PlantHost.                                             *)

HostTargets == [c \in {"c1", "c2", "s1"} |-> "t1"]

HostPlain ==
    [handed |-> <<"c1">>, boots |-> 1, time |-> 0, boards |-> {"sim"}, outcomes |-> {"succeeded"}, holding |-> FALSE,
     crashes |-> FALSE, owned |-> FALSE, slow |-> FALSE, maxFrames |-> 2]

HostSettings ==
    [\* A command whose process may crash and whose device may reboot.
     verify |-> [HostPlain EXCEPT !.boots = 2, !.outcomes = {"succeeded", "unknown"}, !.crashes = TRUE],
     \* A command without readback; the device may be announced elsewhere.
     origin |-> [HostPlain EXCEPT !.handed = <<"s1">>, !.boots = 2, !.boards = {"sim", "hw"}, !.maxFrames = 1],
     \* Two commands of a process that keeps the runtime lease once it has it.
     doubt  |-> [HostPlain EXCEPT !.handed = <<"c1", "c2">>, !.time = 1, !.owned = TRUE, !.maxFrames = 1],
     \* Sessions that hold barrier answers, and may outlast the outbox lease.
     held   |-> [HostPlain EXCEPT !.holding = TRUE, !.slow = TRUE]]

-----------------------------------------------------------------------------
Boundary == INSTANCE EffectBoundary WITH
    WatchRoute <- "watch.install", SpokenVersion <- 1, Folded <- FoldedKinds, DefaultLease <- 10,
    AnswerGrace <- 1, VerificationWindow <- 3, Settings <- BoundarySettings

Session == INSTANCE DeviceSession WITH
    Epochs <- {"p1", "p2"}, Targets <- {"t1"}, Commands <- {"c1", "c2"}, TargetOf <- SessionTargets,
    Silent <- {}, MaxBoots <- 2, ClaimLease <- 1, MaxTime <- 1, MaxFence <- 2, Settings <-
    SessionSettings, owner <- sessionOwner, valid <- sessionValid, retired <- sessionRetired,
    work <- sessionWork, setting <- sessionSetting

Host == INSTANCE PlantHost WITH
    Epochs <- {"p1"}, Targets <- {"t1"}, Commands <- {"c1", "c2", "s1"}, TargetOf <- HostTargets,
    Silent <- {"s1"}, MaxBoots <- 2, ClaimLease <- 1, MaxTime <- 1, MaxFence <- 3, Boards <- {"sim",
    "hw"}, AuthorizedBoards <- {"sim"}, MaxSessions <- 1, Settings <- HostSettings, owner <- hostOwner,
    valid <- hostValid, retired <- hostRetired, now <- hostNow, fenced <- hostFenced, claims <-
    hostClaims, bindings <- hostBindings, recon <- hostRecon, openings <- hostOpenings, stops <-
    hostStops, ledger <- hostLedger, work <- hostWork, setting <- hostSetting

ASSUME Session!AuthorityAssumption
ASSUME Session!SessionAssumption
ASSUME Host!AuthorityAssumption
ASSUME Host!HostAssumption

sessionVars ==
    <<sessionOwner, sessionValid, sessionRetired, now, fenced, claims, bindings, recon, openings, stops,
      ledger, device, session, sessionWork, halt, crossed, doubt, sessionSetting>>
hostVars ==
    <<hostOwner, hostValid, hostRetired, hostNow, hostFenced, hostClaims, hostBindings, hostRecon,
      hostOpenings, hostStops, hostLedger, node, link, sess, hostWork, verdict, ran, proven,
      hostSetting>>
boundaryVars == <<starts, flags, results, answers, outputs, origin, peer, held, event, setting>>
all == <<part, vars, boundaryVars, sessionVars, hostVars>>

(* A component that rests stays where one of its deployments begins.       *)
MCInit ==
    /\ part \in {"dispatchers", "operator", "boundary", "session", "host"}
    /\ part # "boundary" => /\ setting = "site" /\ peer = (CHOOSE p \in OnePeer : TRUE)
                            /\ origin = [m \in {"p1", "p2"} |-> CHOOSE o \in SimulatedOnly : TRUE]
    /\ part # "session" => sessionSetting = "latch"
    /\ part # "host" => hostSetting = "held"
    /\ Init /\ Boundary!Init /\ Session!Init /\ Host!Init

(* The outbox moves with three dispatchers, two of them in one process, or  *)
(* with two and an operator who claims the lease.                           *)
OutboxNext ==
    /\ Next
    /\ \/ part = "dispatchers" /\ owner' # "op"
       \/ part = "operator" /\ work'["d2"] = Idle

MCNext ==
    \/ OutboxNext /\ UNCHANGED <<part, boundaryVars, sessionVars, hostVars>>
    \/ part = "boundary" /\ Boundary!Next /\ UNCHANGED <<part, vars, sessionVars, hostVars>>
    \/ part = "session" /\ Session!Next /\ UNCHANGED <<part, vars, boundaryVars, hostVars>>
    \/ part = "host" /\ Host!Next /\ UNCHANGED <<part, vars, boundaryVars, sessionVars>>

MCSpec == MCInit /\ [][MCNext]_all

(* Only the session moves, where a later life resolves what an earlier one  *)
(* left.                                                                    *)
ClearingSpec == MCInit /\ part = "session" /\ sessionSetting = "clearing" /\ [][MCNext]_all

-----------------------------------------------------------------------------
(* Machines are commanded only with the consent the flags give, and         *)
(* hardware only by a physical process (EffectBoundary).                    *)
ConsentBeforeHardware == Boundary!ConsentBeforeHardware

(* A process commands machines and emits readings only as the files it      *)
(* accepted say (EffectBoundary).                                           *)
KeepsToItsFiles == Boundary!KeepsToItsFiles

(* A command crosses the link at most once, and doubt about it holds the    *)
(* barrier (DeviceSession).                                                 *)
DeliverySafe == Session!DeliverySafe

(* The barrier is cleared only once every command in doubt is settled       *)
(* (DeviceSession).                                                         *)
ResolvedOnlyWhenSettled == Session!ResolvedOnlyWhenSettled

(* What the host reports of a command is true of the device (PlantHost).    *)
VerdictsTruthful == Host!VerdictsTruthful
=============================================================================
