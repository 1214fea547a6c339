---- MODULE ServeProcess ----
(* One process of the runtime: the commands "serve" and "run-live" open their
   resources, start the pipeline's maintenance loop and the sources that run its
   batches, and close everything again.  The batches share one lock, two flags
   say which loop runs episodes and delivers commands, and a channel with room
   for one failure carries the reason to stop.  What a batch does inside its
   stages is left to the modules of those stages. *)
EXTENDS Naturals, Sequences, FiniteSets

CONSTANTS
    Work,     \* events, each followed up to the command it leads to
    NoWork,   \* a loop that holds nothing
    Settings  \* the deployments to check, by name

\* The parts of a process that may fail.
Parts == {"command", "worker", "source", "batch", "episodes", "maintenance"}

ProcessAssumption ==
    /\ NoWork \notin Work
    /\ \A n \in DOMAIN Settings :
          /\ Settings[n].live \subseteq {"socket", "feed"} /\ Settings[n].maxFaults \in Nat /\ Settings[n].faulty \subseteq Parts
          /\ Settings[n].command \in {"serve", "run-live"}
          /\ Settings[n].command = "run-live" => Settings[n].live = {}
          /\ Settings[n].backlog \subseteq {"none", "admitted", "approved"}

VARIABLES
    main,        \* stage of the command
    opened,      \* resources that have a cleanup
    result,      \* what the command returns
    ctxDone,     \* the run's context is cancelled
    cause,       \* who cancelled it first
    failures,    \* the channel of failures, one slot
    monitor,     \* the goroutine that relays a worker failure
    source,      \* the goroutines that run batches and episodes
    batch,       \* the batch that holds the lock, and its stage
    maintenance, \* the maintenance loop
    watchStop,   \* its context is not cancelled
    watchErr,    \* a round of it failed
    dispatchWake,           \* a wake-up waits for it
    dispatchInMaintenance,  \* it delivers the commands
    episodesBeside,         \* the episode loop runs the episodes
    stage,       \* how far each event has come
    busy,        \* what each loop is executing or delivering
    faults,      \* steps that failed
    setting      \* the deployment, chosen once

mainVars == <<main, opened, result>>
stopVars == <<ctxDone, cause>>
flagVars == <<dispatchInMaintenance, episodesBeside>>
loopVars == <<maintenance, watchStop, watchErr, dispatchWake>>
workVars == <<stage, busy>>
vars == <<main, opened, result, ctxDone, cause, failures, monitor, source, batch, maintenance,
          watchStop, watchErr, dispatchWake, dispatchInMaintenance, episodesBeside, stage, busy,
          faults>>

\* The parameters of the chosen setting.
Live == Settings[setting].live
Command == Settings[setting].command
MaxFaults == Settings[setting].maxFaults
Faulty == Settings[setting].faulty
Backlog == Settings[setting].backlog

Batchers == IF Live = {} THEN {"trace"} ELSE Live \cup {"clock"}

Goroutines == IF Live = {} THEN Batchers ELSE Batchers \cup {"episodes"}

(* What is opened, in order; the cleanups run from the last to the first. *)
Resources ==
    IF Command = "serve"
    THEN <<"database", "service", "stop", "effects", "worker", "monitor", "pipeline">>
    ELSE <<"database", "service", "worker", "monitor", "effects", "pipeline">>

NoBatch == [by |-> "none", at |-> "idle"]

Init ==
    /\ setting \in DOMAIN Settings
    /\ main = "opening" /\ opened = 0 /\ result = "none"
    /\ ctxDone = FALSE /\ cause = "none" /\ failures = <<>> /\ monitor = "off"
    /\ source = [g \in Goroutines |-> "off"] /\ batch = NoBatch
    /\ maintenance = "off" /\ watchStop = FALSE /\ watchErr = FALSE /\ dispatchWake = FALSE
    /\ dispatchInMaintenance = FALSE /\ episodesBeside = FALSE
    /\ stage \in [Work -> Backlog]
    /\ busy = [l \in {"batch", "episodes", "maintenance"} |-> NoWork]
    /\ faults = 0

(***************************************************************************)
(* Cancellation and failures.                                              *)
(***************************************************************************)

Cancel(who) == ctxDone' = TRUE /\ cause' = IF ctxDone THEN cause ELSE who

Fault(part) == part \in Faulty /\ faults < MaxFaults /\ faults' = faults + 1

Signal ==
    /\ ~ctxDone /\ main # "exited" /\ Cancel("signal")
    /\ UNCHANGED <<mainVars, failures, monitor, source, batch, loopVars, flagVars, workVars, faults>>

(* A source that returned an error waits for the slot, then stops the process. *)
runSourceSend(g) ==
    /\ source[g] = "failing" /\ failures = <<>>
    /\ failures' = <<g>> /\ source' = [source EXCEPT ![g] = "stopping"]
    /\ UNCHANGED <<mainVars, stopVars, monitor, batch, loopVars, flagVars, workVars, faults>>

runSourceStop(g) ==
    /\ source[g] = "stopping" /\ source' = [source EXCEPT ![g] = "ended"] /\ Cancel("source")
    /\ UNCHANGED <<mainVars, failures, monitor, batch, loopVars, flagVars, workVars, faults>>

WorkerFails ==
    /\ monitor = "watching" /\ Fault("worker") /\ monitor' = "relaying"
    /\ UNCHANGED <<mainVars, stopVars, failures, source, batch, loopVars, flagVars, workVars>>

(* The relay never waits: a failure that is already in the slot is the one told. *)
relayWorkerRuntimeError ==
    /\ monitor = "relaying" /\ monitor' = "stopping"
    /\ failures' = IF failures = <<>> THEN <<"worker">> ELSE failures
    /\ UNCHANGED <<mainVars, stopVars, source, batch, loopVars, flagVars, workVars, faults>>

relayStop ==
    /\ monitor = "stopping" /\ monitor' = "ended" /\ Cancel("worker")
    /\ UNCHANGED <<mainVars, failures, source, batch, loopVars, flagVars, workVars, faults>>

monitorEnds ==
    /\ monitor = "watching" /\ ctxDone /\ monitor' = "ended"
    /\ UNCHANGED <<mainVars, stopVars, failures, source, batch, loopVars, flagVars, workVars, faults>>

(***************************************************************************)
(* Opening and closing.                                                    *)
(***************************************************************************)

Pending(default) == IF failures = <<>> THEN default ELSE Head(failures)

Opened(r) == opened > 0 /\ Resources[opened] = r

(* Each resource is opened and its cleanup added; the last ones start goroutines. *)
openNext ==
    /\ main = "opening" /\ opened < Len(Resources) /\ opened' = opened + 1
    /\ LET r == Resources[opened'] IN
       /\ monitor' = IF r = "monitor" THEN "watching" ELSE monitor
       /\ watchStop' = (r = "pipeline") /\ maintenance' = IF r = "pipeline" THEN "waiting" ELSE maintenance
    /\ UNCHANGED <<main, result, stopVars, failures, source, batch, watchErr, dispatchWake, flagVars,
                   workVars, faults>>

openFails ==
    /\ main = "opening" /\ opened < Len(Resources) /\ Fault("command")
    /\ main' = "closing" /\ result' = "startup"
    /\ UNCHANGED <<opened, stopVars, failures, monitor, source, batch, loopVars, flagVars, workVars>>

startContinuousSource ==
    /\ main = "opening" /\ opened = Len(Resources)
    /\ source' = [g \in Goroutines |-> "starting"]
    /\ main' = IF Command = "run-live" THEN "batch" ELSE IF "socket" \in Live THEN "waiting" ELSE "serving"
    /\ UNCHANGED <<opened, result, stopVars, failures, monitor, batch, loopVars, flagVars, workVars, faults>>

waitForLiveSocket ==
    /\ main = "waiting"
    /\ \/ source["socket"] = "running" /\ main' = "serving" /\ UNCHANGED <<result, failures>>
       \/ failures # <<>> /\ main' = "closing" /\ result' = Head(failures) /\ failures' = <<>>
       \/ ctxDone /\ failures = <<>> /\ main' = "serving" /\ UNCHANGED <<result, failures>>
    /\ UNCHANGED <<opened, stopVars, monitor, source, batch, loopVars, flagVars, workVars, faults>>

(* The HTTP server returns once the context is done, and the slot is read. *)
serveReturns ==
    /\ main = "serving" /\ ctxDone
    /\ main' = "closing" /\ result' = Pending("clean") /\ failures' = <<>>
    /\ UNCHANGED <<opened, stopVars, monitor, source, batch, loopVars, flagVars, workVars, faults>>

(* The server fails, or the socket file cannot be inspected. *)
serveFails ==
    /\ main \in {"waiting", "serving"} /\ Fault("command") /\ main' = "closing" /\ result' = "startup"
    /\ UNCHANGED <<opened, stopVars, failures, monitor, source, batch, loopVars, flagVars, workVars>>

(* run-live: the worker's failure is told before the batch's own. *)
executeLiveTrace ==
    /\ main = "batch" /\ source["trace"] \in {"done", "failed"}
    /\ main' = "closing" /\ failures' = <<>>
    /\ result' = Pending(IF source["trace"] = "failed" THEN "trace" ELSE "clean")
    /\ UNCHANGED <<opened, stopVars, monitor, source, batch, loopVars, flagVars, workVars, faults>>

(* Fault: the maintenance loop is waited for and not stopped. *)
ClosePipelineUnstopped ==
    /\ main = "closing" /\ Opened("pipeline") /\ maintenance = "ended"
    /\ watchStop' = FALSE /\ opened' = opened - 1
    /\ UNCHANGED <<main, result, stopVars, failures, monitor, source, batch, maintenance, watchErr,
                   dispatchWake, flagVars, workVars, faults>>

(* Pipeline.Close stops the maintenance loop, then waits for it. *)
closePipeline ==
    /\ main = "closing" /\ Opened("pipeline")
    /\ watchStop' = FALSE /\ opened' = IF maintenance = "ended" THEN opened - 1 ELSE opened
    /\ UNCHANGED <<main, result, stopVars, failures, monitor, source, batch, maintenance, watchErr,
                   dispatchWake, flagVars, workVars, faults>>

closeMonitor ==
    /\ main = "closing" /\ Opened("monitor") /\ Cancel("exit")
    /\ opened' = IF monitor = "ended" THEN opened - 1 ELSE opened
    /\ UNCHANGED <<main, result, failures, monitor, source, batch, loopVars, flagVars, workVars, faults>>

closeNext ==
    /\ main = "closing" /\ opened > 0 /\ Resources[opened] \notin {"pipeline", "monitor"}
    /\ opened' = opened - 1
    /\ IF Opened("stop") THEN Cancel("exit") ELSE UNCHANGED stopVars
    /\ UNCHANGED <<main, result, failures, monitor, source, batch, loopVars, flagVars, workVars, faults>>

(* The goroutines that nobody waited for end with the process. *)
exit ==
    /\ main = "closing" /\ opened = 0 /\ main' = "exited"
    /\ source' = [g \in Goroutines |-> "ended"] /\ batch' = NoBatch
    /\ busy' = [l \in DOMAIN busy |-> NoWork]
    /\ stage' = [w \in Work |-> IF \E l \in DOMAIN busy : busy[l] = w THEN "left" ELSE stage[w]]
    /\ UNCHANGED <<opened, result, stopVars, failures, monitor, loopVars, flagVars, faults>>

(***************************************************************************)
(* Sources.                                                                *)
(***************************************************************************)

(* A live source hands deliveries to the maintenance loop before it serves, and
   the episode loop takes the episodes. *)
sourceStarts(g) ==
    /\ source[g] = "starting"
    /\ source' = [source EXCEPT ![g] = "running"]
    /\ dispatchInMaintenance' = IF g \in Live THEN watchStop ELSE dispatchInMaintenance
    /\ episodesBeside' = (episodesBeside \/ g = "episodes")
    /\ UNCHANGED <<mainVars, stopVars, failures, monitor, batch, loopVars, workVars, faults>>

(* What a source gives back as it returns, whatever the reason. *)
Leave(g, how) ==
    /\ source' = [source EXCEPT ![g] = how]
    /\ dispatchInMaintenance' = (dispatchInMaintenance /\ g \notin Live)
    /\ episodesBeside' = (episodesBeside /\ g # "episodes")

Working(g) == batch.by = g \/ (g = "episodes" /\ busy.episodes # NoWork)

sourceEnds(g) ==
    /\ source[g] = "running" /\ ctxDone /\ ~Working(g)
    /\ Leave(g, IF Command = "run-live" THEN "failed" ELSE "ended")
    /\ UNCHANGED <<mainVars, stopVars, failures, monitor, batch, loopVars, workVars, faults>>

(* An error of the source itself: a listener, a reader, the plant's session. *)
sourceFails(g) ==
    /\ source[g] = "running" /\ g # "clock" /\ ~Working(g) /\ Fault("source")
    /\ Leave(g, IF Command = "run-live" THEN "failed" ELSE "failing")
    /\ UNCHANGED <<mainVars, stopVars, failures, monitor, batch, loopVars, workVars>>

(***************************************************************************)
(* Batches.  Under a cancelled context a batch fails at its first statement, *)
(* before it changes anything, so none is started then.                    *)
(***************************************************************************)

At(p) == batch.at = p

Goto(p) == batch' = [batch EXCEPT !.at = p]

Free(s) == {w \in Work : stage[w] = s /\ \A l \in DOMAIN busy : busy[l] # w}

(* A live source appends one event, a trace any number, the clock none; a live
   event that is already in the log runs no batch. *)
lockBatch(g) ==
    /\ batch = NoBatch /\ g \in Batchers /\ source[g] = "running" /\ ~ctxDone
    /\ \E new \in SUBSET Free("none") :
          /\ g = "clock" => new = {}
          /\ g \in Live => Cardinality(new) = 1
          /\ stage' = [w \in Work |-> IF w \in new THEN "logged" ELSE stage[w]]
    /\ batch' = [by |-> g, at |-> "advance"]
    /\ UNCHANGED <<mainVars, stopVars, failures, monitor, source, loopVars, flagVars, busy, faults>>

(* The engine applies what is logged and admission takes what it asks for. *)
advanceBatch ==
    /\ At("advance") /\ ~watchErr /\ Goto("execute")
    /\ \E to \in [Work -> {"admitted", "settled"}] :
          stage' = [w \in Work |-> IF stage[w] = "logged" THEN to[w] ELSE stage[w]]
    /\ UNCHANGED <<mainVars, stopVars, failures, monitor, source, loopVars, flagVars, busy, faults>>

executeInlineEpisodes ==
    /\ At("execute") /\ Goto(IF episodesBeside THEN "evaluate" ELSE "inline")
    /\ UNCHANGED <<mainVars, stopVars, failures, monitor, source, loopVars, flagVars, workVars, faults>>

evaluatePendingIntents ==
    /\ At("evaluate") /\ Goto("handoff")
    /\ \E to \in [Work -> {"approved", "waiting", "settled"}] :
          stage' = [w \in Work |-> IF stage[w] = "reasoned" THEN to[w] ELSE stage[w]]
    /\ UNCHANGED <<mainVars, stopVars, failures, monitor, source, loopVars, flagVars, busy, faults>>

BatchDone(g) ==
    /\ batch' = NoBatch
    /\ source' = IF Command = "run-live" THEN [source EXCEPT ![g] = "done"] ELSE source

dispatchOrHandOff ==
    /\ At("handoff")
    /\ \/ dispatchInMaintenance /\ dispatchWake' = TRUE /\ BatchDone(batch.by)
       \/ ~dispatchInMaintenance /\ Goto("dispatch") /\ UNCHANGED <<source, dispatchWake>>
    /\ UNCHANGED <<mainVars, stopVars, failures, monitor, maintenance, watchStop, watchErr, flagVars,
                   workVars, faults>>

batchDispatched ==
    /\ At("dispatch") /\ busy.batch = NoWork /\ Free("approved") = {} /\ BatchDone(batch.by)
    /\ UNCHANGED <<mainVars, stopVars, failures, monitor, loopVars, flagVars, workVars, faults>>

inlineEpisodesDone ==
    /\ At("inline") /\ busy.batch = NoWork /\ Free("admitted") = {} /\ Goto("evaluate")
    /\ UNCHANGED <<mainVars, stopVars, failures, monitor, source, loopVars, flagVars, workVars, faults>>

Drop(l) ==
    /\ busy' = [busy EXCEPT ![l] = NoWork]
    /\ stage' = IF busy[l] = NoWork THEN stage ELSE [stage EXCEPT ![busy[l]] = "left"]

(* A failed batch ends its source with the error.  Of a cancelled context only
   the live sources and the trace report an error that is not the cancellation. *)
batchFails ==
    /\ batch # NoBatch /\ batch' = NoBatch /\ Drop("batch")
    /\ \/ /\ Fault("batch")
          /\ Leave(batch.by, IF Command = "run-live" THEN "failed"
                             ELSE IF ctxDone /\ batch.by = "clock" THEN "ended" ELSE "failing")
       \/ /\ ctxDone \/ (At("advance") /\ watchErr)
          /\ Leave(batch.by, IF Command = "run-live" THEN "failed"
                             ELSE IF ctxDone THEN "ended" ELSE "failing")
          /\ UNCHANGED faults
    /\ UNCHANGED <<mainVars, stopVars, failures, monitor, loopVars>>

(***************************************************************************)
(* Episodes and deliveries: by a batch, by the episode loop and by the     *)
(* maintenance loop.  A claim in the ledger gives each to one of them.     *)
(***************************************************************************)

watchCtxDone == ctxDone \/ ~watchStop

Executing(l) ==
    IF l = "batch" THEN At("inline") ELSE l = "episodes" /\ "episodes" \in Goroutines /\ source[l] = "running"

Delivering(l) ==
    IF l = "batch" THEN At("dispatch") ELSE l = "maintenance" /\ maintenance = "working"

take(l) ==
    /\ busy[l] = NoWork
    /\ \E w \in Work :
          /\ \/ Executing(l) /\ w \in Free("admitted")
             \/ Delivering(l) /\ w \in Free("approved")
          /\ busy' = [busy EXCEPT ![l] = w]
    /\ ~ctxDone /\ (l = "maintenance" => ~watchCtxDone)
    /\ UNCHANGED <<mainVars, stopVars, failures, monitor, source, batch, loopVars, flagVars, stage, faults>>

(* An episode ends with an intent or without one; a delivery with an outcome,
   known or not. *)
finish(l) ==
    /\ busy[l] # NoWork /\ busy' = [busy EXCEPT ![l] = NoWork]
    /\ \E to \in {"reasoned", "settled"} :
          /\ stage[busy[l]] = "approved" => to = "settled"
          /\ stage' = [stage EXCEPT ![busy[l]] = to]
    /\ UNCHANGED <<mainVars, stopVars, failures, monitor, source, batch, loopVars, flagVars, faults>>

episodeLoopFails ==
    /\ "episodes" \in Goroutines /\ source["episodes"] = "running"
    /\ \/ Fault("episodes") /\ ~ctxDone /\ Leave("episodes", "failing")
       \/ ctxDone /\ busy.episodes # NoWork /\ Leave("episodes", "ended") /\ UNCHANGED faults
    /\ Drop("episodes")
    /\ UNCHANGED <<mainVars, stopVars, failures, monitor, batch, loopVars>>

(* A person resolves an approval over HTTP. *)
ResolveApproval ==
    /\ main = "serving" /\ ~ctxDone
    /\ \E w \in Work, to \in {"approved", "settled"} :
          stage[w] = "waiting" /\ stage' = [stage EXCEPT ![w] = to]
    /\ UNCHANGED <<mainVars, stopVars, failures, monitor, source, batch, loopVars, flagVars, busy, faults>>

(* The ticker or a wake-up starts a round. *)
maintainWatches ==
    /\ maintenance = "waiting" /\ maintenance' = "working"
    /\ dispatchWake' \in {FALSE, dispatchWake}
    /\ UNCHANGED <<mainVars, stopVars, failures, monitor, source, batch, watchStop, watchErr, flagVars,
                   workVars, faults>>

maintainApprovedWork ==
    /\ maintenance = "working" /\ busy.maintenance = NoWork /\ Free("approved") = {} /\ ~watchCtxDone
    /\ maintenance' = "waiting"
    /\ UNCHANGED <<mainVars, stopVars, failures, monitor, source, batch, watchStop, watchErr,
                   dispatchWake, flagVars, workVars, faults>>

(* Fault: the error of a round is not kept. *)
ExpireMaintainedWatchesForgetting ==
    /\ maintenance = "working" /\ maintenance' = "ended" /\ Drop("maintenance")
    /\ \/ Fault("maintenance")
       \/ watchCtxDone /\ UNCHANGED faults
    /\ UNCHANGED <<mainVars, stopVars, failures, monitor, source, batch, watchStop, watchErr, dispatchWake,
                   flagVars>>

(* A failed round ends the loop for good and leaves its error to the batches. *)
expireMaintainedWatches ==
    /\ maintenance = "working" /\ maintenance' = "ended" /\ watchErr' = TRUE /\ Drop("maintenance")
    /\ \/ Fault("maintenance")
       \/ watchCtxDone /\ UNCHANGED faults
    /\ UNCHANGED <<mainVars, stopVars, failures, monitor, source, batch, watchStop, dispatchWake, flagVars>>

maintenanceStops ==
    /\ maintenance = "waiting" /\ watchCtxDone /\ maintenance' = "ended"
    /\ UNCHANGED <<mainVars, stopVars, failures, monitor, source, batch, watchStop, watchErr,
                   dispatchWake, flagVars, workVars, faults>>

(***************************************************************************)
(* Specification.                                                          *)
(***************************************************************************)

MainStep ==
    \/ openNext \/ startContinuousSource \/ waitForLiveSocket \/ serveReturns \/ executeLiveTrace
    \/ closePipeline \/ closeMonitor \/ closeNext \/ exit

BatchStep ==
    \/ advanceBatch \/ executeInlineEpisodes \/ inlineEpisodesDone \/ evaluatePendingIntents
    \/ dispatchOrHandOff \/ batchDispatched

Failure ==
    \/ openFails \/ serveFails \/ WorkerFails \/ batchFails \/ episodeLoopFails \/ expireMaintainedWatches
    \/ \E g \in Goroutines : sourceFails(g)

Step ==
    \/ MainStep \/ BatchStep \/ Failure \/ Signal \/ ResolveApproval
    \/ relayWorkerRuntimeError \/ relayStop \/ monitorEnds
    \/ maintainWatches \/ maintainApprovedWork \/ maintenanceStops
    \/ \E g \in Goroutines :
          sourceStarts(g) \/ sourceEnds(g) \/ runSourceSend(g) \/ runSourceStop(g) \/ lockBatch(g)
    \/ \E l \in DOMAIN busy : take(l) \/ finish(l)

Next == Step /\ UNCHANGED setting

Spec == Init /\ [][Next]_<<vars, setting>>

(* The scheduler runs every goroutine, tickers tick, an episode ends by its
   deadline and a delivery by its call timeout, and what uses the cancelled
   context fails.  Strong fairness only where the lock is contended. *)
Fairness ==
    /\ WF_vars(MainStep) /\ WF_vars(BatchStep)
    /\ WF_vars(relayWorkerRuntimeError) /\ WF_vars(relayStop) /\ WF_vars(monitorEnds)
    /\ WF_vars(maintainWatches) /\ WF_vars(maintainApprovedWork) /\ WF_vars(maintenanceStops)
    /\ WF_vars((watchErr \/ ctxDone) /\ batchFails)
    /\ WF_vars(watchCtxDone /\ expireMaintainedWatches)
    /\ \A g \in {"clock", "socket", "feed", "trace", "episodes"} :
          /\ WF_vars(g \in Goroutines /\ (sourceStarts(g) \/ sourceEnds(g)))
          /\ WF_vars(g \in Goroutines /\ (runSourceSend(g) \/ runSourceStop(g)))
    /\ \A g \in {"clock", "trace"} : SF_vars(g \in Goroutines /\ lockBatch(g))
    /\ \A l \in {"batch", "episodes", "maintenance"} : WF_vars(take(l)) /\ WF_vars(finish(l))

(***************************************************************************)
(* Properties.                                                             *)
(***************************************************************************)

(* A process that is cancelled or closing ends: nobody it waits for waits for somebody else
   (serveHTTP, cleanups.run, monitorWorkerRuntimeErrors, Pipeline.Close). *)
StopEnds == (ctxDone \/ main = "closing") ~> main = "exited"

(* An approved command is delivered, whoever approved it and whatever wake-up was
   lost, unless the process stops: a maintenance loop that failed stops it through
   the next batch (maintainWatches, watchFailure). *)
ApprovedDelivered ==
    \A w \in Work : stage[w] = "approved" ~> (stage[w] # "approved" \/ ctxDone \/ main = "exited")
====
