------------------------------ MODULE MCServing ------------------------------
(****************************************************************************)
(* Serving for TLC: the owner lease that several processes share, and one   *)
(* process from its start to its end. One component moves in a behaviour,   *)
(* the others rest where they begin, so that every component is checked     *)
(* over its own deployments and interleavings.                              *)
(****************************************************************************)
EXTENDS RuntimeOwner

CONSTANTS NoWork

VARIABLES
    part,   \* the component that moves
    main, opened, result, ctxDone, cause, failures, monitor, source, batch, maintenance, watchStop,
    watchErr, dispatchWake, dispatchInMaintenance, episodesBeside, stage, busy, faults, setting

-----------------------------------------------------------------------------
(* The deployments of ServeProcess.                                          *)

AllParts == {"command", "worker", "source", "batch", "episodes", "maintenance"}

ProcessSettings ==
    [\* serve with a plant feed whose maintenance loop may fail
     feed    |-> [live |-> {"feed"}, command |-> "serve", maxFaults |-> 1, faulty |-> {"maintenance"},
                  backlog |-> {"none"}],
     \* serve with a live socket; the episode loop or the command may fail
     socket  |-> [live |-> {"socket"}, command |-> "serve", maxFaults |-> 1, faulty |-> {"command", "episodes"},
                  backlog |-> {"approved"}],
     \* serve polling a trace: batches run episodes and deliver by themselves
     trace   |-> [live |-> {}, command |-> "serve", maxFaults |-> 1, faulty |-> AllParts,
                  backlog |-> {"none", "admitted", "approved"}],
     \* one run-live batch
     batch   |-> [live |-> {}, command |-> "run-live", maxFaults |-> 2, faulty |-> AllParts,
                  backlog |-> {"none", "admitted", "approved"}]]

-----------------------------------------------------------------------------
Process == INSTANCE ServeProcess WITH
    Work <- {"w1"}, Settings <- ProcessSettings

ASSUME Process!ProcessAssumption

processVars ==
    <<main, opened, result, ctxDone, cause, failures, monitor, source, batch, maintenance,
      watchStop, watchErr, dispatchWake, dispatchInMaintenance, episodesBeside, stage, busy, faults,
      setting>>
all == <<part, vars, processVars>>

(* A component that rests stays where one of its deployments begins.       *)
MCInit ==
    /\ part \in {"owner", "process"}
    /\ part # "process" => setting = "feed"
    /\ Init /\ Process!Init

MCNext ==
    \/ part = "owner" /\ Next /\ UNCHANGED <<part, processVars>>
    \/ part = "process" /\ Process!Next /\ UNCHANGED <<part, vars>>

(* Each component under the fairness of its own module.                     *)
MCSpec ==
    /\ MCInit /\ [][MCNext]_all
    /\ \/ part = "owner" /\ Fairness
       \/ part = "process" /\ Process!Fairness

-----------------------------------------------------------------------------
(* A process that is cancelled or closing ends (serveHTTP, cleanups.run).   *)
StopEnds == Process!StopEnds

(* An approved command is delivered unless the process stops                *)
(* (maintainWatches, watchFailure).                                         *)
ApprovedDelivered == Process!ApprovedDelivered
=============================================================================
