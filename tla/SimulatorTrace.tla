---- MODULE SimulatorTrace ----
(* The replay of a simulator trace: a file framed by a configuration record
   and an end record, with recorded time strictly increasing in between.  The
   source checks the grammar record by record while it is already appending
   events in batches, each of which the log admits or refuses as a whole; the
   definitions below the actions say what it should accept and log of a trace
   as a whole. *)
EXTENDS Integers, Sequences, SequencesExt, FiniteSets

CONSTANTS
    Traces,      \* the files to replay, sequences of Record
    BatchSize,   \* events appended in one transaction of the log
    MaxStops     \* bound: times the process stops during a replay

(* "ok": the record has the fields its type requires and no others.  "at" is
   its recorded time (arrival of an event, activation of a model, the end's
   "until").  Of an event, "id" is its identifier, "time" its own time, which
   stands for all its content, and "conforms" says that the log admits it: a
   valid envelope whose payload fits a registered schema. *)
Record == [type : {"runtime_config", "event", "model_activation", "trace_end", "other", "blank"},
           ok : BOOLEAN, id : STRING, time : Nat, at : Nat, conforms : BOOLEAN]

TraceAssumption ==
    /\ \A t \in Traces : \A n \in DOMAIN t : t[n] \in Record
    /\ BatchSize \in Nat \ {0} /\ MaxStops \in Nat

VARIABLES
    trace,       \* the file
    grammar,     \* SimulatorTrace: line, records, configured, ended, lastRecorded
    pending,     \* the batch in memory
    log,         \* the lines whose events are logged, in order of position
    quarantine,  \* identifiers with a quarantined conflicting event
    saved,       \* checkpointed line, or 0
    outcome,     \* "idle" | "reading" | "saving" | "failed"
    stops

vars == <<trace, grammar, pending, log, quarantine, saved, outcome, stops>>

NewSimulatorTrace == [line |-> 0, records |-> 0, configured |-> FALSE, ended |-> FALSE, lastRecorded |-> 0]

Init ==
    /\ trace \in Traces
    /\ grammar = NewSimulatorTrace
    /\ pending = <<>> /\ log = <<>> /\ quarantine = {} /\ saved = 0 /\ outcome = "idle" /\ stops = 0

Current == trace[grammar.line + 1]

After(g, t) == g.lastRecorded = 0 \/ t > g.lastRecorded

CheckPosition(g, r) == (g.records = 0 => r.type = "runtime_config") /\ ~g.ended

ValidateSimulatorControl(r) == r.ok

ValidateModelActivation(r) == r.ok

\* The event has its fields and did not arrive before it happened.
ConvertEvent(r) == r.ok /\ r.at >= r.time

AcceptConfig(g, r) == ~g.configured /\ ValidateSimulatorControl(r)

AcceptEvent(g, r) == ConvertEvent(r) /\ After(g, r.at)

AcceptModelActivation(g, r) == ValidateModelActivation(r) /\ After(g, r.at)

AcceptTraceEnd(g, r) == ValidateSimulatorControl(r) /\ After(g, r.at)

AcceptRecord(g, r) ==
    \/ r.type = "runtime_config" /\ AcceptConfig(g, r)
    \/ r.type = "event" /\ AcceptEvent(g, r)
    \/ r.type = "model_activation" /\ AcceptModelActivation(g, r)
    \/ r.type = "trace_end" /\ AcceptTraceEnd(g, r)

Accepted(g, r) ==
    [g EXCEPT !.line = @ + 1, !.records = @ + 1,
              !.configured = @ \/ r.type = "runtime_config",
              !.ended = @ \/ r.type = "trace_end",
              !.lastRecorded = IF r.type \in {"event", "model_activation"} THEN r.at ELSE @]

Finish(g) == g.configured /\ g.ended

-----------------------------------------------------------------------------
(* One transaction of the event log.                                         *)

\* The log keeps one event per identifier, which is the event's own.
InsertEvent(lines, n) ==
    IF \E i \in DOMAIN lines : trace[lines[i]].id = trace[n].id THEN lines ELSE Append(lines, n)

SameEvent(n, m) == trace[n].time = trace[m].time

\* Another event under a logged identifier is quarantined.
Conflicting(lines, batch) ==
    {trace[n].id : n \in {m \in ToSet(batch) :
        \E i \in DOMAIN lines : trace[lines[i]].id = trace[m].id /\ ~SameEvent(lines[i], m)}}

Admitted(batch) == \A n \in ToSet(batch) : trace[n].conforms

\* Fault: what precedes a refused event of the batch stays in the log.
FlushPartly(batch, next) ==
    LET kept == SelectSeq(batch, LAMBDA n : \A i \in DOMAIN batch : batch[i] <= n => trace[batch[i]].conforms)
        lines == FoldLeft(InsertEvent, log, kept)
    IN  /\ log' = lines /\ quarantine' = quarantine \cup Conflicting(lines, kept)
        /\ outcome' = IF Admitted(batch) THEN next ELSE "failed"

\* The batch is appended in one unit of work: a refused event undoes all of it
\* and ends the replay.
Flush(batch, next) ==
    IF Admitted(batch)
    THEN LET lines == FoldLeft(InsertEvent, log, batch)
         IN  log' = lines /\ quarantine' = quarantine \cup Conflicting(lines, batch) /\ outcome' = next
    ELSE outcome' = "failed" /\ UNCHANGED <<log, quarantine>>

-----------------------------------------------------------------------------
Reading == outcome = "reading" /\ grammar.line < Len(trace)

\* The trace is read from its top on every replay.
StartReplay ==
    /\ outcome = "idle" /\ saved = 0
    /\ grammar' = NewSimulatorTrace /\ pending' = <<>> /\ outcome' = "reading"
    /\ UNCHANGED <<trace, log, quarantine, saved, stops>>

ReadBlank ==
    /\ Reading /\ Current.type = "blank"
    /\ grammar' = [grammar EXCEPT !.line = @ + 1]
    /\ UNCHANGED <<trace, pending, log, quarantine, saved, outcome, stops>>

\* An accepted event past the checkpoint joins the batch.
ReadRecord ==
    /\ Reading /\ Current.type # "blank"
    /\ CheckPosition(grammar, Current) /\ AcceptRecord(grammar, Current)
    /\ grammar' = Accepted(grammar, Current)
    /\ LET batch == IF Current.type = "event" /\ grammar.line + 1 > saved
                    THEN Append(pending, grammar.line + 1) ELSE pending
       IN IF Len(batch) >= BatchSize
          THEN Flush(batch, "reading") /\ pending' = <<>>
          ELSE pending' = batch /\ UNCHANGED <<log, quarantine, outcome>>
    /\ UNCHANGED <<trace, saved, stops>>

\* A record that breaks the grammar ends the replay: the batch in memory is dropped.
RefuseRecord ==
    /\ Reading /\ Current.type # "blank"
    /\ ~(CheckPosition(grammar, Current) /\ AcceptRecord(grammar, Current))
    /\ outcome' = "failed" /\ pending' = <<>>
    /\ UNCHANGED <<trace, grammar, log, quarantine, saved, stops>>

\* The framing is required before the last batch is appended.
EndOfTrace ==
    /\ outcome = "reading" /\ grammar.line = Len(trace)
    /\ IF Finish(grammar)
       THEN Flush(pending, "saving")
       ELSE outcome' = "failed" /\ UNCHANGED <<log, quarantine>>
    /\ pending' = <<>>
    /\ UNCHANGED <<trace, grammar, saved, stops>>

SaveLine ==
    /\ outcome = "saving"
    /\ saved' = grammar.line /\ outcome' = "idle"
    /\ UNCHANGED <<trace, grammar, pending, log, quarantine, stops>>

\* The process stops between two transactions and the trace is replayed.
Stop ==
    /\ outcome \in {"reading", "saving"} /\ stops < MaxStops
    /\ stops' = stops + 1 /\ outcome' = "idle" /\ pending' = <<>>
    /\ UNCHANGED <<trace, grammar, log, quarantine, saved>>

Next == StartReplay \/ ReadBlank \/ ReadRecord \/ RefuseRecord \/ EndOfTrace \/ SaveLine \/ Stop

Spec == Init /\ [][Next]_vars

(***************************************************************************)
(* What a trace should look like, without the reader.                      *)
(***************************************************************************)

Content == SelectSeq(trace, LAMBDA r : r.type # "blank")

Inputs == {n \in 1..Len(Content) : Content[n].type \in {"event", "model_activation"}}

WellFramed ==
    LET c == Content
        m == Len(c)
    IN /\ m >= 2 /\ c[1].type = "runtime_config" /\ c[m].type = "trace_end"
       /\ \A n \in 1..m : c[n].ok
       /\ Inputs = 2..(m - 1)
       /\ \A n \in Inputs : c[n].type = "event" => c[n].time <= c[n].at
       /\ \A i, j \in Inputs : i < j => c[i].at < c[j].at
       /\ \A i \in Inputs : c[i].at < c[m].at

EventLines == SelectSeq([n \in 1..Len(trace) |-> n], LAMBDA n : trace[n].type = "event")

Acceptable == WellFramed /\ Admitted(EventLines)

\* The log and the quarantine hold what the first k events of the file leave:
\* the first event of every identifier, and a row for every identifier under
\* which another event came.
Recorded(k) ==
    LET events == SubSeq(EventLines, 1, k)
        first(id) == CHOOSE n \in ToSet(events) : trace[n].id = id /\ \A m \in ToSet(events) : trace[m].id = id => n <= m
    IN  /\ ToSet(log) = {first(trace[n].id) : n \in ToSet(events)}
        /\ quarantine = {trace[n].id : n \in {m \in ToSet(events) : ~SameEvent(m, first(trace[m].id))}}

\* The replay accepts exactly the traces that are well framed and whose events
\* the log admits, although it checks them record by record and batch by batch,
\* and the log follows the file: the lines of a checkpointed trace are all
\* accounted for, each event once and in the order of the file, whatever stops
\* came before; a refused trace has left whole batches only (replaySimulatorTrace,
\* Append).
TraceFaithful ==
    /\ \A i, j \in 1..Len(log) : i < j => log[i] < log[j]
    /\ saved > 0 => Acceptable /\ saved = Len(trace) /\ Recorded(Len(EventLines))
    /\ outcome = "failed" =>
          ~Acceptable /\ \E k \in 0..Len(EventLines) : k % BatchSize = 0 /\ Recorded(k)
====
