------------------------------ MODULE Records ------------------------------
(***************************************************************************)
(* What a run leaves behind and what the dashboard makes of it: the rows   *)
(* logging_node writes when a run ends (pipeline/logging_agent.py), the    *)
(* events of the toasts (pipeline/live_events.py), the JSONL logs of the   *)
(* two deciding nodes, and the read side of the API: statistics, recent    *)
(* detections, failures, logs, node lights and notifications               *)
(* (api/routers, api/pipeline_stats.py) with the page that polls it        *)
(* (frontend/src/App.jsx).                                                 *)
(*                                                                         *)
(* Several processes write at once: the polling loop, the demo scenarios   *)
(* and the threads of the API that resume approved runs.                   *)
(***************************************************************************)
EXTENDS Naturals, Sequences, FiniteSets, FiniteSetsExt, SequencesExt

CONSTANTS Runs,
          ResourceIds,
          GROUPING_WINDOW,  \* of the log view, in units of the clock
          PAGE,             \* events one poll of the page returns
          MaxNow,           \* bound of the clock
          MaxEvents,        \* bound of the events; from then on the database is away
          Overlapping,      \* two inserts of events may overlap
          Baselines         \* what the first poll of the page may get: TRUE, an answer

ASSUME RecordsAssumption == /\ PAGE \in Nat \ {0}
                            /\ {GROUPING_WINDOW, MaxNow, MaxEvents} \subseteq Nat

VARIABLES
    run,        \* run[r]: what is left in the state of run r
    rows,       \* agent_runs with their agent_steps, the latest last
    events,     \* event_ids committed to pipeline_events
    nextId,     \* the next value of the SERIAL column
    resuming,   \* _resuming_thread_ids of the API process
    classLog, decisionLog,   \* the two JSONL files
    now,
    page        \* the browser: its cursor and the events it has yet to toast

logs == <<classLog, decisionLog, now>>
recordsVars == <<run, rows, events, nextId, resuming, logs, page>>

Nodes == {"detection", "classification", "decision", "action", "qa"}

NewRun(x) == [resource |-> x, at |-> "start", flag |-> FALSE, ran |-> {}, passed |-> FALSE,
           rollbacks |-> 0, event |-> 0]

RecordsInit ==
    /\ \E about \in [Runs -> ResourceIds] : run = [r \in Runs |-> NewRun(about[r])]
    /\ rows = << >> /\ events = {} /\ nextId = 1
    /\ resuming = {}
    /\ classLog = << >> /\ decisionLog = << >> /\ now = 0
    /\ page = [poll |-> "first", cursor |-> 0, due |-> {}]

----------------------------------------------------------------------------
(* The run, node by node.                                                  *)

\* run r has been through nodes and goes on to the next
Done(r, nodes, next, new) ==
    run' = [run EXCEPT ![r] = [new EXCEPT !.at = next, !.ran = @ \cup nodes]]

Detection(r) ==
    /\ run[r].at = "start"
    /\ \E flag \in BOOLEAN :
         Done(r, {"detection"}, IF flag THEN "classification" ELSE "logging",
              [run[r] EXCEPT !.flag = flag])
    /\ UNCHANGED <<rows, events, nextId, resuming, logs, page>>

Entry(r) == [run |-> r, time |-> now + 1]

\* Only a judgement of the LLM is written to the log of the classification.
Classification(r) ==
    /\ run[r].at = "classification"
    /\ Done(r, {"classification"}, "decision", run[r])
    /\ \/ UNCHANGED <<classLog, now>>
       \/ now < MaxNow /\ now' = now + 1 /\ classLog' = Append(classLog, Entry(r))
    /\ UNCHANGED <<rows, events, nextId, resuming, decisionLog, page>>

\* Every decision is written, a rule's as well as the LLM's.
Decision(r) ==
    /\ run[r].at = "decision" /\ now < MaxNow
    /\ Done(r, {"decision"}, "emit", run[r])
    /\ now' = now + 1 /\ decisionLog' = Append(decisionLog, Entry(r))
    /\ UNCHANGED <<rows, events, nextId, resuming, classLog, page>>

\* The approval gate after the decision; the router after QA.
AfterEvent(r) ==
    IF "qa" \notin run[r].ran
      THEN {"action", "held"}
      ELSE {IF run[r].passed \/ run[r].rollbacks >= 2 THEN "logging" ELSE "action"}

\* _emit: the INSERT takes its id at once, others see the row after the commit.
Insert(r) ==
    /\ run[r].at = "emit" /\ nextId <= MaxEvents
    /\ Overlapping \/ \A q \in Runs : run[q].at # "commit"
    /\ run' = [run EXCEPT ![r].at = "commit", ![r].event = nextId]
    /\ nextId' = nextId + 1
    /\ UNCHANGED <<rows, events, resuming, logs, page>>

Commit(r) ==
    /\ run[r].at = "commit"
    /\ events' = events \cup {run[r].event}
    /\ page' = IF page.poll = "first" THEN page
                                        ELSE [page EXCEPT !.due = @ \cup {run[r].event}]
    /\ \E next \in AfterEvent(r) : run' = [run EXCEPT ![r].at = next, ![r].event = 0]
    /\ UNCHANGED <<rows, nextId, resuming, logs>>

\* The database is away: the event is lost, the run goes on.
EmitFails(r) ==
    /\ run[r].at \in {"emit", "commit"}
    /\ \E next \in AfterEvent(r) : run' = [run EXCEPT ![r].at = next, ![r].event = 0]
    /\ UNCHANGED <<rows, events, nextId, resuming, logs, page>>

Click(r) ==
    /\ run[r].at = "held" /\ r \notin resuming
    /\ resuming' = resuming \cup {r}
    /\ UNCHANGED <<run, rows, events, nextId, logs, page>>

\* The resumed gate is done: only now is the checkpoint no interrupt any more.
Resume(r) ==
    /\ run[r].at = "held" /\ r \in resuming
    /\ run' = [run EXCEPT ![r].at = "action"]
    /\ UNCHANGED <<rows, events, nextId, resuming, logs, page>>

\* action_node and qa_node; nothing of what is modelled here lies between them.
ActionAndQa(r) ==
    /\ run[r].at = "action"
    /\ \E ok \in BOOLEAN :
         Done(r, {"action", "qa"}, "emit",
              [run[r] EXCEPT !.passed = ok, !.rollbacks = IF ok THEN @ ELSE @ + 1])
    /\ UNCHANGED <<rows, events, nextId, resuming, logs, page>>

----------------------------------------------------------------------------
(* logging_node.                                                           *)

\* Mutant: one rollback is enough for the status of a run that failed.
FailedAtOnce(s) == IF s.rollbacks >= 1 THEN "rollback_exhausted" ELSE "completed"

RunStatus(s) ==
    IF s.rollbacks >= 2 THEN "rollback_exhausted"
    ELSE IF "qa" \in s.ran /\ ~s.passed THEN "failed_qa" ELSE "completed"

\* A step is "skipped" when all it would have written is None. The outputs of
\* the decision and of QA hold values every run starts with.
StepRecords(s) == {n \in Nodes : n \in {"detection", "decision", "qa"} \/ n \in s.ran}

RunRecord(r) == [run |-> r, flag |-> run[r].flag, status |-> RunStatus(run[r]),
                 steps |-> StepRecords(run[r])]

\* One transaction; when it fails the error is printed and the run ends without it.
Logging(r) ==
    /\ run[r].at = "logging"
    /\ rows' \in {rows, Append(rows, RunRecord(r))}
    /\ run' = [run EXCEPT ![r].at = "over"]
    /\ resuming' = resuming \ {r}
    /\ UNCHANGED <<events, nextId, logs, page>>

\* A process dies; a run whose gate was not done stays with its interrupt.
Die(r) ==
    /\ run[r].at \notin {"start", "over", "dead"}
    /\ run[r].at = "held" => r \in resuming
    /\ run' = [run EXCEPT ![r].at = IF @ = "held" THEN "held" ELSE "dead", ![r].event = 0]
    /\ resuming' = resuming \ {r}
    /\ UNCHANGED <<rows, events, nextId, logs, page>>

\* An LLM is slow: time passes between the two entries of a run.
Tick == /\ now < MaxNow
        /\ \E r \in Runs : run[r].at = "decision"
        /\ now' = now + 1
        /\ UNCHANGED <<run, rows, events, nextId, resuming, classLog, decisionLog, page>>

----------------------------------------------------------------------------
(* The read side.                                                          *)

\* list_pending_approvals, as long as no 300 newer checkpoints hide a run
Pending == {r \in Runs : run[r].at = "held" /\ r \notin resuming}

FailureStatuses == {"failed_qa", "rollback_exhausted"}

Count(Test(_)) == Cardinality({i \in DOMAIN rows : Test(rows[i])})

RunCounts ==
    [detected  |-> Count(LAMBDA w : w.flag),
     completed |-> Count(LAMBDA w : w.flag /\ w.status = "completed"),
     failed    |-> Count(LAMBDA w : w.flag /\ w.status \in FailureStatuses)]

FinishedItems ==
    {[run |-> w.run, display |-> IF w.status = "completed" THEN "done" ELSE "failed"] :
       w \in {v \in ToSet(rows) : v.flag}}

PendingItems == {[run |-> r, display |-> "saving"] : r \in Pending}

RecentDetections == PendingItems \cup FinishedItems

Failures == {w.run : w \in {v \in ToSet(rows) : v.status \in FailureStatuses}}

\* Mutant: the lights show the steps as they were recorded.
LightsAsRecorded == Last(rows).steps

\* The lights of the status page, from the latest run. The steps a run without an
\* anomaly never took are put out here, whatever logging_node recorded.
NodeLights ==
    LET latest == Last(rows) IN
    {n \in latest.steps : latest.flag \/ n = "detection"}

\* Mutant: the nearest decision of the resource, be it older or newer.
MatchEitherWay(acc, c) ==
    LET free == {d \in ToSet(decisionLog) \ acc.used :
                    /\ run[d.run].resource = run[c.run].resource
                    /\ d.time <= c.time + GROUPING_WINDOW}
        first == CHOOSE d \in free : \A e \in free : d.time <= e.time
    IN IF free = {} THEN acc
       ELSE [used |-> acc.used \cup {first}, cards |-> acc.cards \cup {<<c, first>>}]

\* get_logs: an entry of the classification takes the first decision of its
\* resource within the window that no other entry has taken.
Match(acc, c) ==
    LET free == {d \in ToSet(decisionLog) \ acc.used :
                    /\ run[d.run].resource = run[c.run].resource
                    /\ c.time <= d.time /\ d.time <= c.time + GROUPING_WINDOW}
        first == CHOOSE d \in free : \A e \in free : d.time <= e.time
    IN IF free = {} THEN acc
       ELSE [used |-> acc.used \cup {first}, cards |-> acc.cards \cup {<<c, first>>}]

\* what the first n entries of the classification have taken
Matched[n \in 0 .. Len(classLog)] ==
    IF n = 0 THEN [used |-> {}, cards |-> {}] ELSE Match(Matched[n - 1], classLog[n])

Grouped == Matched[Len(classLog)].cards

----------------------------------------------------------------------------
(* The page polls for events and toasts what is new.                       *)

\* The PAGE events after the cursor, oldest first.
NewEvents(cursor) ==
    LET newer == {i \in events : i > cursor} IN
    {i \in newer : Cardinality({j \in newer : j < i}) < PAGE}

\* The first poll sets the cursor to the latest id and toasts nothing. A response
\* without db_latest_id, no database or no table yet, leaves it undefined.
Baseline ==
    /\ page.poll = "first"
    /\ \E answered \in Baselines :
         page' = IF answered
                   THEN [page EXCEPT !.poll = "next", !.cursor = Max(events \cup {0})]
                   ELSE [page EXCEPT !.poll = "undefined"]
    /\ UNCHANGED <<run, rows, events, nextId, resuming, logs>>

\* Mutant: the cursor jumps to the latest event of the table.
LatestInTable(new, cursor) == Max(events \cup {cursor})

LatestId(new, cursor) == IF new = {} THEN cursor ELSE Max(new)

\* after_id=undefined is refused (422) and the page ignores the error.
PollEvents ==
    /\ page.poll = "next"
    /\ LET new == NewEvents(page.cursor) IN
       /\ new # {}
       /\ page' = [page EXCEPT !.due = @ \ new, !.cursor = LatestId(new, @)]
    /\ UNCHANGED <<run, rows, events, nextId, resuming, logs>>

Steps(r) == \/ Detection(r) \/ Classification(r) \/ Decision(r) \/ Insert(r) \/ Commit(r)
            \/ EmitFails(r) \/ Click(r) \/ Resume(r) \/ ActionAndQa(r) \/ Logging(r)
            \/ Die(r)

RecordsNext == (\E r \in Runs : Steps(r)) \/ Tick \/ Baseline \/ PollEvents

RecordsSpec == RecordsInit /\ [][RecordsNext]_recordsVars
=============================================================================
