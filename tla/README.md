# A TLA+ verification of finops-auto-recovery

The program watches AWS resources, detects anomalies of cost or security,
decides on a corrective action, asks an administrator when the action is risky,
carries the action out, checks its effect and rolls it back when the check
fails. Around this pipeline there are an admin API with a dashboard, a rule book
that learns from the pipeline's own judgements, demo scenarios, and scripts that
set up real AWS resources to measure it. This directory holds TLA+ modules for the
parts whose steps and failures interact, TLC configurations that check them on small
instances, and proofs that TLAPS checks for instances of every size.

Contents: 1 the system, 2 the modules, 3 how they correspond to the code,
4 the runs, 5 the proofs, 6 disagreements found, 7 what is left out, 8 what is next.

## 1. The system

| Component | State it keeps | Operations | Interacts with |
|---|---|---|---|
| Pipeline graph (`pipeline/graph.py`) | `PipelineState` of each `thread_id`, in the LangGraph checkpointer | nodes detection, classification, decision, notify_gate, approval_gate, action, qa, logging; routers after detection and qa | everything below |
| Detection (`pipeline/detection_agent.py`, `cloudwatch_client.py`) | the forest and its training buffer, two files under `models/` | z-score, low utilisation, error rate, forest; adopt a window, retrain | every process that detects |
| Classification, decision (`classification_agent.py`, `decision_agent.py`, `rule_engine.py`) | rule book in memory, one JSONL log each | rule, LLM with several keys, fallback; savings, risk, approval flag, resize target | rule book, LLM, AWS reads |
| Approval gate, notification | `requires_approval`, `selected_action` | `interrupt()`, approve, reject | admin API |
| Action (`action_agent.py`, `inbound_handlers.py`) | `pre_action_snapshot`, `action_result`; the AWS resource itself | snapshot, execute (1 to 4 AWS calls), roll back | AWS |
| Rate rules and blacklist (`inbound_handlers.py`) | rules of Web ACLs, guarded by a LockToken | apply, remove, create and associate, clean up | AWS WAF, other callers |
| QA (`qa_agent.py`) | `qa_passed`, `rollback_count`, the two logs | verdict by rule, metric or LLM; rollback; release of the rate rule | action, rule book, whitelist |
| Logging, live events (`logging_agent.py`, `live_events.py`) | PostgreSQL rows of runs, steps, actions, events | write at the end of a run | dashboard, promotion queues |
| Admin API: approvals (`api/routers/approvals.py`, `api/graph_runtime.py`) | `_resuming_thread_ids` in memory | list the queue, approve, reject, resume in a daemon thread | checkpointer, graph |
| Admin API: rules and promotions (`rule_promoter.py`, `decision_rule_promoter.py`, `routers/promotions.py`, `rules.py`) | `pending_rule_promotions.json`, the rule files, the engine of each process | queue, approve, reject, edit, reload | polling process, command line |
| Admin API: control panel (`pipeline_process.py`, `settings.py`, `config/`) | pid file, policy file, live status | start, stop, status, patch settings | polling loop, demo scenarios |
| Admin API: read side (`routers/status.py`, `recent.py`, `failures.py`, `logs.py`, `notifications.py`, `pipeline_stats.py`) | the page's cursor | count, list, join, light the nodes, toast | rows, logs, checkpoints |
| Polling loop (`playground/run_full_pipeline.py`) | none | one new thread per resource and cycle | graph, control panel |
| Demo console and scenarios (`routers/demo_attack.py`, `playground/live_demo`, `real_demo`) | `_runs`, manifests, AWS resources | start, reset, setup, run, teardown | control panel, approvals |
| Throttle trials (`playground/lambda_throttle_*`) | snapshot files, reserved concurrency | limit, measure, restore | the pipeline acts on the same functions |
| Capacity and traffic trials (`autoscaling_edos_*`, `lambda_spike_edos_*`) | Auto Scaling groups, one load balancer, a manifest | set up, jitter, spike, surge, restore, tear down | one quota, one load balancer |
| Comparison (`no_langgraph/`) | a checkpoint file | the pipeline assembled by hand and as a LangGraph | itself in another process |

The polling loop, the API, the demo scenarios and the command lines are separate
processes. Nothing in the source keeps two runs off the same AWS resource; a run that
waits for approval may be resumed hours later. Almost every file is read whole,
changed in memory and written whole, without a lock, by more than one process.

What is hard in this code, and what therefore has to hold:

- **Approval.** Both answers clear `requires_approval`; a rejected run differs
  only in `selected_action`, and the action node is entered again on a retry. No
  run may touch AWS with a MED or HIGH action without its own approval.
- **Retry.** The loop qa -> action is bounded by a counter that another node
  increments. A run acts twice at most and the recorded status agrees with it.
- **Rollback and audit.** A snapshot is read, calls are made one at a time, any may
  fail, the instance may be starting or stopping when the rollback looks at it;
  `action_result` is annotated by the rollback and replaced by the retry. What a run
  claims about the resource is true.
- **Resumption.** Clicks, polling, raising nodes, a checkpoint written behind
  the step it records, and a restart of the API: one resume at a time, one
  execution per approval, no run lost from the queue.
- **Learning.** What becomes a rule was really verified, once, although queue, rules and
  logs are rewritten by three processes.
- **Training.** A window is adopted once and not forgotten by the next training,
  although every process loads and saves the same two files.
- **Judgement.** z-score, forest, rules, savings and verification look at the same 30
  points with different thresholds; they must not contradict each other.
- **Process control.** A pid in a file is all that is left of a loop after a restart.
- **WAF.** A rule list has no partial update: an edit may undo another's.
- **Dashboard.** Rows, events, logs and marks are written at different times, and read
  by pages that know only ids and times.
- **Scripts.** They change real resources, may die anywhere, and must leave a trace
  that says how to put things back.

`PROJECT.json` lists every hazard with its line and the properties that cover it.

## 2. The modules

| Module | Role |
|---|---|
| `Policy` | the decision tables and `resolve_risk_level`, as operators |
| `AwsResource` | resource configurations, the AWS calls the code makes, and the call sequences of each action and rollback |
| `Recovery` | the graph as a state machine: one action per node and per AWS call, for a set of threads on a set of resources |
| `RecoveryProperties`, `RecoveryInvariant` | its properties, and the inductive invariants `IInv` and `ClaimsInv` |
| `RecoveryContract`, `RecoveryRefinement` | what a run promises at its least (undecided, held, cleared, acting, undoing, settled, recorded), and the mapping of `Recovery` onto it |
| `RecoveryProofs` | TLAPS proofs about all of these |
| `Approval`, `ApprovalProperties`, `ApprovalProofs` | resumption through the API, at the grain of marks, checkpoints and process restarts |
| `Promotion`, `PromotionProperties`, `PromotionProofs` | logs, queue and rule book as files of three writers |
| `Control`, `ControlProperties` | start, stop, status, settings, the polling loop as a process |
| `Detection`, `DetectionProperties` | model file and training buffer under several processes |
| `Signals`, `RuleEngine`, `Costs`, `Judgement` | pure operators: the signals of a window; rule matching, time windows and whitelist; cost series and savings; LLM conversations, fallbacks and QA verdicts |
| `Watch`, `WatchProperties` | one resource whose readings slide through the window, judged by those operators |
| `WebAcl`, `WebAclProperties`, `WebAclProofs` | the WAF handlers, one AWS call at a time |
| `Records`, `RecordsProperties` | what runs leave behind and what the dashboard makes of it |
| `ThrottleTrial`, `TrafficTrial`, `ScalingTrial`, `LiveDemo` | the scripts, with their properties |
| `Comparison` | the two assemblies of `no_langgraph/` |
| `ConsoleProofs` | TLAPS proofs about `Control` and `Records`, the two sides of the console |
| `DetectionProofs` | TLAPS proofs about `Detection`, `Comparison` and `Watch` |
| `ScriptsProofs`, `TrialsProofs` | TLAPS proofs about the scripts: `ThrottleTrial` and `LiveDemo`; `TrafficTrial` and `ScalingTrial` |
| `MCRecovery`, `MCPromotion`, `MCControl`, `MCDetection`, `MCWebAcl`, `MCTrials`, `MCScripts` | instances for TLC; `Approval` and `Records` need none, their configurations name the module of the properties |

How they are composed. `Recovery` extends `AwsResource`, which extends `Policy`;
`Watch` extends `Judgement`, which brings in the other operator modules. `ScalingTrial`
extends `TrafficTrial`: the two share the account's quota of instances. `MCScripts` puts
`LiveDemo` beside `ThrottleTrial`, and `MCDetection` puts `Comparison` and `Watch`
beside `Detection`; these share nothing, a variable `part` chooses which of them a
behaviour is of.

`Recovery` and `Approval` look at the two sides of the same gate: `Recovery` treats a
resumed run as one thread that goes on, `Approval` treats the nodes after the gate as
three steps and looks at who runs them and what is saved. `Records` and `Promotion` look
at the same run once more, for what it writes.

Definitions whose comment begins with "Mutant" (`qa_router_CountsFromOne`,
`FreshToken`, `NobodyNeeds`, ...) are plausible bugs that the properties are shown to
catch; no other definition uses them.

## 3. Correspondence with the code

**Recovery.** `pc[t]` is the node of thread `t`. The action node is the states
`action` (about to run) and `execute` (AWS calls left); the QA node is `qa` and
`rollback`. `state[t]` holds the fields of `PipelineState` that a later step
reads. `todo[t]` is the rest of the sequence of AWS calls of the running
function, `result[t]` the status it will return; `cfg` is AWS. `record[t]` is
what `logging_node` committed. `answer`, `attempts` and `disturbed` are history
variables, read by properties only.

| Code | Actions |
|---|---|
| `detection_node`, `classification_node` | `Detection`, `Classification`: any verdict |
| `decision_node` | `Decision`: any action of the narrowed set, its risk, the approval flag, the resize target |
| `notify_gate_node`, `approval_gate_node` | `NotifyGate`, `PassGate`, `Approve`, `Reject` |
| `action_node` | `ActionSkip`, `ActionHold`, `ActionSnapshot`, then `CallSucceeds` / `CallFails` for each call, `ActionEnd` |
| `qa_node` | `QaWhitelisted`, `QaPass` (with the release of the rate rule), `QaFail`, then the calls of the rollback, `RollbackEnd` |
| `logging_node` | `Logging`, whose rows may be lost with the database |
| process death, uncaught exception | `Crash` |
| AWS finishing a start or stop | `Settle` |

A call is a name; what it changes (`Apply`), when AWS accepts it (`Accepts`) and
when a start or stop completes (`Settled`) are the external assumptions:
`stop_instances` is refused while pending, `start_instances` while stopping,
`modify_instance_attribute` unless stopped; a waiter either sees its state or
fails. An instance type is its position in the price table. Both compiled graphs
are covered: `app` goes from decision straight to action, `approval_app` through
the gate. Simplifications: `describe` calls of the rollback are read together with
its start; a failing call has no effect on AWS (a call that took effect and whose
answer was lost is not modelled); the 300 s wait of the QA node is left out, so
the model has every timing of it and more. `ForcePass` is the set of actions a QA rule
passes unseen: `{"Block"}` in the shipped rule book (QA-005), which an administrator
can disable.

**Approval.** `saved[t]` counts the nodes of the resumed run that are in the
checkpoint (0: still interrupted). `resuming` is `_resuming_thread_ids`. `job[r]`
is a click and the daemon thread it starts. `Click` is `mark_resuming`, `Lookup`
the `get_state` after it, `LookupRaises` the same call raising; `Open`, `Gate`,
`Act`, `Verify` are the background invocation, each of which may raise where the
code may; `Save` is the checkpointer, which writes behind the step;
`Finally` unmarks. `Restart` empties the process memory. A real checkpointer may
still write inside a node that acts; the model keeps one save per node.

**Promotion.** `log`, `pending` and `rules` are the JSON files; reading one into a copy
and writing the copy back are two steps, and `open(..., "w")` empties the file before it
is filled, so that a reader may find it torn. `run[t]` asks the LLM, appends to the log,
has QA write its verdict into it, then runs the promoters of `logging_node`; `req[r]` is a
click (approve, reject, create, update, delete, toggle, whitelist) or the promoter's
command line. `engine` is the `RuleEngine` of the polling and of the API process.
`load_rules` has no lock and the handlers run side by side in a thread pool: per file
(`NextFile`), `ReloadRead` reads it, and raises if it is torn, and `ReloadInstall` assigns
what was read to the engine. `LoadFile` and `PublishEngine` are the first use of an engine
(`get_rule_engine`), which nobody sees until it is complete; `reload_rules` before that does
nothing. The rules of QA are left out: nobody writes their file. `Restart` kills a process
between any two steps. `verdicts`, `clash`, `torn` and `overtaken` are history variables; the
last one says that a file was written while a reload or a first load of the API held what it
had read of it (`InHand`).

**Control.** A request is a thread of the server: `StartCheck`, `StartLaunch`,
`StartRecord`, `StopKill`, `StopForget`, and `ReadPolicy`, `TruncatePolicy`,
`DumpPolicy` for each key of a patch. `pidFile`, `policy` and `live` are the
files, `handle` the `Popen` object that only this server process has. `LoopCycle` and
`LoopFails` are the polling loop, `ScenarioBegins` / `ScenarioEnds` a demo, which writes
its own pid over the loop's. `Restart` and `Crash` are those of the server.

**Detection.** A window is its type and a number; a model is the set of windows it was
fitted on, so "the window was learnt" can be said. `proc[p]` is one call of
`detection_node` (`LoadCachedModel`, `JudgeWindow`, `TruncateBuffer`, `SaveTrainingBuffer`,
`TruncateModel`, `SaveModel`, `ResetCount`): load, score, adopt the window, save, refit
when `RETRAIN_EVERY_N_NEW_WINDOWS` are pending. A file between truncation and fill reads
as no file. What the forest answers is any Boolean.

**Watch.** The only module with numbers for data. `window` is a series per metric, of
`N_POINTS` five-minute points; `Arrive` shifts it, `Poll` runs detection, classification,
decision and action on it, `Verify` runs QA one period later on the new window.
`Signals` has the three statistical checks and the triggers, with the code's thresholds
in integers (a z-score is compared by its square). `RuleEngine` has priority order,
thresholds, sustained fractions, windows over midnight and event periods. `Costs` has the
reconstruction of running time and cost series and the savings. `Judgement` has what a
list of LLM keys makes of a list of answers, the fallback table, the clamp of a saving and
the verdict rules. The forest is any scoring of the points by -1 or 1.

**WebAcl.** A handler is its calls in order: `get`, `update`, `associate`, `create`,
`getForCleanup`, `cleanup`, `listResources`, `disassociate`, `delete`, and those of the
blacklist. `seen[w]` is what was read and with which token; `update` is refused when the
token has moved on, retried `MAX_WAF_RETRY` times; every call may raise.

**Records.** `Steps(r)` are the points where a run writes: two log entries, an event, a
row with its steps. Runs overlap and die between any two of these, and time passes between
the two entries of a run. An event gets its id (`nextId`) before it is committed; the page
(`Baseline`, `PollEvents`) asks for ids above its cursor. `RunCounts`, `RecentDetections`,
`Failures`, `NodeLights` and `Grouped` are the queries of the routers.

**The scripts.** `ThrottleTrial`: `concurrency[f]`, a snapshot file per script and
function, a thread per function; `Main`, `Trial` and `Restore` are the script, its threads
and `--restore`; the pipeline may throttle the same function. `TrafficTrial`: groups,
target groups, listeners by port and the manifest; a surge at a port is counted for the
group its listener forwards to. `ScalingTrial`: desired capacity, the quota check, the
jitter thread, spike and restore. `LiveDemo`: the console's `_runs`, scripts with their
stages, manifests, teardowns. A boolean constant stands for care the code leaves to
the operator (`Careful`, `Careless`, section 6).

**Comparison.** `worker[w]` is a process that starts or resumes the checkpointed run by
hand, `twin` the LangGraph. `run_action` of this directory never raises; the model lets
it, for the retry decorator and the `RetryPolicy` that were written for it.

## 4. The runs

| Run | Instance | Shows |
|---|---|---|
| `RecoverySingle` | one run over an instance (3 types), function, group, bucket or database in every state worth telling apart, both graphs, 1 crash, `ForcePass = {}` | the inductive invariant `ClaimsInv`; a rollback that reports success restores and a success row is true (`ClaimsAreTrue`); runs that acted end; a rolled-back instance runs again; the contract is met |
| `RecoveryContention` | two runs on one running instance, 2 types, at most 3 tries in all | approval is per run; claims hold until the other run interferes |
| `RollbackOfTransition` | one run, one instance | violated: section 6 |
| `ApprovalResume` | 3 clicks, 2 runs, 1 restart | one resume per run, one execution per approval and restart, every background resume ends with its run unmarked |
| `Promotion` | 2 runs of one pattern, 2 requests of any kind, at most two of the four at work in a scene, `MinCount` 2, 1 restart | what is queued or promoted rests on verified runs; approved once; the API's engine follows the files unless a load of it was overtaken; a frequent pattern is queued |
| `StaleEngine` | the same | violated: section 6 |
| `Control` | one administrator, 2 types, 3 processes, any restarts | a loop is seen and unique, scans what is enabled, ends at stop; a quiet system is reported as quiet |
| `Detection` | loop and demo, 2 types, 3 windows, refit every 3, 2 kills, 1 overlap; apart from it 3 processes on one checkpoint beside the LangGraph; apart from both one resource of each type under the shipped rule book, windows of 30 points with one jump (a bucket: two) | a window is adopted once, none is forgotten, the frozen seed stays; both assemblies end alike; the EDoS rule needs the forest, a saving is sound, a fresh instance is not judged idle |
| `WebAcl` | 2 callers, 3 calls, 2 load balancers, 2 Web ACLs, 2 rules and the blacklist | an edit changes its own rule only; priorities stay distinct |
| `Records` | 2 runs, 2 resources, 3 events, pages of 1, a clock of 5 | node lights, status, cards and toasts tell what happened |
| `Trials` | capacity and traffic trials, groups of one or none of each label, quota 7 | a surge is counted at home, a checked run has its instances, a spike is measured |
| `Scripts` | 3 throttle scripts; apart from them 3 scenarios, 2 console runs, 1 terminal, 2 instances | a limit is on record and put back; one script per scenario, which keeps its resource; no unknown instance; the EDoS group has room |

Why the bounds are enough.

- Recovery: tries per run are bounded by the code itself (2); an instance type matters
  only as same, one lower or another, which 3 tiers give; interference between runs needs
  two. A crash makes a thread stand still, which with two threads interleaving covers.
  Three tries let one run retry while the other acts.
- Approval: a double execution needs two clicks and a restart; the third click covers two
  clicks racing after it.
- Promotion: every clash of files needs two writers; an identifier collides only when the
  queue is two entries long, which the shipped queue is. A stale engine needs a writer that reloads
  and a slower load, which two requests, or one beside the first load, are.
- Control: a second loop, or a pid reused by a scenario, needs two processes, the third is
  the loop started afterwards. One administrator is a real proviso: two can start two loops.
- Detection: with three windows a type's buffer fills and drops its oldest; one overlap
  is enough to bring back an older file under a call.
- Watch: 30 points and all thresholds are the code's own; what is small is the set of
  readings (three per type, chosen on both sides of the thresholds) and the number of
  jumps. Every position of the jump occurs.
- WebAcl: one retry and one association retry exercise both loops; a lost edit needs two
  callers, the third call lets one of them come back to a rule list that has changed.
- Records: a page of one event cuts an answer as soon as two events are due; the clock
  reaches beyond the grouping window of 2.
- Trials, Scripts: a group of each label is what tells ports, quota shares and tags apart;
  the quota of 7 is close to what a run asks for beside the groups of the others.

Deadlock is not checked. The system really stops: every run, request and script comes to its end, an unanswered approval rests for
ever, and the bounds on clicks, calls, processes, events and runs end the rest.

Symmetry is used for threads (`RecoveryContention`), runs and resources (`Records`), runs and
requests (`Promotion`, `StaleEngine`), and console runs and instances (`Scripts`); none of these runs checks liveness.

Fairness. `Recovery!FairSpec` assumes that a running thread takes its next step
(the executor of a graph does not stop between nodes; a waiter or call always
returns or raises) and that AWS completes a start or stop; nothing is assumed of
administrators and crashes. `Approval!FairSpec` assumes that a request or daemon
thread goes on, not that anybody clicks. `Control!FairSpec` assumes that a handler thread
goes on and that time passes, so that a file or a row becomes old; not that anybody
presses a button or that a loop ends.

## 5. The proofs

Every invariant and action property that a passing run checks is also a theorem. All
theorems hold for constants of any size under the named assumptions of the modules
(`TierAssumption`, `RecoveryAssumption`, `ApprovalAssumption`, `ControlAssumption`,
`DetectionAssumption`, `PromotionAssumption`, `RecordsAssumption`, `ThrottleAssumption`,
`LiveDemoAssumption`, `TrafficAssumption`, `ScalingAssumption`, `WebAclAssumption`,
`WatchAssumption`, `RuleBookAssumption`). They state types, that the runs of `Promotion`
are finitely many and none of them a request, that the run counts from one detection on
(`MinCount`), for `WebAcl` that administrators' rules have distinct priorities, and for
`Watch` that CLF-001 has the condition of the shipped rule book, by which most of the
newest points are high. A further proviso is a hypothesis of its theorem, named below.

**`RecoveryProofs`**: `Invariance` (`Spec => []IInv`), and from it `TypeCorrect`,
`ApprovalSafety` (`NoUnapprovedAction`) and `RetryBounded` (`RetryBound`, which no run
checks by itself: it follows from `IInv`). The properties are not inductive:
`NoUnapprovedAction` looks at `attempts`, while the reason a thread may act lies in what it
holds before: at every node from the gate on, a thread that has an action and no demand
for approval has a LOW risk or an approval (`ApprovalInv`). `RetryBound` needs the
exact relation between tries, rollbacks and node (`RetryInv`): before a try they
are equal, after it the tries are one ahead, and only a rollback closes the gap.
Both need that the calls a thread holds are calls its resource understands, with a
target and a snapshot of its type (`ProgramInv`), or `cfg` would leave its type.
Each action has a lemma per part of the invariant.

`ClaimsHold` (`ClaimsAreTrue`) has a second invariant on top, `ClaimsInv`: as long as no
other run has touched the resource, what a thread has done of its plan shows in the
resource, and the rest of the plan completes the action or the rollback. Per kind of
resource it names the configuration an execution starts from, where each call left in
`todo` leads, and the snapshot a rollback returns to. AWS finishing a start or a stop by
itself (`Settle`) and the release of a rate rule are the steps that move `cfg` outside of
a plan: `DriftKeeps` shows that the claims survive them.

`Refines`, `Spec => MeetsContract`: every step of the
graph maps to a step of `RecoveryContract` or to a stutter. The mapping
needs `SelectedInv` beside `IInv`: a thread past its decision has an action, and one that
executes, has executed or undoes it has one that waits for nobody. One lemma per action
names the contract action it maps to.

**`ApprovalProofs`**: `SingleResume` (`TypeOK /\ OneResumePerThread`, which is inductive: a
click starts work only on an unmarked run, all work is marked, and whoever unmarks a run
was its only worker) and `OneExecution` (`ActsOncePerApproval`). The second counts: each
execution belongs to an approval that reached the gate (`Fits`, per request) and a run
that was executed is found waiting again only if its request was lost in a restart
(`Counted`, per run).

**`WebAclProofs`**: `LockHolds`, `PrioritiesStayDistinct`, `NoLostRule` (`OwnRuleOnly`).
What carries them is the lock: rules read with the token a Web ACL still has are its rules
(`TokenIsCurrent`), so an accepted update changes only the handler's own rule, and a new
rule gets a priority above all that are there.

**`ConsoleProofs`**, control: `LoopStaysSeen` (`LoopIsSeen`), `EnabledAreScanned`
(`ScansWhatIsEnabled`) and `StopEndsWhatIsKnown` (`StopEndsTheLoop`), for one administrator
(`OneAdministrator`: at most one request thread is at work). `FileInv` is the reason:
outside of a start, a loop that is not lost is the process of the pid file; `HandlerInv`
says what a request between two of its steps has read and that it is still so.
Read side: `LightsShowWhatRan` and `ShownRight` follow from `RecordsInv`: where a run is
tells what it went through (`Path`), its row is written at its end, once, and the
items of the page are the rows one by one, so that counting either gives the same number.
`ToastsArrive` (`NoToastSkipped`) needs `ToastInv`: the cursor is behind every event the
page has not toasted and before the one that is not committed yet. It holds when inserts
do not overlap and the database answers the page's first poll (`Orderly`); section 6
says what happens else. `CardsAreOfOneRun` (`CardsOfOneRun`) has no such proviso: runs of one
resource overlap, die between their two lines and take as long as they like. `LogsInv` says
that each file has one line of a run at most and no two of one time, and that the
classifications are in order. The grouping of `logs.py` is a recursive function; a least counterexample
(`Solvable`) shows that it has the values its definition says. What an entry takes was
near it (`TakenWasNear`), so an entry before which no other run of the resource was judged
within the window finds its own decision free, and takes it unless another run's comes first
(`TakesItsOwn`); the entries after it change nothing of its card (`CardsStay`).

**`DetectionProofs`**: `AdoptsOnce` (`AdoptedOnce`): once a call has adopted its window it
never returns to the steps that adopt. `NoneForgotten` (`UnlearnedAreCounted`) and
`SeedStays` (`FrozenSeedStays`) rest on `FilesInv`. Its first part follows a count through
the two files: the copy a call saves is covered by the count it saves with it
(`CallCovered`), and the copy it fits is the one in the file. One kill may leave a buffer
without a model, and the cold start after it passes through a moment in which the files do
not agree; a second kill exactly there forgets windows, hence the premise `crashes <= 1` of
the property. `AssembliesAgree` (`EndsAlike`): for either assembly of `no_langgraph/`, the
step and the number of rollbacks determine everything else a run holds, whoever resumed it
from whatever checkpoint; at the end the rollbacks agree.

Over the window, `RuleDependsOnForest` (`RuleNeedsForest`), `SavingsStaySound`
(`SavingsAreSound`) and `FreshIsSpared` (`FreshInstanceIsSpared`) hold for any readings, rules,
whitelist, times and answers of the LLM; the 30 points and the thresholds are constants of the
code. The invariant (`WatchInv`) says that the window has 30 numbers of each metric; the
rest happens within the one step that runs the graph, and is arithmetic about its series. A
sum is what a guess of its partial sums says (`SumIs`), so a series with one jump, of `k`
points `a` and `30 - k` points `b`, has the sum `k * a + (30 - k) * b` (`SumOfJump`). The
alert then does not depend on `a` and `b`: a high point exceeds the limit if
`16 * k > 121 * (30 - k)`, a low one if `16 * (30 - k) > 121 * k`, and the last three all do
only for `k = 27` (`AlertAfterThree`). With three
high points of six CLF-001 has not come to its 60% (`AlertIsTooEarly`). The savings compare
quotients of those sums: the provisos that a rise is of two units or more (`RiseIsWorth`) and
that an instance to be resized was on all the time (`ResizeWithin`) are in the properties.

**`PromotionProofs`**: `TypeCorrect`; `VerifiedOnly` (`RestsOnVerified`): whatever is in a
log copy, a candidate list, a queue or a book, in a file or in somebody's memory, is as
frequent as the verified runs behind it (`Earned`), which never become fewer; so it does
not matter who overwrites whom. `EngineFollows` (`EngineFollowsRules`) takes two
invariants. While no write was cut short, a file is torn only while the request that
emptied it fills it (`TornInv`), so a reload that raises on it leaves a writer behind that
will reload after it. And unless it was overtaken, what a reload or a first load has in
hand is what the file holds, and the engine differs from a file only while a request that
has yet to come to that file in its reload is under way, or the command line wrote it
(`FollowInv`). `ApprovedOnlyOnce` (`ApprovedOnce`), for shipped files in
which no pattern waits twice or waits and is ruled already (`ShippedApart`, true of those
in `schema/rules`): while nobody was in a file at once, what an actor holds in memory is the
files plus its own change (`OnceInv`). `FrequentAreQueued` (`FrequentPatternQueued`): while
only runs are at work, the verdicts that were written are queued, or a run that still has
to queue them has not come to it (`QueuedInv`).

**`ScriptsProofs`**: `LimitsStayOnRecord` (`LimitIsOnRecord`) and `EndsPutBack`
(`EndPutsBack`), where nobody else limits a function, AWS deletes what it is told to and no
script starts over leftovers (`Undisturbed`); `ThrottleInv` says per thread what it has
found, saved and put back, and that a script at work is the only one. `OneScriptEach`
(`OneScriptPerScenario`) holds without a proviso: the console knows no two runs of one
scenario, even after their scripts ended (`RunsInv`). `RunsKeepTheirResource`,
`InstancesCanBeFound`, `GroupsHaveRoom`: with a careful operator (`Careful`), no teardown is
under way of a scenario that a script works on, an instance that is launched but
not on record is in the hands of the one script that prepares it, and the group of the
EDoS demo is extended before anything scales it (`CarefulInv`).

**`TrialsProofs`**: `SpikesAreMeasured` (`SpikeIsMeasured`): the jitter is told to stop
before the trial waits for it, and has stopped before the spike unless a call outlived the
wait (`slow`). `SurgesAreCountedAtHome` (`SurgeCountedAtHome`), with `Careful`: ports are an
injective function of the groups of one setup, and no listener is left of another.
`CheckedRunsHaveInstances` (`EnoughInstances`): what the quota check counted still stands
while the run is on (`Checked`), so the groups of the run together never ask for more than
the peak it counted. The instances are counted as a set of pairs of a group and a number,
and every pair that exists is one that was counted. It needs `High <= AnomalyCapacity`: the
check counts an anomaly group by its spike alone, and setup allows it
`max(anomaly_capacity, HIGH)` (`autoscaling_edos_trial.py:352`). As shipped
they are 2 and 3; `--anomaly-capacity 1` breaks it.

Only model-checked: liveness (`ActedRunsEnd`, `RolledBackInstanceRuns`,
`ResumeReleasesMark`, `QuietIsReported`): fairness and ENABLED are out of the prover's
reach.

## 6. Disagreements found

`RollbackOfTransition` refutes the docstring of `_rollback_ec2` ("restores the instance
with the stored snapshot", `action_agent.py:511`): the retry's snapshot reads `pending`
while the first rollback starts the instance; the second rollback then does not start it
(`:540`) and reports success. `RollbackRestores` therefore excludes snapshots of an
instance in transition.

`StaleEngine` refutes the comment in `get_status` that the engine is always up to date because
`reload_rules()` is called right after every edit (`status.py:112`): a reload, or the first
load, that read a file before another request wrote it may assign what it read after that
request has reloaded (`rule_engine.py:29-60` has no lock). No request is in progress then and
the engine has the older rules until the next reload. `EngineFollowsRules` excepts this case
(`overtaken`), writes that were cut short, and the command line.

Seen while modelling, where a property carries the proviso that keeps it true of the code:

- *Rollback.* A bucket policy without `Version` is deleted (`action_agent.py:625`);
  `RollbackRestores` excludes it. QA's pass releases only the rate rule of the last try
  (`qa_agent.py:527`). EC2 `Block` needs an ALB nobody supplies, although the table must
  match `execute_action` (`decision_agent.py:207`). No claim survives another run on
  the same resource (`disturbed`): there is no lock.
- *Approval.* A failed resume cannot be approved again once the gate was checkpointed
  (`approvals.py:73` says it can); the mark stays when `get_state` raises
  (`graph_runtime.py:53`), so `ResumeReleasesMark` starts at the background thread.
- *Promotion.* Identifiers are the queue's length (`rule_promoter.py:326`, `:361`) and
  collide after an approval; an approved rule is reloaded in the API only; a torn queue
  reads as an empty one and is written back; a save that fails after the rule was added
  answers 404 without a reload; the command line never looks at the queue; the
  coverage of a decision rule ignores the utilisation band; a rejected run passes QA as
  `NoAction` and counts as verified; QA writes its verdict into the log of the
  classifications only (`qa_agent.py:49-103`), so the evidence of a decision rule is never
  verified; an answer without a label is no candidate (`rule_promoter.py:145`). `ApprovedOnce` and `FrequentPatternQueued` hold where
  no two actors were in a file at once (`clash`) and no write was cut short (`torn`): not that a line another process appended
  in between survives, nor that two promoters do not queue a pattern twice.
- *Control.* A scenario writes over the loop's pid and empties the file at its end, and a
  server that dies between launch and record forgets the loop: such a loop is `lost` and
  runs on unseen. A loop without resources reads as not running. `clear()` of the live
  status writes a fresh time, so a stopped pipeline is shown running for 30 s.
- *Detection.* A buffer read while it is truncated is empty and saved so: the frozen seed
  is gone (`detection_agent.py:156-166`); hence `Undisturbed`. A second kill in the cold start
  after a first one loses the count of windows that no model has learned (`crashes <= 1`).
- *Watch.* The z-score alerts only while exactly three points of thirty have jumped, and
  CLF-001 matches from four of six: the forest alone can bring the two together. A
  flat-cost idle instance never matches CLF-004, because low utilisation lists only its own
  metrics. A resize is
  credited with the difference of two full hours even if the instance was off for most of the
  window whose mean is its current cost: the saving is then larger than the cost, which the
  cost after it, cut off at 0, hides (`SavingWithinCost`). The fallback of a resize saving compares a five-minute cost with hourly prices
  (`decision_agent.py:340-352`). QA's second fetch loses the `request_count` a demo added. A
  first whitelist match hides a later event period. An unreachable LLM passes QA. The
  whitelist is read by QA only after acting.
- *WebAcl.* Associating replaces another's Web ACL and nothing puts it back; "rule already
  exists" is answered as success without looking at the association; a removal disassociates
  before a delete that may be refused; two Web ACLs made within a second have one name; an
  edit of the blacklist between reading addresses and reading the token is lost
  (`inbound_handlers.py:992`; no caller in the pipeline).
- *Records.* A first poll answered without `db_latest_id` leaves the page without a cursor
  (`Baselines`); ids committed out of order are skipped (`Overlapping`): with either,
  `NoToastSkipped` fails. `pipeline_stats.py:14` says that the detected are exactly those that
  wait, are completed or failed; a run that waits has no row in `agent_runs` yet, so whenever one
  waits the number of the detected is too small by it, and `ShownAsItEnded` says detected =
  completed + failed. `logs.py:10-12` takes lines of one resource within ten minutes for one run,
  since classification and decision are seconds apart. Nothing keeps two runs off one resource:
  when they overlap, or one dies between its two lines and the next follows within ten minutes,
  a card joins the classification of one with the decision of the other (`logs.py:90`), and the
  other's is left to the wrong one or to none. `CardsOfOneRun` says that an entry is led astray
  only by entries of other runs of its resource that were judged within the window before it, or
  decided between it and its own decision. `logs.py` says that its two files share no key, though both
  lines carry the trace id. Decision and QA are recorded as successful steps of every run,
  so `failed_qa` is never reached and a rejected run counts as completed.
- *Throttle trials.* A rerun over a leftover snapshot records the trial's own limit
  (`Careless`); a failing read of the limit is recorded as "unset"; a refused delete is
  swallowed and the snapshot unlinked (`DeleteRefused`); a torn snapshot makes `--restore`
  raise every time; functions the pipeline limits by mistake are never restored
  (`FalsePositive`); `--restore` without a snapshot clears a user's own limit.
- *Capacity and traffic trials.* An `--anomaly-capacity` below the jitter's high level is
  counted too low by the quota check (`autoscaling_edos_trial.py:191`, `:352`). A call of the jitter thread longer than the 5 s join lands
  after the spike (`slow`, `autoscaling_edos_trial.py:566`); an earlier, larger setup leaves
  tagged groups that the quota check excludes; a second traffic setup of another size
  reuses a port's listener for another group's target group (`Careful`); one WAF limit on
  the shared load balancer cuts off all trials.
- *Demo console.* Reset releases its lock between check and teardown, so a start comes in
  between and loses its resource (`Careful`, `demo_attack.py:141`); two starts
  without a reset orphan the first instance; a restarted API forgets its runs and starts a
  scenario twice. A teardown swallows errors and its unlink may remove a newer manifest.
- *Comparison.* The LangGraph twin has no gate and acts without asking; a torn checkpoint
  loses the run; a second resume acts again from the gate; `MAX_RETRY` is defined twice.

## 7. Not modelled

- Data: LLM texts, reasons, prices outside the table, pagination, DDL, the forest itself
  (any scoring stands for it), contamination and feature scales.
- LLM usage budget: the check of its limit is commented out in the callers. Slack:
  output whose failure is swallowed. Accounts, sessions, routing of the API. Front ends and
  dashboards, but for the toast cursor. Generators of mock data and single-shot
  evaluations; `lambda_retry_*_trial` and `s3_repeated_trial` set up, induce and restore
  like the trials that are modelled.
- No caller in the program: `get_ip_blacklist`, `release_lambda_throttle`, dry runs.
- Within modelled parts: an AWS call that took effect though its answer was lost; the
  300-checkpoint window of the approval queue; the event-invoke configuration of the throttle
  trials; instances of a target group; failing log writes; several scripts of one kind at
  once where they share files; the overwriting of newer progress by the console's refresh
  loop; overlapping start, stop and patch of several administrators; several requests of the
  API that build its first `RuleEngine` at once (`FirstUse`: one at a time).

## 8. What is next

1. `Promotion` with three actors at work at once, and its file protocol as a
   refinement of one atomic queue for the behaviours without `clash`.
2. The approval queue as a window over the newest checkpoints.
