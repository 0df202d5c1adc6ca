------------------------------ MODULE LiveDemo ------------------------------
(***************************************************************************)
(* The demo scenarios and the console that starts them. A live scenario    *)
(* (playground/live_demo/) replays metrics over a resource it prepares; it *)
(* is started, watched and reset over api/routers/demo_attack.py. A real   *)
(* one (playground/real_demo/) is run by hand as --setup, --run and        *)
(* --teardown. Both end in the pipeline, and may wait there for an         *)
(* approval. Two of the scenarios launch an instance and keep its id in a  *)
(* manifest; the others use a resource with a fixed name, which the live   *)
(* and the real scenario share.                                            *)
(*                                                                         *)
(* The live status and the process file they write are in Control, what    *)
(* setup_all does to an account is in TrafficTrial. The bucket of the live *)
(* S3 scenario is taken for that of the real one.                          *)
(***************************************************************************)
EXTENDS Naturals, FiniteSets

CONSTANTS Scenarios,   \* of "zombie", "ec2_over", "lambda", "s3" and "edos"
          Runs,        \* bound: the runs the console starts, each a process
          Terminals,   \* bound: terminals the real scenarios are run in
          Machines,    \* bound: EC2 instances launched
          NoInstance,
          Careful      \* the operator waits, and leaves what others use alone

ASSUME LiveDemoAssumption ==
    /\ Scenarios \subseteq {"zombie", "ec2_over", "lambda", "s3", "edos"}
    /\ Runs \cap Terminals = {}
    /\ NoInstance \notin Machines
    /\ Careful \in BOOLEAN

Launching == Scenarios \cap {"zombie", "ec2_over"}
Named == Scenarios \cap {"lambda", "s3"}

Processes == Runs \cup Terminals
Kinds == {"live", "real"} \X Scenarios

VARIABLES
    run,        \* _runs[r]: the scenario and the status the console shows
    proc,       \* proc[p]: a scenario script, where it is and its instance
    teardown,   \* teardown[k]: a --teardown under way and the instance it read
    manifest,   \* manifest[k]: the instance in the manifest of scenario k
    instances,  \* the EC2 instances there are
    named,      \* the functions and buckets there are
    maxSize,    \* MaxSize of the EDoS group, 0 without the group
    lost        \* history: instances whose launcher failed before it wrote them down

liveVars == <<run, proc, teardown, manifest, instances, named, maxSize, lost>>
account == <<instances, named, maxSize>>

NoScenario == "no scenario"
Absent == [of |-> NoScenario, at |-> "none", inst |-> NoInstance, printed |-> FALSE]
NoTeardown == [at |-> "none", inst |-> NoInstance]

LiveInit ==
    /\ run = [r \in Runs |-> [of |-> NoScenario, status |-> "none"]]
    /\ proc = [p \in Processes |-> Absent]
    /\ teardown = [k \in Kinds |-> NoTeardown]
    /\ manifest = [k \in Kinds |-> NoInstance]
    /\ instances = {} /\ named = {} /\ maxSize = 0 /\ lost = {}

Kind(p) == <<IF p \in Runs THEN "live" ELSE "real", proc[p].of>>

Preparing(p) == proc[p].at \in {"preparing", "launched", "created"}
InPipeline(p) == proc[p].at \in {"streaming", "waiting"}
Lives(p) == Preparing(p) \/ InPipeline(p)

Known(r) == run[r].status \in {"running", "pending_approval"}

ProcGoes(p, where) == proc' = [proc EXCEPT ![p].at = where]

\* A terminal is free again, the exit of a run waits for its watcher.
Exits(p, how) == proc' = [proc EXCEPT ![p] = IF p \in Runs THEN [@ EXCEPT !.at = how]
                                              ELSE Absent]

----------------------------------------------------------------------------
(* The console                                                             *)

\* Mutant: a run that waits for its approval does not count.
OnlyRunning(s) == \E r \in Runs : run[r] = [of |-> s, status |-> "running"]

IsActive(s) == \E r \in Runs : run[r].of = s /\ Known(r)

\* What a careful operator looks at first: no teardown is under way, the scenario
\* was reset, and nothing is left of what a console started before it was restarted.
Unattended(p) == Lives(p) /\ (p \in Runs => ~Known(p))
Clear(k) ==
    /\ \A flavour \in {"live", "real"} : teardown[<<flavour, k[2]>>] = NoTeardown
    /\ manifest[k] = NoInstance
    /\ \A p \in Processes : Unattended(p) => proc[p].of # k[2]

\* Checked, launched and entered under the lock.
StartDemo(r, s) ==
    /\ run[r].status = "none"
    /\ ~IsActive(s)
    /\ Careful => Clear(<<"live", s>>)
    /\ run' = [run EXCEPT ![r] = [of |-> s, status |-> "running"]]
    /\ proc' = [proc EXCEPT ![r] = [Absent EXCEPT !.of = s, !.at = "preparing"]]
    /\ UNCHANGED <<teardown, manifest, account, lost>>

\* A line of the script reaches the watcher when the script's buffer is flushed.
ReadMarker(r) ==
    /\ run[r].status = "running" /\ proc[r].printed
    /\ run' = [run EXCEPT ![r].status = "pending_approval"]
    /\ UNCHANGED <<proc, teardown, manifest, account, lost>>

\* The script has closed its output and ended.
WatchEnd(r) ==
    /\ Known(r) /\ ~Lives(r)
    /\ run' = [run EXCEPT ![r].status =
                 IF proc[r].at = "ended" THEN "succeeded" ELSE "failed"]
    /\ UNCHANGED <<proc, teardown, manifest, account, lost>>

\* The lock is released before --teardown is launched.
Reset(s) ==
    /\ ~IsActive(s)
    /\ teardown[<<"live", s>>] = NoTeardown
    /\ teardown' = [teardown EXCEPT ![<<"live", s>>].at = "begin"]
    /\ UNCHANGED <<run, proc, manifest, account, lost>>

\* The runs and their watchers are in memory; the scripts go on without them.
ConsoleRestarts ==
    /\ \E r \in Runs : Known(r)
    /\ run' = [r \in Runs |-> IF Known(r) THEN [run[r] EXCEPT !.status = "forgotten"]
                                          ELSE run[r]]
    /\ UNCHANGED <<proc, teardown, manifest, account, lost>>

----------------------------------------------------------------------------
(* The real scenarios, by hand                                             *)

SetupReal(t, s) ==
    /\ proc[t] = Absent
    /\ Careful => Clear(<<"real", s>>)
    /\ proc' = [proc EXCEPT ![t] = [Absent EXCEPT !.of = s, !.at = "preparing"]]
    /\ UNCHANGED <<run, teardown, manifest, account, lost>>

\* --run raises without a manifest, or without the resource it sends its load to.
RunReal(t, s) ==
    /\ proc[t] = Absent
    /\ CASE s \in Launching -> manifest[<<"real", s>>] # NoInstance
         [] s \in Named -> s \in named
         [] s = "edos" -> maxSize > 0
    /\ proc' = [proc EXCEPT ![t] = [Absent EXCEPT !.of = s, !.at = "streaming",
                                                  !.inst = manifest[<<"real", s>>]]]
    /\ UNCHANGED <<run, teardown, manifest, account, lost>>

TeardownReal(s) ==
    /\ teardown[<<"real", s>>] = NoTeardown
    /\ Careful => \A p \in Processes : Lives(p) => proc[p].of # s
    /\ teardown' = [teardown EXCEPT ![<<"real", s>>].at = "begin"]
    /\ UNCHANGED <<run, proc, manifest, account, lost>>

----------------------------------------------------------------------------
(* A scenario script: it prepares its resource                             *)

LaunchInstance(p) ==
    /\ proc[p].at = "preparing" /\ proc[p].of \in Launching
    /\ \E i \in Machines \ (instances \cup lost) :
         /\ i \notin {manifest[k] : k \in Kinds} \cup {proc[q].inst : q \in Processes}
         /\ instances' = instances \cup {i}
         /\ proc' = [proc EXCEPT ![p].at = "launched", ![p].inst = i]
    /\ UNCHANGED <<run, teardown, manifest, named, maxSize, lost>>

\* The setup of a real scenario ends where a live one goes on.
Prepared(p) == IF p \in Runs THEN ProcGoes(p, "streaming") ELSE Exits(p, "ended")

\* Written when the instance runs, over the entry of an earlier run.
WriteManifest(p) ==
    /\ proc[p].at = "launched"
    /\ manifest' = [manifest EXCEPT ![Kind(p)] = proc[p].inst]
    /\ Prepared(p)
    /\ UNCHANGED <<run, teardown, account, lost>>

EnsureNamed(p) ==
    /\ proc[p].at = "preparing" /\ proc[p].of \in Named
    /\ named' = named \cup {proc[p].of}
    /\ Prepared(p)
    /\ UNCHANGED <<run, teardown, manifest, instances, maxSize, lost>>

LiveDemoAsgMaxSize == 4

\* Mutant: a group that was there before is taken for one with room.
EnsureAndTrust(p) ==
    /\ proc[p].at = "preparing" /\ proc[p].of = "edos"
    /\ maxSize' = IF maxSize = 0 THEN 1 ELSE maxSize
    /\ IF p \in Runs THEN ProcGoes(p, IF maxSize = 0 THEN "created" ELSE "streaming")
                      ELSE Exits(p, "ended")
    /\ UNCHANGED <<run, teardown, manifest, instances, named, lost>>

\* setup_all makes a group that cannot grow, and leaves one that is there alone.
EnsureGroupExists(p) ==
    /\ proc[p].at = "preparing" /\ proc[p].of = "edos"
    /\ maxSize' = IF maxSize = 0 THEN 1 ELSE maxSize
    /\ IF p \in Runs THEN ProcGoes(p, "created") ELSE Exits(p, "ended")
    /\ UNCHANGED <<run, teardown, manifest, instances, named, lost>>

\* The group gets its room, whoever created it; the update raises without one.
ExtendGroup(p) ==
    /\ proc[p].at = "created" /\ maxSize > 0
    /\ maxSize' = IF maxSize < LiveDemoAsgMaxSize THEN LiveDemoAsgMaxSize ELSE maxSize
    /\ ProcGoes(p, "streaming")
    /\ UNCHANGED <<run, teardown, manifest, instances, named, lost>>

(* ... and runs the pipeline on it.                                        *)

\* The marker is printed where the graph stops at the approval gate.
StreamStops(p) ==
    /\ proc[p].at = "streaming"
    /\ \/ proc' = [proc EXCEPT ![p].at = "waiting", ![p].printed = TRUE]
       \/ Exits(p, "ended")
    /\ UNCHANGED <<run, teardown, manifest, account, lost>>

\* The approval was handled in the API process: the graph has no next node.
Decided(p) ==
    /\ proc[p].at = "waiting"
    /\ Exits(p, "ended")
    /\ UNCHANGED <<run, teardown, manifest, account, lost>>

\* Any call may raise, and somebody may end the script.
Raise(p) ==
    /\ Lives(p)
    /\ lost' = IF proc[p].at = "launched" THEN lost \cup {proc[p].inst} ELSE lost
    /\ Exits(p, "raised")
    /\ UNCHANGED <<run, teardown, manifest, account>>

----------------------------------------------------------------------------
(* --teardown                                                              *)

Over(k) == teardown' = [teardown EXCEPT ![k] = NoTeardown]

ReadManifest(k) ==
    /\ teardown[k].at = "begin" /\ k[2] \in Launching
    /\ IF manifest[k] = NoInstance THEN Over(k)
       ELSE teardown' = [teardown EXCEPT ![k] = [at |-> "terminate", inst |-> manifest[k]]]
    /\ UNCHANGED <<run, proc, manifest, account, lost>>

\* A refused call raises: the manifest stays, and the console answers 500.
Terminate(k) ==
    /\ teardown[k].at = "terminate"
    /\ \/ /\ instances' = instances \ {teardown[k].inst}
          /\ teardown' = [teardown EXCEPT ![k].at = "unlink"]
       \/ Over(k) /\ UNCHANGED instances
    /\ UNCHANGED <<run, proc, manifest, named, maxSize, lost>>

\* Mutant: the manifest goes before the instance does.
UnlinkFirst(k) ==
    /\ teardown[k].at \in {"terminate", "unlink"}
    /\ manifest' = [manifest EXCEPT ![k] = NoInstance]
    /\ IF teardown[k].at = "unlink" THEN Over(k) ELSE UNCHANGED teardown
    /\ UNCHANGED <<run, proc, account, lost>>

UnlinkManifest(k) ==
    /\ teardown[k].at = "unlink"
    /\ manifest' = [manifest EXCEPT ![k] = NoInstance]
    /\ Over(k)
    /\ UNCHANGED <<run, proc, account, lost>>

\* A delete that fails is taken for one that has nothing to delete.
DeleteNamed(k) ==
    /\ teardown[k].at = "begin" /\ k[2] \in Named
    /\ named' \in {named, named \ {k[2]}}
    /\ Over(k)
    /\ UNCHANGED <<run, proc, manifest, instances, maxSize, lost>>

DeleteGroup(k) ==
    /\ teardown[k].at = "begin" /\ k[2] = "edos"
    /\ maxSize' \in {maxSize, 0}
    /\ Over(k)
    /\ UNCHANGED <<run, proc, manifest, instances, named, lost>>

----------------------------------------------------------------------------
Console ==
    \/ \E s \in Scenarios : Reset(s) \/ \E r \in Runs : StartDemo(r, s)
    \/ \E r \in Runs : ReadMarker(r) \/ WatchEnd(r)
    \/ ConsoleRestarts

ByHand == \E s \in Scenarios :
    TeardownReal(s) \/ \E t \in Terminals : SetupReal(t, s) \/ RunReal(t, s)

Scenario(p) ==
    \/ LaunchInstance(p) \/ WriteManifest(p) \/ EnsureNamed(p)
    \/ EnsureGroupExists(p) \/ ExtendGroup(p)
    \/ StreamStops(p) \/ Decided(p) \/ Raise(p)

Teardown(k) ==
    ReadManifest(k) \/ Terminate(k) \/ UnlinkManifest(k) \/ DeleteNamed(k) \/ DeleteGroup(k)

LiveNext ==
    \/ Console \/ ByHand
    \/ \E p \in Processes : Scenario(p)
    \/ \E k \in Kinds : Teardown(k)

LiveSpec == LiveInit /\ [][LiveNext]_liveVars

----------------------------------------------------------------------------
\* Of the runs this console knows, no two have a live script of one scenario: the
\* check, the launch and the entry are one step, and no status is final before the
\* script is gone.
OneScriptPerScenario ==
    \A r, q \in Runs : r # q /\ Known(r) /\ Known(q) /\ Lives(r) /\ Lives(q) =>
        run[r].of # run[q].of

HasResource(p) ==
    CASE proc[p].of \in Launching -> proc[p].inst \in instances
      [] proc[p].of \in Named -> proc[p].of \in named
      [] proc[p].of = "edos" -> maxSize > 0

\* A run the console knows keeps its resource while the pipeline works on it, also
\* while it waits for its approval: "cannot be reset while it runs"
\* (demo_attack.py:141). With a careful operator the check under the lock is enough;
\* otherwise a start comes in between that check and the teardown.
RunKeepsItsResource == \A r \in Runs : Known(r) /\ InPipeline(r) => HasResource(r)

\* Every instance there is can be found again: it is in a manifest, its launcher is
\* about to write it down, or the launcher failed before it could.
InstancesAreOnRecord ==
    \A i \in instances :
        \/ i \in lost
        \/ \E k \in Kinds : manifest[k] = i
        \/ \E p \in Processes : proc[p].at = "launched" /\ proc[p].inst = i

\* While a known EDoS scenario is in the pipeline its group can grow, whoever made
\* the group and wherever an earlier run stopped: the avoided cost is not zero.
GroupHasRoom ==
    \A r \in Runs : Known(r) /\ InPipeline(r) /\ run[r].of = "edos" =>
        maxSize = LiveDemoAsgMaxSize
=============================================================================
