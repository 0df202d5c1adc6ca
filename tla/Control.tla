------------------------------ MODULE Control ------------------------------
(***************************************************************************)
(* The control panel of the pipeline: the start and stop buttons           *)
(* (api/pipeline_process.py), the settings page and the policy file it     *)
(* shares with the pipeline (api/routers/settings.py,                      *)
(* config/decision_policy.py), the polling loop those buttons launch       *)
(* (playground/run_full_pipeline.py) and the demo scenarios, which write   *)
(* their own process id over the loop's.                                   *)
(*                                                                         *)
(* A request runs in a thread of the API server, so every file access of a *)
(* handler is a step of its own and other requests, the loop, a scenario   *)
(* and a restart of the server come in between.                            *)
(***************************************************************************)
EXTENDS Naturals, Sequences, FiniteSets, Functions

CONSTANTS Requests,     \* request threads of the API server
          Types,        \* resource types
          OnByDefault,  \* the types DEFAULT_RESOURCES switches on
          Updates,      \* bodies of PATCH /settings: partial functions of keys
          Keys,         \* the settings a body may hold, in the handler's order
          MaxPids,      \* bound: processes launched
          None          \* no process

ASSUME ControlAssumption ==
    /\ OnByDefault \subseteq Types
    /\ Keys \in Seq({"priority_weight", "llm_cost_limit", "polling_interval", "resources"})
    /\ MaxPids \in Nat
    /\ None \notin 1 .. MaxPids

Pids == 1 .. MaxPids

VARIABLES
    loops,      \* live run_full_pipeline.py --loop processes
    scenarios,  \* live demo scenario processes
    spawned,    \* processes launched so far; the next one gets this number + 1
    types,      \* types[p]: the --resource-types of loop p, {} for none
    handle,     \* _process of the API server
    pidFile,    \* the pid in pipeline_process_state.json
    policy,     \* decision_policy.json as a partial function, Missing if truncated
    requests,   \* requests[r]: the handler thread r is in
    live,       \* pipeline_live_status.json: "fresh" or "stale"
    recent,     \* an agent_run finished within three polling intervals
    lost        \* history: loops whose pid was overwritten or never recorded

processes == <<loops, scenarios, spawned, types>>
status    == <<live, recent>>
vars      == <<processes, handle, pidFile, policy, requests, status, lost>>

----------------------------------------------------------------------------
(* The policy file: missing keys read as their defaults.                   *)

Missing == [k \in {} |-> None]

Extend(f, g) == [k \in DOMAIN f \cup DOMAIN g |-> IF k \in DOMAIN g THEN g[k] ELSE f[k]]

Setting(k, default) == IF k \in DOMAIN policy THEN policy[k] ELSE default

Clamp(lo, hi, v) == IF v < lo THEN lo ELSE IF v > hi THEN hi ELSE v

Resources ==
    Extend([t \in Types |-> t \in OnByDefault], Setting("resources", Missing))

EnabledTypes == {t \in Types : Resources[t]}

\* The value a set_* function stores for key k: the clamped number, or all the
\* types with the patched ones replaced (a read of its own).
Stored(k, v) ==
    CASE k = "priority_weight"  -> Clamp(0, 100, v)
      [] k = "polling_interval" -> IF v < 5 THEN 5 ELSE v
      [] k = "resources"        -> Extend(Resources, v)
      [] OTHER                  -> v

\* discover_all_resources: an empty list of types is no restriction.
Scanned(p) ==
    LET wanted == IF types[p] # {} THEN types[p] ELSE EnabledTypes
    IN  IF wanted = {} THEN Types ELSE wanted

----------------------------------------------------------------------------
(* Process control.                                                        *)

OurProcess(p) == p \in loops \cup scenarios

\* Mutant: the pid file is not asked.
IsRunning_HandleOnly == handle \in loops

\* The pid of the file is asked only when the handle is not a running child.
IsRunning == handle \in loops \/ (pidFile # None /\ OurProcess(pidFile))

\* Processes S end; of a dead loop nothing is remembered.
End(S) ==
    /\ loops' = loops \ S
    /\ scenarios' = scenarios \ S
    /\ types' = [p \in Pids |-> IF p \in S THEN {} ELSE types[p]]
    /\ lost' = lost \ S

\* is_running drops the handle of a child that ended.
DropDeadHandle == handle' = IF handle \in loops THEN handle ELSE None

\* Mutant: a live status of any age counts.
PipelineRunning_IgnoresAge == live \in {"fresh", "stale"} \/ recent

\* get_status: a live status that is fresh, or a run that finished lately.
PipelineRunning == live = "fresh" \/ recent

Idle == [op |-> "idle", at |-> "none", pid |-> None, types |-> {},
         todo |-> Missing, value |-> None, data |-> Missing]

Goto(r, rec) == requests' = [requests EXCEPT ![r] = rec]

Init ==
    /\ loops = {} /\ scenarios = {} /\ spawned = 0 /\ lost = {}
    /\ types = [p \in Pids |-> {}]
    /\ handle = None /\ pidFile = None
    /\ policy = Missing
    /\ requests = [r \in Requests |-> Idle]
    /\ live = "stale" /\ recent = FALSE

\* GET /pipeline/status, GET /settings: only the handle can change.
Poll ==
    /\ DropDeadHandle
    /\ handle' # handle
    /\ UNCHANGED <<processes, pidFile, policy, requests, status, lost>>

\* POST /pipeline/start reads the enabled types before it calls start().
StartPipeline(r) ==
    /\ requests[r].op = "idle"
    /\ Goto(r, [Idle EXCEPT !.op = "start", !.at = "check", !.types = EnabledTypes])
    /\ UNCHANGED <<processes, handle, pidFile, policy, status, lost>>

StartCheck(r) ==
    /\ requests[r].op = "start" /\ requests[r].at = "check"
    /\ DropDeadHandle
    /\ Goto(r, IF IsRunning THEN Idle ELSE [requests[r] EXCEPT !.at = "launch"])
    /\ UNCHANGED <<processes, pidFile, policy, status, lost>>

StartLaunch(r) ==
    /\ requests[r].op = "start" /\ requests[r].at = "launch"
    /\ spawned < MaxPids
    /\ LET p == spawned + 1 IN
        /\ spawned' = p
        /\ loops' = loops \cup {p}
        /\ types' = [types EXCEPT ![p] = requests[r].types]
        /\ handle' = p
    /\ live' = "fresh"
    /\ Goto(r, [Idle EXCEPT !.op = "start", !.at = "record"])
    /\ UNCHANGED <<scenarios, pidFile, policy, recent, lost>>

\* _write_state(_process.pid): fails if another request took the handle away.
StartRecord(r) ==
    /\ requests[r].op = "start" /\ requests[r].at = "record"
    /\ pidFile' = IF handle = None THEN pidFile ELSE handle
    /\ DropDeadHandle
    /\ Goto(r, Idle)
    /\ UNCHANGED <<processes, policy, status, lost>>

StopPipeline(r) ==
    /\ requests[r].op = "idle"
    /\ Goto(r, [Idle EXCEPT !.op = "stop", !.at = "kill", !.pid = pidFile])
    /\ UNCHANGED <<processes, handle, pidFile, policy, status, lost>>

\* Mutant: only a child of this server is ended.
StopKill_ChildOnly(r) ==
    /\ requests[r].op = "stop" /\ requests[r].at = "kill"
    /\ End({handle} \cap loops)
    /\ Goto(r, [Idle EXCEPT !.op = "stop", !.at = "forget"])
    /\ UNCHANGED <<spawned, handle, pidFile, policy, status>>

\* The child of this server if there is one, else the process of the file.
StopKill(r) ==
    /\ requests[r].op = "stop" /\ requests[r].at = "kill"
    /\ End({IF handle \in loops THEN handle ELSE requests[r].pid})
    /\ Goto(r, [Idle EXCEPT !.op = "stop", !.at = "forget"])
    /\ UNCHANGED <<spawned, handle, pidFile, policy, status>>

StopForget(r) ==
    /\ requests[r].op = "stop" /\ requests[r].at = "forget"
    /\ handle' = None
    /\ pidFile' = None
    /\ Goto(r, Idle)
    /\ UNCHANGED <<processes, policy, status, lost>>

----------------------------------------------------------------------------
(* PATCH /settings: one read-modify-write of the file for each key.        *)

\* Mutant: settings are not locked while the pipeline runs.
UpdateSettings_Unlocked(r, body) ==
    /\ requests[r].op = "idle"
    /\ Goto(r, [Idle EXCEPT !.op = "patch", !.at = "value", !.todo = body])
    /\ UNCHANGED <<processes, handle, pidFile, policy, status, lost>>

UpdateSettings(r, body) ==
    /\ requests[r].op = "idle"
    /\ DropDeadHandle
    /\ Goto(r, IF IsRunning THEN Idle
               ELSE [Idle EXCEPT !.op = "patch", !.at = "value", !.todo = body])
    /\ UNCHANGED <<processes, pidFile, policy, status, lost>>

NextKey(todo) ==
    Keys[CHOOSE i \in DOMAIN Keys :
            /\ Keys[i] \in DOMAIN todo
            /\ \A j \in 1 .. i - 1 : Keys[j] \notin DOMAIN todo]

SetValue(r) ==
    /\ requests[r].op = "patch" /\ requests[r].at = "value"
    /\ LET k == NextKey(requests[r].todo) IN
        Goto(r, [requests[r] EXCEPT !.at = "read", !.value = Stored(k, requests[r].todo[k])])
    /\ UNCHANGED <<processes, handle, pidFile, policy, status, lost>>

ReadPolicy(r) ==
    /\ requests[r].op = "patch" /\ requests[r].at = "read"
    /\ LET k == NextKey(requests[r].todo) IN
        Goto(r, [requests[r] EXCEPT !.at = "truncate",
                     !.data = Extend(policy, [x \in {k} |-> requests[r].value])])
    /\ UNCHANGED <<processes, handle, pidFile, policy, status, lost>>

TruncatePolicy(r) ==
    /\ requests[r].op = "patch" /\ requests[r].at = "truncate"
    /\ policy' = Missing
    /\ Goto(r, [requests[r] EXCEPT !.at = "dump"])
    /\ UNCHANGED <<processes, handle, pidFile, status, lost>>

DumpPolicy(r) ==
    /\ requests[r].op = "patch" /\ requests[r].at = "dump"
    /\ policy' = requests[r].data
    /\ LET rest == Restrict(requests[r].todo,
                            DOMAIN requests[r].todo \ {NextKey(requests[r].todo)})
       IN Goto(r, IF DOMAIN rest = {} THEN Idle
                  ELSE [Idle EXCEPT !.op = "patch", !.at = "value", !.todo = rest])
    /\ UNCHANGED <<processes, handle, pidFile, status, lost>>

----------------------------------------------------------------------------
(* The polling loop, the scenarios, the server and time.                   *)

\* One cycle: with a tagged resource it writes the live status and logs a run.
LoopCycle(p) ==
    /\ p \in loops
    /\ live' = "fresh"
    /\ recent' = TRUE
    /\ UNCHANGED <<processes, handle, pidFile, policy, requests, lost>>

\* An exception of a node is not caught: the whole loop ends.
LoopFails(p) ==
    /\ p \in loops
    /\ End({p})
    /\ UNCHANGED <<spawned, handle, pidFile, policy, requests, status>>

\* The loop whose pid the next write of the file removes.
Overwritten == {pidFile} \cap loops

ScenarioBegins ==
    /\ spawned < MaxPids
    /\ spawned' = spawned + 1
    /\ scenarios' = scenarios \cup {spawned + 1}
    /\ live' = "fresh"
    /\ pidFile' = spawned + 1
    /\ lost' = lost \cup Overwritten
    /\ UNCHANGED <<loops, types, handle, policy, requests, recent>>

\* The stream of nodes, and every second while an approval is awaited.
ScenarioShows(p) ==
    /\ p \in scenarios
    /\ live' = "fresh"
    /\ recent' \in {recent, TRUE}
    /\ UNCHANGED <<processes, handle, pidFile, policy, requests, lost>>

\* The finally block empties the file whoever wrote it last.
ScenarioEnds(p) ==
    /\ p \in scenarios
    /\ scenarios' = scenarios \ {p}
    /\ pidFile' = None
    /\ live' = "fresh"
    /\ lost' = lost \cup Overwritten
    /\ UNCHANGED <<loops, spawned, types, handle, policy, requests, recent>>

\* The processes the server launched go on, its handle and its requests do not.
ServerEnds ==
    /\ handle' = None
    /\ requests' = [r \in Requests |-> Idle]
    /\ UNCHANGED <<processes, pidFile, policy, status>>

\* A restart lets the requests finish first.
Restart ==
    /\ \A r \in Requests : requests[r].op = "idle"
    /\ ServerEnds
    /\ UNCHANGED lost

\* The server dies in the middle of a request.
Crash ==
    /\ \E r \in Requests : requests[r].op # "idle"
    /\ ServerEnds
    /\ lost' = lost \cup {p \in loops : p = handle /\ pidFile # p}

LiveFileAges ==
    /\ live = "fresh"
    /\ live' = "stale"
    /\ UNCHANGED <<processes, handle, pidFile, policy, requests, recent, lost>>

RunsAge ==
    /\ recent
    /\ recent' = FALSE
    /\ UNCHANGED <<processes, handle, pidFile, policy, requests, live, lost>>

RequestStep(r) ==
    \/ StartCheck(r) \/ StartLaunch(r) \/ StartRecord(r)
    \/ StopKill(r) \/ StopForget(r)
    \/ SetValue(r) \/ ReadPolicy(r) \/ TruncatePolicy(r) \/ DumpPolicy(r)

Next ==
    \/ \E r \in Requests :
        \/ StartPipeline(r) \/ StopPipeline(r)
        \/ \E body \in Updates : UpdateSettings(r, body)
        \/ RequestStep(r)
    \/ \E p \in Pids :
        LoopCycle(p) \/ LoopFails(p) \/ ScenarioShows(p) \/ ScenarioEnds(p)
    \/ ScenarioBegins
    \/ Poll \/ Restart \/ Crash \/ LiveFileAges \/ RunsAge

Spec == Init /\ [][Next]_vars

\* A handler thread runs on, and time passes.
FairSpec ==
    /\ Spec
    /\ \A r \in Requests : WF_vars(RequestStep(r))
    /\ WF_vars(LiveFileAges)
    /\ WF_vars(RunsAge)
=============================================================================
