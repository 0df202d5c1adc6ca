------------------------------ MODULE Recovery ------------------------------
(***************************************************************************)
(* The recovery pipeline of pipeline/graph.py: each thread is one run of   *)
(* the graph over one resource.                                            *)
(*                                                                         *)
(*   detection -> classification -> decision -> notify_gate ->             *)
(*   approval_gate -> action -> qa -> (action | logging) -> END            *)
(*                                                                         *)
(* Threads run in different processes (the polling loop, the background    *)
(* resume threads of the admin API) and nothing keeps two of them off the  *)
(* same resource, so every AWS call is a step of its own.  A crash or an   *)
(* uncaught exception leaves a thread "dead": its checkpoint stays, but    *)
(* nothing in src/ resumes it.                                             *)
(***************************************************************************)
EXTENDS AwsResource, FiniteSets

CONSTANTS Threads,           \* thread_ids of the checkpointer
          Resources,         \* resource_ids
          TypeOf,            \* the resource_type of each resource
          WithAlb,           \* groups whose target group sits behind an ALB
          InitConfigs,       \* what the resources may look like at the start
          Graphs,            \* the compiled graphs that run threads
          ForcePass,         \* actions the QA rule book passes unseen
          MaxCrashes         \* bound: how many threads may die

ASSUME RecoveryAssumption ==
  /\ Owners = Threads
  /\ TypeOf \in [Resources -> ResourceTypes]
  /\ WithAlb \subseteq {r \in Resources : TypeOf[r] = "AutoScaling"}
  /\ \A c \in InitConfigs : /\ DOMAIN c = Resources
                            /\ \A r \in Resources : c[r] \in Config(TypeOf[r])
  /\ Graphs \subseteq {"app", "approval_app"}
  /\ ForcePass \subseteq Actions
  /\ MaxCrashes \in Nat

VARIABLES pc,        \* the node a thread is about to run or is running
          state,     \* PipelineState of each thread, but for its
          snapshot,  \* pre_action_snapshot
          cfg,       \* the AWS resources
          todo,      \* API calls the running node has yet to make
          result,    \* the status the running node is about to report
          record,    \* the run and action rows logging_node inserted
          answer,    \* history: what the administrator answered
          attempts,  \* history: how often the thread began to act
          disturbed  \* history: another thread called AWS on its resource since

vars == <<pc, state, snapshot, cfg, todo, result, record,
          answer, attempts, disturbed>>

Nodes    == {"detection", "classification", "decision", "notify_gate",
             "approval_gate", "action", "execute", "qa", "rollback",
             "logging", "END", "dead"}
Statuses == {"success", "failed", "partial_success", "not_implemented",
             "skipped", "pending_approval"}
NoTier   == -1
NoRecord == [none |-> TRUE]

TypeAt(t)   == TypeOf[state[t].resource_id]
ConfigAt(t) == cfg[state[t].resource_id]

\* The fields of PipelineState that a later step reads, and the graph that
\* runs the thread: app has no approval gate, approval_app has one.
PipelineState ==
  [ resource_id : Resources,
    graph : {"app", "approval_app"},
    anomaly_flag : BOOLEAN,
    anomaly_type : AnomalyTypes \cup {None},
    selected_action : Actions \cup {None},
    risk_level : RiskLevels \cup {None},
    requires_approval : BOOLEAN,
    apply_waf : BOOLEAN,
    target_instance_type : Tiers \cup {NoTier},
    action_executed : Actions \cup {None},
    status : Statuses \cup {None},
    waf_result : {"success", "failed", None},
    rolled_back : BOOLEAN,
    rollback_status : {"success", "failed", None},
    qa_passed : {"True", "False", None},
    whitelisted : BOOLEAN,
    waf_release : {"success", "failed", None},
    rollback_count : 0 .. 2 ]

\* detection_agent._build_initial_state for resource r, in graph g.
InitialState(r, g) ==
  [ resource_id |-> r, graph |-> g, anomaly_flag |-> FALSE, anomaly_type |-> None,
    selected_action |-> None, risk_level |-> None,
    requires_approval |-> FALSE, apply_waf |-> FALSE,
    target_instance_type |-> NoTier, action_executed |-> None, status |-> None, waf_result |-> None,
    rolled_back |-> FALSE, rollback_status |-> None, qa_passed |-> None,
    whitelisted |-> FALSE, waf_release |-> None, rollback_count |-> 0 ]

Init ==
  /\ pc = [t \in Threads |-> "detection"]
  /\ \E target \in [Threads -> Resources], g \in [Threads -> Graphs] :
       state = [t \in Threads |-> InitialState(target[t], g[t])]
  /\ snapshot = [t \in Threads |-> NoSnapshot]
  /\ cfg \in InitConfigs
  /\ todo = [t \in Threads |-> << >>]
  /\ result = [t \in Threads |-> "success"]
  /\ record = [t \in Threads |-> NoRecord]
  /\ answer = [t \in Threads |-> None]
  /\ attempts = [t \in Threads |-> 0]
  /\ disturbed = [t \in Threads |-> FALSE]

history == <<answer, attempts, disturbed>>

-----------------------------------------------------------------------------
(***************************************************************************)
(* detection, classification, decision                                     *)
(***************************************************************************)
detection_router(s) == IF s.anomaly_flag THEN "classification" ELSE "logging"

Detection(t) ==
  /\ pc[t] = "detection"
  /\ \E anomaly \in BOOLEAN :
       state' = [state EXCEPT ![t].anomaly_flag = anomaly]
  /\ pc' = [pc EXCEPT ![t] = detection_router(state'[t])]
  /\ UNCHANGED <<snapshot, cfg, todo, result, record, history>>

\* A rule names the type, or the LLM does, or neither (None).
Classification(t) ==
  /\ pc[t] = "classification"
  /\ \E anomaly \in AnomalyTypes \cup {None} :
       state' = [state EXCEPT ![t].anomaly_type = anomaly]
  /\ pc' = [pc EXCEPT ![t] = "decision"]
  /\ UNCHANGED <<snapshot, cfg, todo, result, record, history>>

\* A decision rule, the LLM or the fallback table picks an allowed action.
Decision(t) ==
  /\ pc[t] = "decision"
  /\ \E action \in AllowedActions(TypeAt(t), state[t].anomaly_type) :
     \E target \in IF action = "Resize" THEN ResizeTargets(ConfigAt(t))
                                        ELSE {NoTier} :
       LET anomaly == state[t].anomaly_type
           risk    == resolve_risk_level(anomaly, action)
       IN  state' = [state EXCEPT
                       ![t].selected_action = action,
                       ![t].risk_level = risk,
                       ![t].requires_approval = RequiresApproval(risk),
                       ![t].target_instance_type = target,
                       ![t].apply_waf = AppliesWaf(TypeAt(t), anomaly, action)]
  /\ pc' = [pc EXCEPT ![t] = IF state[t].graph = "approval_app"
                                     THEN "notify_gate" ELSE "action"]
  /\ UNCHANGED <<snapshot, cfg, todo, result, record, history>>

-----------------------------------------------------------------------------
(***************************************************************************)
(* notify_gate, approval_gate                                              *)
(***************************************************************************)
NotifyGate(t) ==
  /\ pc[t] = "notify_gate"
  /\ pc' = [pc EXCEPT ![t] = "approval_gate"]
  /\ UNCHANGED <<state, snapshot, cfg, todo, result, record, history>>

WaitingForApproval(t) ==
  pc[t] = "approval_gate" /\ state[t].requires_approval

PassGate(t) ==
  /\ pc[t] = "approval_gate" /\ ~state[t].requires_approval
  /\ pc' = [pc EXCEPT ![t] = "action"]
  /\ UNCHANGED <<state, snapshot, cfg, todo, result, record, history>>

\* Mutant: a rejection lets the run through.
Reject_KeepsAction(t) ==
  /\ WaitingForApproval(t)
  /\ state' = [state EXCEPT ![t].requires_approval = FALSE]
  /\ answer' = [answer EXCEPT ![t] = "rejected"]
  /\ pc' = [pc EXCEPT ![t] = "action"]
  /\ UNCHANGED <<snapshot, cfg, todo, result, record, attempts, disturbed>>

\* interrupt() returned {"approved": True} or {"approved": False}.
Approve(t) ==
  /\ WaitingForApproval(t)
  /\ state' = [state EXCEPT ![t].requires_approval = FALSE]
  /\ answer' = [answer EXCEPT ![t] = "approved"]
  /\ pc' = [pc EXCEPT ![t] = "action"]
  /\ UNCHANGED <<snapshot, cfg, todo, result, record, attempts, disturbed>>

Reject(t) ==
  /\ WaitingForApproval(t)
  /\ state' = [state EXCEPT ![t].selected_action = "NoAction",
                            ![t].requires_approval = FALSE]
  /\ answer' = [answer EXCEPT ![t] = "rejected"]
  /\ pc' = [pc EXCEPT ![t] = "action"]
  /\ UNCHANGED <<snapshot, cfg, todo, result, record, attempts, disturbed>>

-----------------------------------------------------------------------------
(***************************************************************************)
(* action                                                                  *)
(***************************************************************************)
\* action_node replaces action_result: what an earlier rollback left there
\* is gone.
Executed(s, action, status) ==
  [s EXCEPT !.action_executed = action, !.status = status,
            !.rolled_back = FALSE, !.rollback_status = None]

ActionSkip(t) ==
  /\ pc[t] = "action" /\ state[t].selected_action = "NoAction"
  /\ state' = [state EXCEPT ![t] = Executed(@, "NoAction", "skipped")]
  /\ snapshot' = [snapshot EXCEPT ![t] = NoSnapshot]
  /\ pc' = [pc EXCEPT ![t] = "qa"]
  /\ UNCHANGED <<cfg, todo, result, record, history>>

ActionHold(t) ==
  /\ pc[t] = "action" /\ state[t].selected_action # "NoAction"
  /\ state[t].requires_approval
  /\ state' = [state EXCEPT ![t] = Executed(@, None, "pending_approval")]
  /\ snapshot' = [snapshot EXCEPT ![t] = NoSnapshot]
  /\ pc' = [pc EXCEPT ![t] = "qa"]
  /\ UNCHANGED <<cfg, todo, result, record, history>>

\* take_snapshot, then the plan of execute_action.
ActionSnapshot(t) ==
  /\ pc[t] = "action" /\ state[t].selected_action # "NoAction"
  /\ ~state[t].requires_approval
  /\ \E alb \in IF state[t].resource_id \in WithAlb THEN BOOLEAN ELSE {FALSE} :
       LET action == state[t].selected_action
           done   == Implemented(TypeAt(t), action)
       IN  /\ todo' = [todo EXCEPT ![t] =
                         IF done THEN ExecuteProgram(TypeAt(t), action,
                                                     state[t].apply_waf, alb)
                                 ELSE << >>]
           /\ result' = [result EXCEPT ![t] =
                           IF done THEN "success" ELSE "not_implemented"]
  /\ snapshot' = [snapshot EXCEPT ![t] = SnapshotOf(TypeAt(t), ConfigAt(t))]
  /\ state' = [state EXCEPT ![t].waf_result = None]
  /\ attempts' = [attempts EXCEPT ![t] = @ + 1]
  /\ pc' = [pc EXCEPT ![t] = "execute"]
  /\ UNCHANGED <<cfg, record, answer, disturbed>>

\* The other threads that have acted on t's resource see it change.
Disturb(t) ==
  disturbed' = [u \in Threads |->
                  \/ disturbed[u]
                  \/ /\ u # t /\ attempts[u] > 0
                     /\ state[u].resource_id = state[t].resource_id]

Calling(t) == pc[t] \in {"execute", "rollback"} /\ todo[t] # << >>

CallSucceeds(t) ==
  /\ Calling(t)
  /\ LET op == Head(todo[t])
     IN  /\ Accepts(op, ConfigAt(t))
         /\ cfg' = [cfg EXCEPT ![state[t].resource_id] =
                      Apply(op, @, t, state[t].target_instance_type,
                            snapshot[t])]
         /\ state' = IF op = "apply_waf"
                       THEN [state EXCEPT ![t].waf_result = "success"]
                       ELSE state
  /\ todo' = [todo EXCEPT ![t] = Tail(@)]
  /\ Disturb(t)
  /\ UNCHANGED <<pc, snapshot, result, record, answer, attempts>>

\* ClientError or WaiterError.  A partial throttle the account cannot hold
\* falls back to a full block, a failed Web ACL leaves a partial success.
CallFails(t) ==
  /\ Calling(t)
  /\ LET op == Head(todo[t])
     IN  \/ /\ op = "put_limit"
            /\ todo' = [todo EXCEPT ![t] = <<"put_zero">>]
            /\ UNCHANGED <<state, result>>
         \/ /\ todo' = [todo EXCEPT ![t] = << >>]
            /\ result' = [result EXCEPT ![t] =
                            IF op = "apply_waf" THEN "partial_success"
                                                ELSE "failed"]
            /\ state' = IF op = "apply_waf"
                          THEN [state EXCEPT ![t].waf_result = "failed"]
                          ELSE state
  /\ UNCHANGED <<pc, snapshot, cfg, record, history>>

ActionEnd(t) ==
  /\ pc[t] = "execute" /\ todo[t] = << >>
  /\ state' = [state EXCEPT
                 ![t] = Executed(@, @.selected_action, result[t])]
  /\ pc' = [pc EXCEPT ![t] = "qa"]
  /\ UNCHANGED <<snapshot, cfg, todo, result, record, history>>

-----------------------------------------------------------------------------
(***************************************************************************)
(* qa, logging                                                             *)
(***************************************************************************)
\* Mutant: retries once too often.
qa_router_CountsFromOne(s) ==
  IF s.qa_passed = "True" THEN "logging"
  ELSE IF s.rollback_count <= 2 THEN "action" ELSE "logging"

qa_router(s) ==
  IF s.qa_passed = "True" THEN "logging"
  ELSE IF s.rollback_count < 2 THEN "action" ELSE "logging"

(***************************************************************************)
(* _apply_rule_based_qa and _call_llm_qa.  window: a time-window rule      *)
(* matches (QA-002, QA-003); ForcePass: the rules on an action (QA-005 on  *)
(* Block); ambiguous: no trigger metric or too little cost data, the LLM   *)
(* decides; sla: the metric and cost checks hold.                          *)
(***************************************************************************)
QaVerdict(s, window, ambiguous, sla) ==
  \/ s.action_executed \in {"NoAction", None} \cup ForcePass
  \/ window
  \/ /\ s.status \notin {"failed", "not_implemented"}
     /\ sla
     /\ ambiguous \/ s.status = "success"

MayPass(s) == \E w, a, sla \in BOOLEAN : QaVerdict(s, w, a, sla)
MayFail(s) == \E w, a, sla \in BOOLEAN : ~QaVerdict(s, w, a, sla)

\* _release_waf_rate_limit_if_resolved, whose API calls may fail.  It edits
\* the Web ACL of the last execution, whether or not it is still associated.
HoldsWaf(s) ==
  /\ TypeOf[s.resource_id] = "AutoScaling" /\ s.action_executed = "ScaleDown"
  /\ s.waf_result = "success"

ReleaseWaf(t, outcome) ==
  cfg' = IF outcome = "success" /\ ConfigAt(t).acl = t
           THEN [cfg EXCEPT ![state[t].resource_id].rule = FALSE] ELSE cfg

QaWhitelisted(t) ==
  /\ pc[t] = "qa"
  /\ state' = [state EXCEPT ![t].qa_passed = "True", ![t].whitelisted = TRUE]
  /\ pc' = [pc EXCEPT ![t] = qa_router(state'[t])]
  /\ UNCHANGED <<snapshot, cfg, todo, result, record, history>>

QaPass(t) ==
  /\ pc[t] = "qa" /\ MayPass(state[t])
  /\ \E outcome \in IF HoldsWaf(state[t]) THEN {"success", "failed"}
                                           ELSE {None} :
       /\ ReleaseWaf(t, outcome)
       /\ state' = [state EXCEPT ![t].qa_passed = "True",
                                 ![t].whitelisted = FALSE,
                                 ![t].waf_release = outcome]
  /\ pc' = [pc EXCEPT ![t] = qa_router(state'[t])]
  /\ UNCHANGED <<snapshot, todo, result, record, history>>

\* _trigger_rollback starts; the describe call of _rollback_ec2 may fail.
QaFail(t) ==
  /\ pc[t] = "qa" /\ MayFail(state[t])
  /\ state' = [state EXCEPT ![t].qa_passed = "False", ![t].whitelisted = FALSE]
  /\ \/ /\ todo' = [todo EXCEPT ![t] =
                      RollbackProgram(TypeAt(t), ConfigAt(t), snapshot[t])]
        /\ result' = [result EXCEPT ![t] = "success"]
     \/ /\ TypeAt(t) = "EC2"
        /\ todo' = [todo EXCEPT ![t] = << >>]
        /\ result' = [result EXCEPT ![t] = "failed"]
  /\ pc' = [pc EXCEPT ![t] = "rollback"]
  /\ UNCHANGED <<snapshot, cfg, record, history>>

\* Mutant: a rollback that failed is neither counted nor routed.
RollbackEnd_OnlySuccess(t) ==
  /\ pc[t] = "rollback" /\ todo[t] = << >> /\ result[t] = "success"
  /\ state' = [state EXCEPT ![t].rolled_back = TRUE,
                            ![t].rollback_status = result[t],
                            ![t].rollback_count = @ + 1]
  /\ pc' = [pc EXCEPT ![t] = qa_router(state'[t])]
  /\ UNCHANGED <<snapshot, cfg, todo, result, record, history>>

\* The rollback is over, well or badly; qa_node counts it either way.
RollbackEnd(t) ==
  /\ pc[t] = "rollback" /\ todo[t] = << >>
  /\ state' = [state EXCEPT ![t].rolled_back = TRUE,
                            ![t].rollback_status = result[t],
                            ![t].rollback_count = @ + 1]
  /\ pc' = [pc EXCEPT ![t] = qa_router(state'[t])]
  /\ UNCHANGED <<snapshot, cfg, todo, result, record, history>>

\* Mutant: any rollback counts as the last one.
RunStatus_AnyRollback(s) ==
  IF s.rollback_count >= 1 THEN "rollback_exhausted"
  ELSE IF s.qa_passed = "False" THEN "failed_qa" ELSE "completed"

RunStatus(s) ==
  IF s.rollback_count >= 2 THEN "rollback_exhausted"
  ELSE IF s.qa_passed = "False" THEN "failed_qa" ELSE "completed"

\* Mutant: the audit row forgets that the action was rolled back.
Row_IgnoresRollback(s) ==
  [ status  |-> RunStatus(s),
    action  |-> s.action_executed,
    success |-> s.status = "success" ]

\* _build_run_record and _build_action_record.
Row(s) ==
  [ status  |-> RunStatus(s),
    action  |-> s.action_executed,
    success |-> s.status = "success" /\ ~s.rolled_back ]

\* logging_node swallows a database failure: the row may be missing.
Logging(t) ==
  /\ pc[t] = "logging"
  /\ \E saved \in BOOLEAN :
       record' = IF saved THEN [record EXCEPT ![t] = Row(state[t])] ELSE record
  /\ pc' = [pc EXCEPT ![t] = "END"]
  /\ UNCHANGED <<state, snapshot, cfg, todo, result, history>>

-----------------------------------------------------------------------------
\* The process dies, or the node raises what nothing catches.
Crash(t) ==
  /\ pc[t] \notin {"END", "dead"} /\ ~WaitingForApproval(t)
  /\ Cardinality({u \in Threads : pc[u] = "dead"}) < MaxCrashes
  /\ pc' = [pc EXCEPT ![t] = "dead"]
  /\ UNCHANGED <<state, snapshot, cfg, todo, result, record, history>>

Settle(r) ==
  /\ TypeOf[r] = "EC2" /\ cfg[r].state \in {"pending", "stopping"}
  /\ cfg' = [cfg EXCEPT ![r] = Settled(@)]
  /\ UNCHANGED <<pc, state, snapshot, todo, result, record, history>>

Step(t) ==
  \/ Detection(t) \/ Classification(t) \/ Decision(t)
  \/ NotifyGate(t) \/ PassGate(t)
  \/ ActionSkip(t) \/ ActionHold(t) \/ ActionSnapshot(t)
  \/ CallSucceeds(t) \/ CallFails(t) \/ ActionEnd(t)
  \/ QaWhitelisted(t) \/ QaPass(t) \/ QaFail(t) \/ RollbackEnd(t)
  \/ Logging(t)

Next == \/ \E t \in Threads : Step(t) \/ Approve(t) \/ Reject(t) \/ Crash(t)
        \/ \E r \in Resources : Settle(r)

Spec == Init /\ [][Next]_vars

(***************************************************************************)
(* A node that runs goes on running, and AWS finishes what it started.     *)
(* The administrator may never answer and crashes are never due.           *)
(***************************************************************************)
FairSpec == /\ Spec
            /\ \A t \in Threads : WF_vars(Step(t))
            /\ \A r \in Resources : WF_vars(Settle(r))
=============================================================================
