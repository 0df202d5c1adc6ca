--------------------------- MODULE RecoveryProofs ---------------------------
(***************************************************************************)
(* Theorems about Recovery for every number of threads, resources, tiers   *)
(* and crashes.  IInv is inductive; type correctness, the approval         *)
(* guarantee and the retry bound follow from it.  Recovery implements      *)
(* RecoveryContract: each action of the graph is shown to be one action of *)
(* the contract on that run, or none.  And with ClaimInv beside IInv, what *)
(* a run claims of its resource is true.                                   *)
(***************************************************************************)
EXTENDS RecoveryRefinement, TLAPS

-----------------------------------------------------------------------------
(***************************************************************************)
(* The tables                                                              *)
(***************************************************************************)
\* The resolved risk of any action is one of the three levels.
LEMMA RiskResolved ==
  ASSUME NEW anomaly, NEW action
  PROVE  resolve_risk_level(anomaly, action) \in RiskLevels
BY DEF resolve_risk_level, DefaultRisk, RiskFloor, RiskLevels, RISK_ORDER

\* decision_node's candidates are implemented actions of the pipeline.
LEMMA CandidatesAreActions ==
  ASSUME NEW type \in ResourceTypes, NEW anomaly \in AnomalyTypes \cup {None}
  PROVE  AllowedActions(type, anomaly) \subseteq Actions
BY DEF AllowedActions, ResourceTypes, AnomalyTypes, Actions, ALLOWED_ACTIONS,
       RESOURCE_IMPLEMENTED_ACTIONS

-----------------------------------------------------------------------------
(***************************************************************************)
(* The resources                                                           *)
(***************************************************************************)
\* What take_snapshot remembers fits the type of the resource.
LEMMA SnapshotTyped ==
  ASSUME NEW type \in ResourceTypes, NEW c \in Config(type)
  PROVE  SnapshotOf(type, c) \in Snapshot(type)
BY DEF SnapshotOf, Snapshot, Config, ResourceTypes

\* AWS finishing a start or a stop keeps the shape of the instance.
LEMMA SettledTyped ==
  ASSUME NEW c \in Config("EC2")
  PROVE  Settled(c) \in Config("EC2")
BY DEF Settled, Config, RunStates

\* A resize target is a tier, whatever describe_instances answered.
LEMMA TargetsAreTiers ==
  ASSUME NEW c \in Config("EC2")
  PROVE  ResizeTargets(c) \subseteq Tiers
BY TierAssumption DEF ResizeTargets, LowerTier, Tiers, Config

\* Every API call keeps the shape of the resource it is made on.
LEMMA ApplyTyped ==
  ASSUME NEW type \in ResourceTypes, NEW c \in Config(type), NEW o \in Owners,
         NEW target, NEW snap \in Snapshot(type),
         NEW op \in Ops[type], op = "modify_to_target" => target \in Tiers
  PROVE  Apply(op, c, o, target, snap) \in Config(type)
<1>1. CASE type = "EC2"
  BY <1>1 DEF Apply, Config, Snapshot, Ops, RunStates
<1>2. CASE type = "Lambda"
  BY <1>2 DEF Apply, Config, Snapshot, Ops, LIMIT
<1>3. CASE type = "AutoScaling"
  BY <1>3 DEF Apply, Config, Snapshot, Ops, MAXSIZE
<1>4. CASE type = "S3"
  BY <1>4 DEF Apply, Config, Snapshot, Ops, PolicyToRestore
<1>5. CASE type = "RDS"
  BY <1>5 DEF Ops
<1> QED
  BY <1>1, <1>2, <1>3, <1>4, <1>5 DEF ResourceTypes

\* A sequence over a set is one over every larger set.
LEMMA SeqMonotone ==
  ASSUME NEW S, NEW T, S \subseteq T, NEW s \in Seq(S)
  PROVE  s \in Seq(T)
OBVIOUS

LEMMA SeqHeadTail ==
  ASSUME NEW S, NEW s \in Seq(S), s # << >>
  PROVE  Head(s) \in S /\ Tail(s) \in Seq(S)
OBVIOUS

LEMMA SeqSingleton ==
  ASSUME NEW S, NEW e \in S
  PROVE  <<e>> \in Seq(S)
OBVIOUS

\* The plan of an implemented action holds calls of the resource's type, and
\* only a Resize changes the instance type.
LEMMA ExecuteProgramTyped ==
  ASSUME NEW type \in ResourceTypes, NEW action \in Actions \ {"NoAction"},
         NEW waf \in BOOLEAN, NEW alb \in BOOLEAN, Implemented(type, action)
  PROVE  /\ ExecuteProgram(type, action, waf, alb) \in Seq(Ops[type])
         /\ action # "Resize" =>
              ExecuteProgram(type, action, waf, alb)
                \in Seq(Ops[type] \ {"modify_to_target"})
<1> DEFINE Program == ExecuteProgram(type, action, waf, alb)
           Typed == Program \in Seq(Ops[type] \ {"modify_to_target"})
<1>1. ASSUME action = "Stop" PROVE Typed
  <2>1. type = "EC2"
    BY <1>1 DEF Implemented, ResourceTypes, RESOURCE_IMPLEMENTED_ACTIONS
  <2>2. Program = <<"stop_instances">>
    BY <1>1, <2>1 DEF ExecuteProgram
  <2>3. <<"stop_instances">> \in Seq(Ops["EC2"] \ {"modify_to_target"})
    BY DEF Ops
  <2> QED
    BY <2>1, <2>2, <2>3
<1>2. ASSUME action = "Throttle" PROVE Typed
  <2>1. type = "Lambda"
    BY <1>2 DEF Implemented, ResourceTypes, RESOURCE_IMPLEMENTED_ACTIONS
  <2>2. Program = <<"put_limit">>
    BY <1>2, <2>1 DEF ExecuteProgram
  <2>3. <<"put_limit">> \in Seq(Ops["Lambda"] \ {"modify_to_target"})
    BY DEF Ops
  <2> QED
    BY <2>1, <2>2, <2>3
<1>3. ASSUME action = "Block" /\ type = "Lambda" PROVE Typed
  <2>1. Program = <<"put_zero">>
    BY <1>3 DEF ExecuteProgram
  <2>2. <<"put_zero">> \in Seq(Ops["Lambda"] \ {"modify_to_target"})
    BY DEF Ops
  <2> QED
    BY <1>3, <2>1, <2>2
<1>4. ASSUME action = "Block" /\ type = "S3" PROVE Typed
  <2>1. Program = <<"block_public_access">>
    BY <1>4 DEF ExecuteProgram
  <2>2. <<"block_public_access">> \in Seq(Ops["S3"] \ {"modify_to_target"})
    BY DEF Ops
  <2> QED
    BY <1>4, <2>1, <2>2
<1>5. ASSUME type = "AutoScaling" PROVE Typed
  <2>1. Program \in {<<"scale_down", "apply_waf">>, <<"scale_down">>}
    BY <1>5 DEF ExecuteProgram, Implemented, RESOURCE_IMPLEMENTED_ACTIONS
  <2>2. <<"scale_down", "apply_waf">>
          \in Seq(Ops["AutoScaling"] \ {"modify_to_target"})
    BY DEF Ops
  <2>3. <<"scale_down">> \in Seq(Ops["AutoScaling"] \ {"modify_to_target"})
    BY DEF Ops
  <2> QED
    BY <1>5, <2>1, <2>2, <2>3
<1>6. ASSUME action = "Resize" PROVE Program \in Seq(Ops[type])
  <2>1. type = "EC2"
    BY <1>6 DEF Implemented, ResourceTypes, RESOURCE_IMPLEMENTED_ACTIONS
  <2>2. Program = <<"stop_instances", "wait_stopped", "modify_to_target",
                    "start_instances">>
    BY <1>6, <2>1 DEF ExecuteProgram
  <2>3. <<"stop_instances", "wait_stopped", "modify_to_target",
          "start_instances">> \in Seq(Ops["EC2"])
    BY DEF Ops
  <2> QED
    BY <2>1, <2>2, <2>3
<1>7. Typed \/ (action = "Resize" /\ Program \in Seq(Ops[type]))
  BY <1>1, <1>2, <1>3, <1>4, <1>5, <1>6
  DEF Implemented, ResourceTypes, RESOURCE_IMPLEMENTED_ACTIONS
<1>8. Typed => Program \in Seq(Ops[type])
  <2> HIDE DEF Program
  <2> QED
    BY SeqMonotone
<1> QED
  BY <1>7, <1>8

NotRollback == {"modify_to_target", "apply_waf"}

\* The plan of a rollback holds calls of the resource's type; it never moves
\* an instance to the target of a resize and never touches a Web ACL.
LEMMA RollbackProgramTyped ==
  ASSUME NEW type \in ResourceTypes, NEW c \in Config(type),
         NEW snap \in Snapshot(type)
  PROVE  RollbackProgram(type, c, snap) \in Seq(Ops[type] \ NotRollback)
<1>1. CASE type = "EC2"
  <2> DEFINE S == Ops["EC2"] \ NotRollback
             Stopped == CASE c.state \in {"pending", "running"} ->
                               <<"wait_running", "stop_instances", "wait_stopped">>
                          [] c.state = "stopping" -> <<"wait_stopped">>
                          [] OTHER -> << >>
             Started == IF snap.state = "running" THEN <<"start_instances">>
                                                  ELSE << >>
             Changed == Stopped \o <<"modify_to_snapshot">> \o Started
             Same == CASE snap.state = "running" /\ c.state = "stopping" ->
                            <<"wait_stopped", "start_instances">>
                       [] /\ snap.state = "running"
                          /\ c.state \in {"pending", "stopped"} ->
                            <<"start_instances">>
                       [] snap.state = "stopped" -> <<"stop_instances">>
                       [] OTHER -> << >>
  <2>1. S = {"stop_instances", "wait_stopped", "wait_running",
             "modify_to_snapshot", "start_instances"}
    BY DEF Ops, NotRollback
  <2>2. Stopped \in Seq(S) /\ Started \in Seq(S) /\ Same \in Seq(S)
    <3>1. << >> \in Seq(S)
      OBVIOUS
    <3>2. /\ <<"wait_stopped">> \in Seq(S)
          /\ <<"start_instances">> \in Seq(S)
          /\ <<"stop_instances">> \in Seq(S)
          /\ <<"wait_stopped", "start_instances">> \in Seq(S)
          /\ <<"wait_running", "stop_instances", "wait_stopped">> \in Seq(S)
      BY <2>1
    <3> HIDE DEF S
    <3> QED
      BY <3>1, <3>2
  <2>3. <<"modify_to_snapshot">> \in Seq(S)
    BY <2>1
  <2>4. Changed \in Seq(S)
    <3> HIDE DEF S, Stopped, Started
    <3> QED
      BY <2>2, <2>3
  <2>5. RollbackProgram(type, c, snap) =
          IF c.tier # snap.tier THEN Changed ELSE Same
    BY <1>1 DEF RollbackProgram, RollbackEc2
  <2> HIDE DEF S, Changed, Same
  <2>6. RollbackProgram(type, c, snap) \in Seq(S)
    BY <2>2, <2>4, <2>5
  <2> QED
    BY <1>1, <2>6 DEF S
<1>2. CASE type = "Lambda"
  <2>1. <<"restore_concurrency">> \in Seq(Ops["Lambda"] \ NotRollback)
    BY DEF Ops, NotRollback
  <2> QED
    BY <1>2, <2>1 DEF RollbackProgram
<1>3. CASE type = "AutoScaling"
  <2>1. <<"restore_sizes">> \in Seq(Ops["AutoScaling"] \ NotRollback)
    BY DEF Ops, NotRollback
  <2> QED
    BY <1>3, <2>1 DEF RollbackProgram
<1>4. CASE type = "S3"
  <2>1. <<"restore_access_block", "restore_policy">>
          \in Seq(Ops["S3"] \ NotRollback)
    BY DEF Ops, NotRollback
  <2> QED
    BY <1>4, <2>1 DEF RollbackProgram
<1>5. CASE type = "RDS"
  BY <1>5 DEF RollbackProgram
<1> QED
  BY <1>1, <1>2, <1>3, <1>4, <1>5 DEF ResourceTypes

-----------------------------------------------------------------------------
(***************************************************************************)
(* Steps                                                                   *)
(***************************************************************************)
\* What ThreadInv says of a thread stays true while nothing of it changes.
LEMMA UntouchedThread ==
  ASSUME NEW u \in Threads, ThreadInv(u),
         pc'[u] = pc[u], state'[u] = state[u], snapshot'[u] = snapshot[u],
         todo'[u] = todo[u], result'[u] = result[u], record'[u] = record[u],
         answer'[u] = answer[u], attempts'[u] = attempts[u]
  PROVE  ThreadInv(u)'
BY DEF ThreadInv, ApprovalInv, Allowed, RetryInv, ProgramInv, KnownOps, TypeAt

\* A step that gives thread t the state s keeps t on its resource.
LEMMA StateStep ==
  ASSUME state \in [Threads -> PipelineState], NEW t \in Threads,
         NEW s \in PipelineState, s.resource_id = state[t].resource_id,
         state' = [state EXCEPT ![t] = s]
  PROVE  /\ state' \in [Threads -> PipelineState]
         /\ state'[t] = s
         /\ \A u \in Threads \ {t} : state'[u] = state[u]
         /\ \A u \in Threads : TypeAt(u)' = TypeAt(u)
BY DEF TypeAt

\* Types are kept by a step that changes neither snapshots, resources,
\* programs nor the history of actions.
LEMMA QuietStep ==
  ASSUME TypeOK, state' \in [Threads -> PipelineState],
         \A u \in Threads : TypeAt(u)' = TypeAt(u),
         pc' \in [Threads -> Nodes],
         answer' \in [Threads -> {"approved", "rejected", None}],
         UNCHANGED <<snapshot, cfg, todo, result, record, attempts, disturbed>>
  PROVE  TypeOK'
BY DEF TypeOK

LEMMA DetectionStep ==
  ASSUME IInv, NEW t \in Threads, Detection(t)
  PROVE  IInv'
<1>1. PICK flag \in BOOLEAN : state' = [state EXCEPT ![t].anomaly_flag = flag]
  BY DEF Detection
<1> DEFINE s == [state[t] EXCEPT !.anomaly_flag = flag]
<1>2. TypeOK /\ state \in [Threads -> PipelineState] /\ ThreadInv(t)
  BY DEF IInv, TypeOK
<1>3. s \in PipelineState /\ s.resource_id = state[t].resource_id
  BY <1>2 DEF PipelineState
<1>4. state' = [state EXCEPT ![t] = s]
  BY <1>1
<1>5. /\ pc[t] = "detection" /\ pc'[t] \in {"classification", "logging"}
      /\ pc' \in [Threads -> Nodes]
      /\ \A u \in Threads \ {t} : pc'[u] = pc[u]
  BY <1>2 DEF Detection, detection_router, TypeOK, Nodes
<1>6. UNCHANGED <<snapshot, cfg, todo, result, record, answer, attempts, disturbed>>
  BY DEF Detection, history
<1>7. /\ s.selected_action = state[t].selected_action
      /\ s.target_instance_type = state[t].target_instance_type
      /\ s.risk_level = state[t].risk_level
      /\ s.qa_passed = state[t].qa_passed
      /\ s.rollback_count = state[t].rollback_count
  BY <1>2 DEF PipelineState
<1> HIDE DEF s
<1>8. /\ state' \in [Threads -> PipelineState]
      /\ state'[t] = s
      /\ \A u \in Threads \ {t} : state'[u] = state[u]
      /\ \A u \in Threads : TypeAt(u)' = TypeAt(u)
  BY <1>2, <1>3, <1>4, StateStep
<1>9. TypeOK'
  BY <1>2, <1>5, <1>6, <1>8, QuietStep DEF TypeOK
<1>10. ThreadInv(t)'
  BY <1>2, <1>5, <1>6, <1>7, <1>8
  DEF ThreadInv, ApprovalInv, Allowed, RetryInv, ProgramInv, KnownOps,
      BeforeAction, None
<1>11. \A u \in Threads \ {t} : ThreadInv(u)'
  BY <1>5, <1>6, <1>8, UntouchedThread DEF IInv
<1> QED
  BY <1>9, <1>10, <1>11 DEF IInv

LEMMA ClassificationStep ==
  ASSUME IInv, NEW t \in Threads, Classification(t)
  PROVE  IInv'
<1>1. PICK anomaly \in AnomalyTypes \cup {None} : state' = [state EXCEPT ![t].anomaly_type = anomaly]
  BY DEF Classification
<1> DEFINE s == [state[t] EXCEPT !.anomaly_type = anomaly]
<1>2. TypeOK /\ state \in [Threads -> PipelineState] /\ ThreadInv(t)
  BY DEF IInv, TypeOK
<1>3. s \in PipelineState /\ s.resource_id = state[t].resource_id
  BY <1>2 DEF PipelineState
<1>4. state' = [state EXCEPT ![t] = s]
  BY <1>1
<1>5. /\ pc[t] = "classification" /\ pc'[t] = "decision"
      /\ pc' \in [Threads -> Nodes]
      /\ \A u \in Threads \ {t} : pc'[u] = pc[u]
  BY <1>2 DEF Classification, TypeOK, Nodes
<1>6. UNCHANGED <<snapshot, cfg, todo, result, record, answer, attempts, disturbed>>
  BY DEF Classification, history
<1>7. /\ s.selected_action = state[t].selected_action
      /\ s.target_instance_type = state[t].target_instance_type
      /\ s.risk_level = state[t].risk_level
      /\ s.qa_passed = state[t].qa_passed
      /\ s.rollback_count = state[t].rollback_count
  BY <1>2 DEF PipelineState
<1> HIDE DEF s
<1>8. /\ state' \in [Threads -> PipelineState]
      /\ state'[t] = s
      /\ \A u \in Threads \ {t} : state'[u] = state[u]
      /\ \A u \in Threads : TypeAt(u)' = TypeAt(u)
  BY <1>2, <1>3, <1>4, StateStep
<1>9. TypeOK'
  BY <1>2, <1>5, <1>6, <1>8, QuietStep DEF TypeOK
<1>10. ThreadInv(t)'
  BY <1>2, <1>5, <1>6, <1>7, <1>8
  DEF ThreadInv, ApprovalInv, Allowed, RetryInv, ProgramInv, KnownOps,
      BeforeAction, None
<1>11. \A u \in Threads \ {t} : ThreadInv(u)'
  BY <1>5, <1>6, <1>8, UntouchedThread DEF IInv
<1> QED
  BY <1>9, <1>10, <1>11 DEF IInv

LEMMA DecisionStep ==
  ASSUME IInv, NEW t \in Threads, Decision(t)
  PROVE  IInv'
<1> DEFINE anomaly == state[t].anomaly_type
<1> DEFINE Chosen(action, target) ==
      LET risk == resolve_risk_level(anomaly, action)
      IN  state' = [state EXCEPT
                      ![t].selected_action = action,
                      ![t].risk_level = risk,
                      ![t].requires_approval = RequiresApproval(risk),
                      ![t].target_instance_type = target,
                      ![t].apply_waf = AppliesWaf(TypeAt(t), anomaly, action)]
           Targets(action) ==
      IF action = "Resize" THEN ResizeTargets(ConfigAt(t)) ELSE {NoTier}
<1>0. PICK action \in AllowedActions(TypeAt(t), anomaly) :
        \E target \in Targets(action) : Chosen(action, target)
  BY DEF Decision
<1>1. PICK target \in Targets(action) : Chosen(action, target)
  BY <1>0
<1> DEFINE risk == resolve_risk_level(anomaly, action)
           s == [state[t] EXCEPT
                   !.selected_action = action,
                   !.risk_level = risk,
                   !.requires_approval = RequiresApproval(risk),
                   !.target_instance_type = target,
                   !.apply_waf = AppliesWaf(TypeAt(t), anomaly, action)]
<1>2. TypeOK /\ state \in [Threads -> PipelineState] /\ ThreadInv(t)
  BY DEF IInv, TypeOK
<1>3. /\ TypeAt(t) \in ResourceTypes /\ anomaly \in AnomalyTypes \cup {None}
      /\ ConfigAt(t) \in Config(TypeAt(t))
  BY <1>2, RecoveryAssumption DEF TypeAt, ConfigAt, PipelineState, TypeOK
<1>4. action \in Actions /\ risk \in RiskLevels
  BY <1>3, CandidatesAreActions, RiskResolved
<1>5. /\ target \in Tiers \cup {NoTier}
      /\ action = "Resize" => target \in Tiers
  <2>1. action = "Resize" => TypeAt(t) = "EC2"
    BY <1>3 DEF AllowedActions, RESOURCE_IMPLEMENTED_ACTIONS, ResourceTypes
  <2> QED
    BY <1>1, <1>3, <2>1, TargetsAreTiers
<1>6. s \in PipelineState /\ s.resource_id = state[t].resource_id
  <2>1. RequiresApproval(risk) \in BOOLEAN
    BY DEF RequiresApproval
  <2>2. AppliesWaf(TypeAt(t), anomaly, action) \in BOOLEAN
    BY DEF AppliesWaf
  <2> DEFINE approval == RequiresApproval(risk)
             waf == AppliesWaf(TypeAt(t), anomaly, action)
             p == state[t]
             q1 == [p EXCEPT !.selected_action = action, !.risk_level = risk]
             q2 == [q1 EXCEPT !.requires_approval = approval]
             q3 == [q2 EXCEPT !.target_instance_type = target]
             q4 == [q3 EXCEPT !.apply_waf = waf]
             Fits(q) == q \in PipelineState /\ q.resource_id = p.resource_id
  <2>3. p \in PipelineState /\ approval \in BOOLEAN /\ waf \in BOOLEAN
    BY <1>2, <2>1, <2>2
  <2> HIDE DEF p, risk, approval, waf
  <2>4. Fits(q1)
    BY <1>4, <2>3 DEF PipelineState
  <2>5. Fits(q2)
    <3> HIDE DEF q1
    <3> QED
      BY <2>3, <2>4 DEF PipelineState
  <2>6. Fits(q3)
    <3> HIDE DEF q2
    <3> QED
      BY <1>5, <2>5 DEF PipelineState
  <2>7. Fits(q4)
    <3> HIDE DEF q3
    <3> QED
      BY <2>3, <2>6 DEF PipelineState
  <2> QED
    BY <2>7 DEF p, approval, waf
<1>7. state' = [state EXCEPT ![t] = s]
  BY <1>1, <1>2
<1>8. /\ pc[t] = "decision" /\ pc'[t] \in {"notify_gate", "action"}
      /\ pc' \in [Threads -> Nodes]
      /\ \A u \in Threads \ {t} : pc'[u] = pc[u]
  BY <1>2 DEF Decision, TypeOK, Nodes
<1>9. UNCHANGED <<snapshot, cfg, todo, result, record, answer, attempts, disturbed>>
  BY DEF Decision, history
<1>10. /\ s.selected_action = action
       /\ s.target_instance_type = target
       /\ s.risk_level = risk
       /\ s.requires_approval = RequiresApproval(risk)
       /\ s.qa_passed = state[t].qa_passed
       /\ s.rollback_count = state[t].rollback_count
  BY <1>2 DEF PipelineState
<1>11. RequiresApproval(risk) \/ risk = "LOW"
  BY <1>4 DEF RequiresApproval, RiskLevels
<1> HIDE DEF s, risk
<1>12. /\ state' \in [Threads -> PipelineState]
       /\ state'[t] = s
       /\ \A u \in Threads \ {t} : state'[u] = state[u]
       /\ \A u \in Threads : TypeAt(u)' = TypeAt(u)
  BY <1>2, <1>6, <1>7, StateStep
<1>13. TypeOK'
  BY <1>2, <1>8, <1>9, <1>12, QuietStep DEF TypeOK
<1>14. ThreadInv(t)'
  BY <1>2, <1>5, <1>8, <1>9, <1>10, <1>11, <1>12
  DEF ThreadInv, ApprovalInv, Allowed, RetryInv, ProgramInv, KnownOps,
      BeforeAction, None
<1>15. \A u \in Threads \ {t} : ThreadInv(u)'
  BY <1>8, <1>9, <1>12, UntouchedThread DEF IInv
<1> QED
  BY <1>13, <1>14, <1>15 DEF IInv

\* What action_node reports fits PipelineState.
LEMMA ExecutedTyped ==
  ASSUME NEW p \in PipelineState, NEW action \in Actions \cup {None},
         NEW status \in Statuses
  PROVE  /\ Executed(p, action, status) \in PipelineState
         /\ Executed(p, action, status).resource_id = p.resource_id
<1>1. Executed(p, action, status) \in PipelineState
  BY DEF PipelineState, Executed
<1>2. Executed(p, action, status).resource_id = p.resource_id
  BY DEF PipelineState, Executed
<1> QED
  BY <1>1, <1>2

LEMMA NotifyGateStep ==
  ASSUME IInv, NEW t \in Threads, NotifyGate(t)
  PROVE  IInv'
<1>1. TypeOK /\ ThreadInv(t)
  BY DEF IInv
<1>2. /\ pc[t] = "notify_gate" /\ pc'[t] = "approval_gate"
      /\ pc' \in [Threads -> Nodes]
      /\ \A u \in Threads \ {t} : pc'[u] = pc[u]
  BY <1>1 DEF NotifyGate, TypeOK, Nodes
<1>3. UNCHANGED <<state, snapshot, cfg, todo, result, record, answer, attempts,
                  disturbed>>
  BY DEF NotifyGate, history
<1>4. \A u \in Threads : TypeAt(u)' = TypeAt(u)
  BY <1>3 DEF TypeAt
<1>5. TypeOK'
  BY <1>1, <1>2, <1>3, <1>4, QuietStep DEF TypeOK
<1>6. ThreadInv(t)'
  BY <1>1, <1>2, <1>3, <1>4
  DEF ThreadInv, ApprovalInv, Allowed, RetryInv, ProgramInv, KnownOps,
      BeforeAction, None
<1>7. \A u \in Threads \ {t} : ThreadInv(u)'
  BY <1>2, <1>3, UntouchedThread DEF IInv
<1> QED
  BY <1>5, <1>6, <1>7 DEF IInv

LEMMA PassGateStep ==
  ASSUME IInv, NEW t \in Threads, PassGate(t)
  PROVE  IInv'
<1>1. TypeOK /\ ThreadInv(t)
  BY DEF IInv
<1>2. /\ pc[t] = "approval_gate" /\ pc'[t] = "action"
      /\ pc' \in [Threads -> Nodes]
      /\ \A u \in Threads \ {t} : pc'[u] = pc[u]
  BY <1>1 DEF PassGate, TypeOK, Nodes
<1>3. UNCHANGED <<state, snapshot, cfg, todo, result, record, answer, attempts,
                  disturbed>>
  BY DEF PassGate, history
<1>4. \A u \in Threads : TypeAt(u)' = TypeAt(u)
  BY <1>3 DEF TypeAt
<1>5. TypeOK'
  BY <1>1, <1>2, <1>3, <1>4, QuietStep DEF TypeOK
<1>6. ThreadInv(t)'
  BY <1>1, <1>2, <1>3, <1>4
  DEF ThreadInv, ApprovalInv, Allowed, RetryInv, ProgramInv, KnownOps,
      BeforeAction, None
<1>7. \A u \in Threads \ {t} : ThreadInv(u)'
  BY <1>2, <1>3, UntouchedThread DEF IInv
<1> QED
  BY <1>5, <1>6, <1>7 DEF IInv

LEMMA ApproveStep ==
  ASSUME IInv, NEW t \in Threads, Approve(t)
  PROVE  IInv'
<1> DEFINE s == [state[t] EXCEPT !.requires_approval = FALSE]
<1>1. TypeOK /\ state \in [Threads -> PipelineState] /\ ThreadInv(t)
  BY DEF IInv, TypeOK
<1>2. s \in PipelineState /\ s.resource_id = state[t].resource_id
  <2>1. "NoAction" \in Actions
    BY DEF Actions
  <2>2. state[t] \in PipelineState
    BY <1>1
  <2> QED
    BY <2>1, <2>2 DEF PipelineState
<1>3. state' = [state EXCEPT ![t] = s]
  BY <1>1 DEF Approve
<1>4. /\ pc[t] = "approval_gate" /\ pc'[t] = "action"
      /\ pc' \in [Threads -> Nodes]
      /\ \A u \in Threads \ {t} : pc'[u] = pc[u]
  BY <1>1 DEF Approve, WaitingForApproval, TypeOK, Nodes
<1>5. /\ answer'[t] = "approved"
      /\ answer' \in [Threads -> {"approved", "rejected", None}]
      /\ \A u \in Threads \ {t} : answer'[u] = answer[u]
  BY <1>1 DEF Approve, TypeOK
<1>6. UNCHANGED <<snapshot, cfg, todo, result, record, attempts, disturbed>>
  BY DEF Approve
<1>7. /\ s.selected_action = state[t].selected_action
      /\ s.target_instance_type = state[t].target_instance_type
      /\ s.rollback_count = state[t].rollback_count
  BY <1>1 DEF PipelineState
<1> HIDE DEF s
<1>8. /\ state' \in [Threads -> PipelineState]
      /\ state'[t] = s
      /\ \A u \in Threads \ {t} : state'[u] = state[u]
      /\ \A u \in Threads : TypeAt(u)' = TypeAt(u)
  BY <1>1, <1>2, <1>3, StateStep
<1>9. TypeOK'
  BY <1>1, <1>4, <1>5, <1>6, <1>8, QuietStep
<1>10. ThreadInv(t)'
  BY <1>1, <1>4, <1>5, <1>6, <1>7, <1>8
  DEF ThreadInv, ApprovalInv, Allowed, RetryInv, ProgramInv, KnownOps,
      BeforeAction, None
<1>11. \A u \in Threads \ {t} : ThreadInv(u)'
  BY <1>4, <1>5, <1>6, <1>8, UntouchedThread DEF IInv
<1> QED
  BY <1>9, <1>10, <1>11 DEF IInv

LEMMA RejectStep ==
  ASSUME IInv, NEW t \in Threads, Reject(t)
  PROVE  IInv'
<1> DEFINE s == [state[t] EXCEPT !.selected_action = "NoAction",
                              !.requires_approval = FALSE]
<1>1. TypeOK /\ state \in [Threads -> PipelineState] /\ ThreadInv(t)
  BY DEF IInv, TypeOK
<1>2. s \in PipelineState /\ s.resource_id = state[t].resource_id
  <2>1. "NoAction" \in Actions
    BY DEF Actions
  <2>2. state[t] \in PipelineState
    BY <1>1
  <2> QED
    BY <2>1, <2>2 DEF PipelineState
<1>3. state' = [state EXCEPT ![t] = s]
  BY <1>1 DEF Reject
<1>4. /\ pc[t] = "approval_gate" /\ pc'[t] = "action"
      /\ pc' \in [Threads -> Nodes]
      /\ \A u \in Threads \ {t} : pc'[u] = pc[u]
  BY <1>1 DEF Reject, WaitingForApproval, TypeOK, Nodes
<1>5. /\ answer'[t] = "rejected"
      /\ answer' \in [Threads -> {"approved", "rejected", None}]
      /\ \A u \in Threads \ {t} : answer'[u] = answer[u]
  BY <1>1 DEF Reject, TypeOK
<1>6. UNCHANGED <<snapshot, cfg, todo, result, record, attempts, disturbed>>
  BY DEF Reject
<1>7. /\ s.selected_action = "NoAction"
      /\ s.target_instance_type = state[t].target_instance_type
      /\ s.rollback_count = state[t].rollback_count
  BY <1>1 DEF PipelineState
<1> HIDE DEF s
<1>8. /\ state' \in [Threads -> PipelineState]
      /\ state'[t] = s
      /\ \A u \in Threads \ {t} : state'[u] = state[u]
      /\ \A u \in Threads : TypeAt(u)' = TypeAt(u)
  BY <1>1, <1>2, <1>3, StateStep
<1>9. TypeOK'
  BY <1>1, <1>4, <1>5, <1>6, <1>8, QuietStep
<1>10. ThreadInv(t)'
  BY <1>1, <1>4, <1>5, <1>6, <1>7, <1>8
  DEF ThreadInv, ApprovalInv, Allowed, RetryInv, ProgramInv, KnownOps,
      BeforeAction, None
<1>11. \A u \in Threads \ {t} : ThreadInv(u)'
  BY <1>4, <1>5, <1>6, <1>8, UntouchedThread DEF IInv
<1> QED
  BY <1>9, <1>10, <1>11 DEF IInv

LEMMA ActionSkipStep ==
  ASSUME IInv, NEW t \in Threads, ActionSkip(t)
  PROVE  IInv'
<1> DEFINE s == Executed(state[t], "NoAction", "skipped")
<1>1. TypeOK /\ state \in [Threads -> PipelineState] /\ ThreadInv(t)
  BY DEF IInv, TypeOK
<1>2. s \in PipelineState /\ s.resource_id = state[t].resource_id
  <2>1. "NoAction" \in Actions \cup {None} /\ "skipped" \in Statuses
    BY DEF Actions, Statuses
  <2>2. state[t] \in PipelineState
    BY <1>1
  <2> QED
    BY <2>1, <2>2, ExecutedTyped
<1>3. state' = [state EXCEPT ![t] = s]
  BY DEF ActionSkip
<1>4. /\ pc[t] = "action" /\ pc'[t] = "qa"
      /\ pc' \in [Threads -> Nodes]
      /\ \A u \in Threads \ {t} : pc'[u] = pc[u]
  BY <1>1 DEF ActionSkip, TypeOK, Nodes
<1>5. /\ DOMAIN snapshot' = Threads
      /\ snapshot'[t] = NoSnapshot
      /\ \A u \in Threads \ {t} : snapshot'[u] = snapshot[u]
  BY <1>1 DEF ActionSkip, TypeOK
<1>6. UNCHANGED <<cfg, todo, result, record, answer, attempts, disturbed>>
  BY DEF ActionSkip, history
<1>7. /\ s.selected_action = state[t].selected_action
      /\ s.requires_approval = state[t].requires_approval
      /\ s.risk_level = state[t].risk_level
      /\ s.target_instance_type = state[t].target_instance_type
      /\ s.rollback_count = state[t].rollback_count
      /\ s.action_executed = "NoAction"
  BY <1>1 DEF PipelineState, Executed
<1> HIDE DEF s
<1>8. /\ state' \in [Threads -> PipelineState]
      /\ state'[t] = s
      /\ \A u \in Threads \ {t} : state'[u] = state[u]
      /\ \A u \in Threads : TypeAt(u)' = TypeAt(u)
  BY <1>1, <1>2, <1>3, StateStep
<1>9. TypeOK'
  BY <1>1, <1>4, <1>5, <1>6, <1>8 DEF TypeOK
<1>10. ThreadInv(t)'
  BY <1>1, <1>4, <1>5, <1>6, <1>7, <1>8
  DEF ThreadInv, ApprovalInv, Allowed, RetryInv, ProgramInv, KnownOps,
      BeforeAction, None
<1>11. \A u \in Threads \ {t} : ThreadInv(u)'
  BY <1>4, <1>5, <1>6, <1>8, UntouchedThread DEF IInv
<1> QED
  BY <1>9, <1>10, <1>11 DEF IInv

LEMMA ActionHoldStep ==
  ASSUME IInv, NEW t \in Threads, ActionHold(t)
  PROVE  IInv'
<1> DEFINE s == Executed(state[t], None, "pending_approval")
<1>1. TypeOK /\ state \in [Threads -> PipelineState] /\ ThreadInv(t)
  BY DEF IInv, TypeOK
<1>2. s \in PipelineState /\ s.resource_id = state[t].resource_id
  <2>1. None \in Actions \cup {None} /\ "pending_approval" \in Statuses
    BY DEF Actions, Statuses
  <2>2. state[t] \in PipelineState
    BY <1>1
  <2> QED
    BY <2>1, <2>2, ExecutedTyped
<1>3. state' = [state EXCEPT ![t] = s]
  BY DEF ActionHold
<1>4. /\ pc[t] = "action" /\ pc'[t] = "qa"
      /\ pc' \in [Threads -> Nodes]
      /\ \A u \in Threads \ {t} : pc'[u] = pc[u]
  BY <1>1 DEF ActionHold, TypeOK, Nodes
<1>5. /\ DOMAIN snapshot' = Threads
      /\ snapshot'[t] = NoSnapshot
      /\ \A u \in Threads \ {t} : snapshot'[u] = snapshot[u]
  BY <1>1 DEF ActionHold, TypeOK
<1>6. UNCHANGED <<cfg, todo, result, record, answer, attempts, disturbed>>
  BY DEF ActionHold, history
<1>7. /\ s.selected_action = state[t].selected_action
      /\ s.requires_approval = state[t].requires_approval
      /\ s.risk_level = state[t].risk_level
      /\ s.target_instance_type = state[t].target_instance_type
      /\ s.rollback_count = state[t].rollback_count
      /\ s.action_executed = None
  BY <1>1 DEF PipelineState, Executed
<1> HIDE DEF s
<1>8. /\ state' \in [Threads -> PipelineState]
      /\ state'[t] = s
      /\ \A u \in Threads \ {t} : state'[u] = state[u]
      /\ \A u \in Threads : TypeAt(u)' = TypeAt(u)
  BY <1>1, <1>2, <1>3, StateStep
<1>9. TypeOK'
  BY <1>1, <1>4, <1>5, <1>6, <1>8 DEF TypeOK
<1>10. ThreadInv(t)'
  BY <1>1, <1>4, <1>5, <1>6, <1>7, <1>8
  DEF ThreadInv, ApprovalInv, Allowed, RetryInv, ProgramInv, KnownOps,
      BeforeAction, None
<1>11. \A u \in Threads \ {t} : ThreadInv(u)'
  BY <1>4, <1>5, <1>6, <1>8, UntouchedThread DEF IInv
<1> QED
  BY <1>9, <1>10, <1>11 DEF IInv

LEMMA ActionSnapshotStep ==
  ASSUME IInv, NEW t \in Threads, ActionSnapshot(t)
  PROVE  IInv'
<1> DEFINE s == [state[t] EXCEPT !.waf_result = None]
<1>1. TypeOK /\ state \in [Threads -> PipelineState] /\ ThreadInv(t)
  BY DEF IInv, TypeOK
<1>2. TypeAt(t) \in ResourceTypes /\ ConfigAt(t) \in Config(TypeAt(t))
  BY <1>1, RecoveryAssumption DEF TypeAt, ConfigAt, PipelineState, TypeOK
<1>3. /\ pc[t] = "action" /\ pc'[t] \in {"execute"}
      /\ pc' \in [Threads -> Nodes]
      /\ \A u \in Threads \ {t} : pc'[u] = pc[u]
  BY <1>1 DEF ActionSnapshot, TypeOK, Nodes
<1>4. /\ ~state[t].requires_approval /\ state[t].selected_action # "NoAction"
      /\ state' = [state EXCEPT ![t] = s]
  BY DEF ActionSnapshot
<1>5. s \in PipelineState
  BY <1>1 DEF PipelineState
<1>6. /\ s.resource_id = state[t].resource_id
      /\ s.selected_action = state[t].selected_action
      /\ s.requires_approval = state[t].requires_approval
      /\ s.risk_level = state[t].risk_level
      /\ s.target_instance_type = state[t].target_instance_type
      /\ s.rollback_count = state[t].rollback_count
  BY <1>1 DEF PipelineState
<1> HIDE DEF s
<1>7. /\ state' \in [Threads -> PipelineState]
      /\ state'[t] = s
      /\ \A u \in Threads \ {t} : state'[u] = state[u]
      /\ \A u \in Threads : TypeAt(u)' = TypeAt(u)
  BY <1>1, <1>4, <1>5, <1>6, StateStep
<1>8. /\ snapshot'[t] \in Snapshot(TypeAt(t))
      /\ DOMAIN snapshot' = Threads
      /\ \A u \in Threads \ {t} : snapshot'[u] = snapshot[u]
  BY <1>1, <1>2, SnapshotTyped DEF ActionSnapshot, TypeOK
<1>9. /\ todo'[t] \in Seq(Ops[TypeAt(t)])
      /\ state[t].selected_action # "Resize" =>
           todo'[t] \in Seq(Ops[TypeAt(t)] \ {"modify_to_target"})
      /\ DOMAIN todo' = Threads
      /\ \A u \in Threads \ {t} : todo'[u] = todo[u]
      /\ result' \in [Threads -> {"success", "failed", "partial_success",
                                 "not_implemented"}]
      /\ \A u \in Threads \ {t} : result'[u] = result[u]
  <2> DEFINE action == state[t].selected_action
             done == Implemented(TypeAt(t), action)
             Program(alb) == ExecuteProgram(TypeAt(t), action,
                                            state[t].apply_waf, alb)
  <2>1. PICK alb \in BOOLEAN :
          /\ todo' = [todo EXCEPT ![t] = IF done THEN Program(alb) ELSE << >>]
          /\ result' = [result EXCEPT ![t] =
                          IF done THEN "success" ELSE "not_implemented"]
    BY DEF ActionSnapshot
  <2>2. state[t].apply_waf \in BOOLEAN
    BY <1>1 DEF PipelineState
  <2>3. done => action \in Actions
    BY <1>2 DEF Implemented, RESOURCE_IMPLEMENTED_ACTIONS, ResourceTypes, Actions
  <2>4. done => /\ Program(alb) \in Seq(Ops[TypeAt(t)])
                /\ action # "Resize" =>
                     Program(alb) \in Seq(Ops[TypeAt(t)] \ {"modify_to_target"})
    BY <1>2, <1>4, <2>2, <2>3, ExecuteProgramTyped
  <2>5. todo'[t] = IF done THEN Program(alb) ELSE << >>
    BY <1>1, <2>1 DEF TypeOK
  <2>6. /\ DOMAIN todo' = Threads
        /\ \A u \in Threads \ {t} : todo'[u] = todo[u]
        /\ result' \in [Threads -> {"success", "failed", "partial_success",
                                   "not_implemented"}]
        /\ \A u \in Threads \ {t} : result'[u] = result[u]
    BY <1>1, <2>1 DEF TypeOK
  <2>7. CASE done
    BY <2>4, <2>5, <2>6, <2>7
  <2>8. CASE ~done
    BY <2>5, <2>6, <2>8
  <2> QED
    BY <2>7, <2>8
<1>10. /\ attempts'[t] = attempts[t] + 1
       /\ attempts' \in [Threads -> 0 .. 2]
       /\ \A u \in Threads \ {t} : attempts'[u] = attempts[u]
  BY <1>1, <1>3 DEF ActionSnapshot, TypeOK, ThreadInv, RetryInv, PipelineState
<1>11. UNCHANGED <<cfg, record, answer, disturbed>>
  BY DEF ActionSnapshot
<1>12. TypeOK'
  BY <1>1, <1>3, <1>7, <1>8, <1>9, <1>10, <1>11 DEF TypeOK
<1>13. ThreadInv(t)'
  BY <1>1, <1>3, <1>4, <1>6, <1>7, <1>8, <1>9, <1>10, <1>11
  DEF ThreadInv, ApprovalInv, Allowed, RetryInv, ProgramInv, KnownOps,
      BeforeAction, None
<1>14. \A u \in Threads \ {t} : ThreadInv(u)'
  BY <1>3, <1>7, <1>8, <1>9, <1>10, <1>11, UntouchedThread DEF IInv
<1> QED
  BY <1>12, <1>13, <1>14 DEF IInv

LEMMA ActionEndStep ==
  ASSUME IInv, NEW t \in Threads, ActionEnd(t)
  PROVE  IInv'
<1> DEFINE s == Executed(state[t], state[t].selected_action, result[t])
<1>1. TypeOK /\ state \in [Threads -> PipelineState] /\ ThreadInv(t)
  BY DEF IInv, TypeOK
<1>2. /\ pc[t] = "execute" /\ pc'[t] \in {"qa"}
      /\ pc' \in [Threads -> Nodes]
      /\ \A u \in Threads \ {t} : pc'[u] = pc[u]
  BY <1>1 DEF ActionEnd, TypeOK, Nodes
<1>3. todo[t] = << >> /\ state' = [state EXCEPT ![t] = s]
  BY DEF ActionEnd
<1>4. UNCHANGED <<snapshot, cfg, todo, result, record, answer, attempts, disturbed>>
  BY DEF ActionEnd, history
<1>5. s \in PipelineState /\ s.resource_id = state[t].resource_id
  <2>1. /\ state[t] \in PipelineState
        /\ state[t].selected_action \in Actions \cup {None}
    BY <1>1 DEF PipelineState
  <2>2. result[t] \in Statuses
    BY <1>1 DEF TypeOK, Statuses
  <2> QED
    BY <2>1, <2>2, ExecutedTyped
<1>6. /\ s.selected_action = state[t].selected_action
      /\ s.requires_approval = state[t].requires_approval
      /\ s.risk_level = state[t].risk_level
      /\ s.target_instance_type = state[t].target_instance_type
      /\ s.rollback_count = state[t].rollback_count
  BY <1>1 DEF PipelineState, Executed
<1> HIDE DEF s
<1>7. /\ state' \in [Threads -> PipelineState]
      /\ state'[t] = s
      /\ \A u \in Threads \ {t} : state'[u] = state[u]
      /\ \A u \in Threads : TypeAt(u)' = TypeAt(u)
  BY <1>1, <1>3, <1>5, StateStep
<1>8. TypeOK'
  BY <1>1, <1>2, <1>4, <1>7, QuietStep DEF TypeOK
<1>9. ThreadInv(t)'
  BY <1>1, <1>2, <1>3, <1>4, <1>6, <1>7
  DEF ThreadInv, ApprovalInv, Allowed, RetryInv, ProgramInv, KnownOps,
      BeforeAction, None
<1>10. \A u \in Threads \ {t} : ThreadInv(u)'
  BY <1>2, <1>4, <1>7, UntouchedThread DEF IInv
<1> QED
  BY <1>8, <1>9, <1>10 DEF IInv

\* What qa_node reports fits PipelineState.
LEMMA VerdictTyped ==
  ASSUME NEW p \in PipelineState, NEW verdict \in {"True", "False"},
         NEW w \in BOOLEAN
  PROVE  [p EXCEPT !.qa_passed = verdict, !.whitelisted = w] \in PipelineState
BY DEF PipelineState

LEMMA QaWhitelistedStep ==
  ASSUME IInv, NEW t \in Threads, QaWhitelisted(t)
  PROVE  IInv'
<1> DEFINE s == [state[t] EXCEPT !.qa_passed = "True", !.whitelisted = TRUE]
<1>1. TypeOK /\ state \in [Threads -> PipelineState] /\ ThreadInv(t)
  BY DEF IInv, TypeOK
<1>2. s \in PipelineState
  BY <1>1, VerdictTyped
<1>3. /\ s.resource_id = state[t].resource_id
      /\ s.selected_action = state[t].selected_action
      /\ s.requires_approval = state[t].requires_approval
      /\ s.risk_level = state[t].risk_level
      /\ s.target_instance_type = state[t].target_instance_type
      /\ s.rollback_count = state[t].rollback_count
      /\ s.qa_passed = "True"
  BY <1>1 DEF PipelineState
<1>4. state' = [state EXCEPT ![t] = s]
  BY DEF QaWhitelisted
<1> HIDE DEF s
<1>5. /\ state' \in [Threads -> PipelineState]
      /\ state'[t] = s
      /\ \A u \in Threads \ {t} : state'[u] = state[u]
      /\ \A u \in Threads : TypeAt(u)' = TypeAt(u)
  BY <1>1, <1>2, <1>3, <1>4, StateStep
<1>6. /\ pc[t] = "qa" /\ pc'[t] \in {"logging"}
      /\ pc' \in [Threads -> Nodes]
      /\ \A u \in Threads \ {t} : pc'[u] = pc[u]
  BY <1>1, <1>3, <1>5 DEF QaWhitelisted, TypeOK, Nodes, qa_router
<1>7. UNCHANGED <<snapshot, cfg, todo, result, record, answer, attempts, disturbed>>
  BY DEF QaWhitelisted, history
<1>8. TypeOK'
  BY <1>1, <1>5, <1>6, <1>7, QuietStep DEF TypeOK
<1>9. ThreadInv(t)'
  BY <1>1, <1>3, <1>5, <1>6, <1>7
  DEF ThreadInv, ApprovalInv, Allowed, RetryInv, ProgramInv, KnownOps,
      BeforeAction, None
<1>10. \A u \in Threads \ {t} : ThreadInv(u)'
  BY <1>5, <1>6, <1>7, UntouchedThread DEF IInv
<1> QED
  BY <1>8, <1>9, <1>10 DEF IInv

\* Taking the rule out of a Web ACL keeps the shape of every resource.
LEMMA ReleaseTyped ==
  ASSUME TypeOK, NEW t \in Threads, TypeAt(t) = "AutoScaling", NEW outcome,
         ReleaseWaf(t, outcome)
  PROVE  /\ DOMAIN cfg' = Resources
         /\ \A r \in Resources : cfg'[r] \in Config(TypeOf[r])
<1> DEFINE x == state[t].resource_id
           released == [cfg[x] EXCEPT !.rule = FALSE]
<1>1. cfg' = cfg \/ cfg' = [cfg EXCEPT ![x] = released]
  BY DEF ReleaseWaf
<1>2. x \in Resources /\ cfg[x] \in Config("AutoScaling") /\ TypeOf[x] = "AutoScaling"
  BY DEF TypeOK, PipelineState, TypeAt
<1>3. released \in Config("AutoScaling")
  BY <1>2 DEF Config
<1> HIDE DEF released, x
<1> QED
  BY <1>1, <1>2, <1>3 DEF TypeOK

LEMMA QaPassStep ==
  ASSUME IInv, NEW t \in Threads, QaPass(t)
  PROVE  IInv'
<1>1. TypeOK /\ state \in [Threads -> PipelineState] /\ ThreadInv(t)
  BY DEF IInv, TypeOK
<1>2. PICK outcome \in {"success", "failed", None} :
        /\ cfg' = cfg \/ (HoldsWaf(state[t]) /\ ReleaseWaf(t, outcome))
        /\ state' = [state EXCEPT ![t].qa_passed = "True",
                                  ![t].whitelisted = FALSE,
                                  ![t].waf_release = outcome]
  BY DEF QaPass, ReleaseWaf, None
<1> DEFINE s == [state[t] EXCEPT !.qa_passed = "True", !.whitelisted = FALSE,
                                 !.waf_release = outcome]
<1>3. s \in PipelineState
  <2> DEFINE q == [state[t] EXCEPT !.qa_passed = "True", !.whitelisted = FALSE]
  <2>1. q \in PipelineState
    BY <1>1, VerdictTyped
  <2>2. [q EXCEPT !.waf_release = outcome] \in PipelineState
    <3> HIDE DEF q
    <3> QED
      BY <2>1 DEF PipelineState
  <2> QED
    BY <2>2
<1>4. /\ s.resource_id = state[t].resource_id
      /\ s.selected_action = state[t].selected_action
      /\ s.requires_approval = state[t].requires_approval
      /\ s.risk_level = state[t].risk_level
      /\ s.target_instance_type = state[t].target_instance_type
      /\ s.rollback_count = state[t].rollback_count
      /\ s.qa_passed = "True"
  BY <1>1 DEF PipelineState
<1>5. state' = [state EXCEPT ![t] = s]
  BY <1>2
<1> HIDE DEF s
<1>6. /\ state' \in [Threads -> PipelineState]
      /\ state'[t] = s
      /\ \A u \in Threads \ {t} : state'[u] = state[u]
      /\ \A u \in Threads : TypeAt(u)' = TypeAt(u)
  BY <1>1, <1>3, <1>4, <1>5, StateStep
<1>7. /\ pc[t] = "qa" /\ pc'[t] \in {"logging"}
      /\ pc' \in [Threads -> Nodes]
      /\ \A u \in Threads \ {t} : pc'[u] = pc[u]
  BY <1>1, <1>4, <1>6 DEF QaPass, TypeOK, Nodes, qa_router
<1>8. UNCHANGED <<snapshot, todo, result, record, answer, attempts, disturbed>>
  BY DEF QaPass, history
<1>9. /\ DOMAIN cfg' = Resources
      /\ \A r \in Resources : cfg'[r] \in Config(TypeOf[r])
  <2>1. CASE cfg' = cfg
    BY <1>1, <2>1 DEF TypeOK
  <2>2. CASE HoldsWaf(state[t]) /\ ReleaseWaf(t, outcome)
    BY <1>1, <2>2, ReleaseTyped DEF HoldsWaf, TypeAt
  <2> QED
    BY <1>2, <2>1, <2>2
<1>10. TypeOK'
  BY <1>1, <1>6, <1>7, <1>8, <1>9 DEF TypeOK
<1>11. ThreadInv(t)'
  BY <1>1, <1>4, <1>6, <1>7, <1>8
  DEF ThreadInv, ApprovalInv, Allowed, RetryInv, ProgramInv, KnownOps,
      BeforeAction, None
<1>12. \A u \in Threads \ {t} : ThreadInv(u)'
  BY <1>6, <1>7, <1>8, UntouchedThread DEF IInv
<1> QED
  BY <1>10, <1>11, <1>12 DEF IInv

\* The call a thread is about to make, and what it leaves.
LEMMA CallTyped ==
  ASSUME TypeOK, NEW t \in Threads, ThreadInv(t), Calling(t)
  PROVE  /\ Head(todo[t]) \in Ops[TypeAt(t)]
         /\ Tail(todo[t]) \in Seq(Ops[TypeAt(t)])
         /\ Tail(todo[t]) \in Seq(KnownOps(t))
         /\ Apply(Head(todo[t]), ConfigAt(t), t, state[t].target_instance_type,
                  snapshot[t]) \in Config(TypeAt(t))
<1>1. /\ todo[t] \in Seq(Ops[TypeAt(t)]) /\ todo[t] \in Seq(KnownOps(t))
      /\ todo[t] # << >>
  BY DEF TypeOK, ThreadInv, ProgramInv, Calling
<1>2. /\ Head(todo[t]) \in Ops[TypeAt(t)] /\ Head(todo[t]) \in KnownOps(t)
      /\ Tail(todo[t]) \in Seq(Ops[TypeAt(t)]) /\ Tail(todo[t]) \in Seq(KnownOps(t))
  BY <1>1, SeqHeadTail
<1>3. /\ TypeAt(t) \in ResourceTypes /\ ConfigAt(t) \in Config(TypeAt(t))
      /\ t \in Owners /\ snapshot[t] \in Snapshot(TypeAt(t))
  BY RecoveryAssumption
  DEF TypeAt, ConfigAt, PipelineState, TypeOK, ThreadInv, ProgramInv, Calling
<1>4. Head(todo[t]) = "modify_to_target" =>
        state[t].target_instance_type \in Tiers
  BY <1>2 DEF KnownOps
<1> QED
  BY <1>2, <1>3, <1>4, ApplyTyped

\* The result of a Web ACL call fits PipelineState.
LEMMA WafResultTyped ==
  ASSUME NEW p \in PipelineState, NEW waf \in {"success", "failed"}
  PROVE  [p EXCEPT !.waf_result = waf] \in PipelineState
BY DEF PipelineState

LEMMA CallSucceedsStep ==
  ASSUME IInv, NEW t \in Threads, CallSucceeds(t)
  PROVE  IInv'
<1>1. TypeOK /\ state \in [Threads -> PipelineState] /\ ThreadInv(t)
  BY DEF IInv, TypeOK
<1>2. /\ state' \in [Threads -> PipelineState]
      /\ \A u \in Threads \ {t} : state'[u] = state[u]
      /\ \A u \in Threads : TypeAt(u)' = TypeAt(u)
      /\ state'[t].selected_action = state[t].selected_action
      /\ state'[t].requires_approval = state[t].requires_approval
      /\ state'[t].risk_level = state[t].risk_level
      /\ state'[t].target_instance_type = state[t].target_instance_type
      /\ state'[t].rollback_count = state[t].rollback_count
      /\ state'[t].qa_passed = state[t].qa_passed
  <2> DEFINE s == [state[t] EXCEPT !.waf_result = "success"]
  <2>1. CASE state' = state
    BY <1>1, <2>1 DEF TypeAt
  <2>2. CASE state' = [state EXCEPT ![t] = s]
    <3>1. s \in PipelineState
      BY <1>1, WafResultTyped
    <3>2. /\ s.resource_id = state[t].resource_id
          /\ s.selected_action = state[t].selected_action
          /\ s.requires_approval = state[t].requires_approval
          /\ s.risk_level = state[t].risk_level
          /\ s.target_instance_type = state[t].target_instance_type
          /\ s.rollback_count = state[t].rollback_count
          /\ s.qa_passed = state[t].qa_passed
      BY <1>1 DEF PipelineState
    <3> HIDE DEF s
    <3>3. /\ state' \in [Threads -> PipelineState]
          /\ state'[t] = s
          /\ \A u \in Threads \ {t} : state'[u] = state[u]
          /\ \A u \in Threads : TypeAt(u)' = TypeAt(u)
      BY <1>1, <2>2, <3>1, <3>2, StateStep
    <3> QED
      BY <3>2, <3>3
  <2>3. state' = state \/ state' = [state EXCEPT ![t] = s]
    BY DEF CallSucceeds
  <2> QED
    BY <2>1, <2>2, <2>3
<1>3. /\ pc[t] \in {"execute", "rollback"} /\ Calling(t)
      /\ UNCHANGED <<pc, snapshot, result, record, answer, attempts>>
  BY DEF CallSucceeds, Calling
<1>4. /\ todo'[t] = Tail(todo[t])
      /\ DOMAIN todo' = Threads
      /\ \A u \in Threads \ {t} : todo'[u] = todo[u]
  BY <1>1 DEF CallSucceeds, TypeOK
<1>5. /\ todo'[t] \in Seq(Ops[TypeAt(t)])
      /\ todo'[t] \in Seq(KnownOps(t))
  BY <1>1, <1>3, <1>4, CallTyped
<1>6. /\ DOMAIN cfg' = Resources
      /\ \A r \in Resources : cfg'[r] \in Config(TypeOf[r])
  <2> DEFINE x == state[t].resource_id
             c == Apply(Head(todo[t]), ConfigAt(t), t,
                        state[t].target_instance_type, snapshot[t])
  <2>1. x \in Resources
    BY <1>1 DEF PipelineState
  <2>2. c \in Config(TypeOf[x])
    BY <1>1, <1>3, CallTyped DEF TypeAt
  <2>3. cfg' = [cfg EXCEPT ![x] = c]
    BY <1>1, <2>1 DEF CallSucceeds, ConfigAt, TypeOK
  <2> HIDE DEF c, x
  <2> QED
    BY <1>1, <2>1, <2>2, <2>3 DEF TypeOK
<1>7. disturbed' \in [Threads -> BOOLEAN]
  BY <1>1 DEF CallSucceeds, Disturb, TypeOK
<1>8. KnownOps(t)' = KnownOps(t)
  BY <1>2, <1>3 DEF KnownOps
<1>9. TypeOK'
  BY <1>1, <1>2, <1>3, <1>4, <1>5, <1>6, <1>7 DEF TypeOK
<1>10. ThreadInv(t)'
  BY <1>1, <1>2, <1>3, <1>4, <1>5, <1>8
  DEF ThreadInv, ApprovalInv, Allowed, RetryInv, ProgramInv,
      BeforeAction, None
<1>11. \A u \in Threads \ {t} : ThreadInv(u)'
  BY <1>2, <1>3, <1>4, UntouchedThread DEF IInv
<1> QED
  BY <1>9, <1>10, <1>11 DEF IInv

LEMMA CallFailsStep ==
  ASSUME IInv, NEW t \in Threads, CallFails(t)
  PROVE  IInv'
<1>1. TypeOK /\ state \in [Threads -> PipelineState] /\ ThreadInv(t)
  BY DEF IInv, TypeOK
<1>2. /\ state' \in [Threads -> PipelineState]
      /\ \A u \in Threads \ {t} : state'[u] = state[u]
      /\ \A u \in Threads : TypeAt(u)' = TypeAt(u)
      /\ state'[t].selected_action = state[t].selected_action
      /\ state'[t].requires_approval = state[t].requires_approval
      /\ state'[t].risk_level = state[t].risk_level
      /\ state'[t].target_instance_type = state[t].target_instance_type
      /\ state'[t].rollback_count = state[t].rollback_count
      /\ state'[t].qa_passed = state[t].qa_passed
  <2> DEFINE s == [state[t] EXCEPT !.waf_result = "failed"]
  <2>1. CASE state' = state
    BY <1>1, <2>1 DEF TypeAt
  <2>2. CASE state' = [state EXCEPT ![t] = s]
    <3>1. s \in PipelineState
      BY <1>1, WafResultTyped
    <3>2. /\ s.resource_id = state[t].resource_id
          /\ s.selected_action = state[t].selected_action
          /\ s.requires_approval = state[t].requires_approval
          /\ s.risk_level = state[t].risk_level
          /\ s.target_instance_type = state[t].target_instance_type
          /\ s.rollback_count = state[t].rollback_count
          /\ s.qa_passed = state[t].qa_passed
      BY <1>1 DEF PipelineState
    <3> HIDE DEF s
    <3>3. /\ state' \in [Threads -> PipelineState]
          /\ state'[t] = s
          /\ \A u \in Threads \ {t} : state'[u] = state[u]
          /\ \A u \in Threads : TypeAt(u)' = TypeAt(u)
      BY <1>1, <2>2, <3>1, <3>2, StateStep
    <3> QED
      BY <3>2, <3>3
  <2>3. state' = state \/ state' = [state EXCEPT ![t] = s]
    BY DEF CallFails
  <2> QED
    BY <2>1, <2>2, <2>3
<1>3. /\ pc[t] \in {"execute", "rollback"} /\ Calling(t)
      /\ UNCHANGED <<pc, snapshot, cfg, record, answer, attempts, disturbed>>
  BY DEF CallFails, Calling, history
<1>4. /\ DOMAIN todo' = Threads
      /\ \A u \in Threads \ {t} : todo'[u] = todo[u]
      /\ \/ Head(todo[t]) = "put_limit" /\ todo'[t] = <<"put_zero">>
         \/ todo'[t] = << >>
  BY <1>1 DEF CallFails, TypeOK
<1>5. /\ result' \in [Threads -> {"success", "failed", "partial_success",
                                 "not_implemented"}]
      /\ \A u \in Threads \ {t} : result'[u] = result[u]
      /\ pc[t] = "rollback" => result'[t] \in {"success", "failed"}
  <2>1. pc[t] = "rollback" => Head(todo[t]) # "apply_waf"
    <3>1. todo[t] \in Seq(KnownOps(t)) /\ todo[t] # << >>
      BY <1>1, <1>3 DEF ThreadInv, ProgramInv, Calling
    <3>2. Head(todo[t]) \in KnownOps(t)
      BY <3>1
    <3> QED
      BY <3>2 DEF KnownOps
  <2>2. pc[t] = "rollback" => result[t] \in {"success", "failed"}
    BY <1>1 DEF ThreadInv, ProgramInv
  <2> QED
    BY <1>1, <2>1, <2>2 DEF CallFails, TypeOK
<1>6. KnownOps(t)' = KnownOps(t)
  BY <1>2, <1>3 DEF KnownOps
<1>7. /\ todo'[t] \in Seq(Ops[TypeAt(t)])
      /\ todo'[t] \in Seq(KnownOps(t))
  <2>1. CASE todo'[t] = << >>
    BY <2>1
  <2>2. CASE Head(todo[t]) = "put_limit" /\ todo'[t] = <<"put_zero">>
    <3>1. TypeAt(t) \in ResourceTypes
      BY <1>1, RecoveryAssumption DEF TypeAt, PipelineState
    <3>2. Head(todo[t]) \in Ops[TypeAt(t)]
      BY <1>1, <1>3, CallTyped
    <3>3. "put_zero" \in Ops[TypeAt(t)]
      BY <2>2, <3>1, <3>2 DEF Ops, ResourceTypes
    <3>4. "put_zero" \in KnownOps(t)
      BY <3>3 DEF KnownOps
    <3> QED
      BY <2>2, <3>3, <3>4, SeqSingleton
  <2> QED
    BY <1>4, <2>1, <2>2
<1>8. TypeOK'
  BY <1>1, <1>2, <1>3, <1>4, <1>5, <1>7 DEF TypeOK
<1>9. ThreadInv(t)'
  BY <1>1, <1>2, <1>3, <1>5, <1>6, <1>7
  DEF ThreadInv, ApprovalInv, Allowed, RetryInv, ProgramInv,
      BeforeAction, None
<1>10. \A u \in Threads \ {t} : ThreadInv(u)'
  BY <1>2, <1>3, <1>4, <1>5, UntouchedThread DEF IInv
<1> QED
  BY <1>8, <1>9, <1>10 DEF IInv

\* A run that did nothing, or waits, never fails QA (QA-001, QA-005).
LEMMA OnlyActionsFail ==
  ASSUME NEW s, MayFail(s)
  PROVE  s.action_executed \notin {"NoAction", None}
BY DEF MayFail, QaVerdict

LEMMA QaFailStep ==
  ASSUME IInv, NEW t \in Threads, QaFail(t)
  PROVE  IInv'
<1> DEFINE s == [state[t] EXCEPT !.qa_passed = "False", !.whitelisted = FALSE]
<1>1. TypeOK /\ state \in [Threads -> PipelineState] /\ ThreadInv(t)
  BY DEF IInv, TypeOK
<1>2. s \in PipelineState
  BY <1>1, VerdictTyped
<1>3. /\ s.resource_id = state[t].resource_id
      /\ s.selected_action = state[t].selected_action
      /\ s.requires_approval = state[t].requires_approval
      /\ s.risk_level = state[t].risk_level
      /\ s.target_instance_type = state[t].target_instance_type
      /\ s.rollback_count = state[t].rollback_count
      /\ s.qa_passed = "False"
  BY <1>1 DEF PipelineState
<1>4. state' = [state EXCEPT ![t] = s]
  BY DEF QaFail
<1> HIDE DEF s
<1>5. /\ state' \in [Threads -> PipelineState]
      /\ state'[t] = s
      /\ \A u \in Threads \ {t} : state'[u] = state[u]
      /\ \A u \in Threads : TypeAt(u)' = TypeAt(u)
  BY <1>1, <1>2, <1>3, <1>4, StateStep
<1>6. /\ pc[t] = "qa" /\ pc'[t] \in {"rollback"}
      /\ pc' \in [Threads -> Nodes]
      /\ \A u \in Threads \ {t} : pc'[u] = pc[u]
  BY <1>1 DEF QaFail, TypeOK, Nodes
<1>7. UNCHANGED <<snapshot, cfg, record, answer, attempts, disturbed>>
  BY DEF QaFail, history
<1>8. /\ state[t].action_executed \notin {"NoAction", None}
      /\ snapshot[t] \in Snapshot(TypeAt(t))
  BY <1>1, <1>6, OnlyActionsFail DEF QaFail, ThreadInv, ProgramInv
<1>9. /\ DOMAIN todo' = Threads
      /\ \A u \in Threads \ {t} : todo'[u] = todo[u]
      /\ \/ todo'[t] = RollbackProgram(TypeAt(t), ConfigAt(t), snapshot[t])
         \/ todo'[t] = << >>
      /\ result' \in [Threads -> {"success", "failed", "partial_success",
                                 "not_implemented"}]
      /\ \A u \in Threads \ {t} : result'[u] = result[u]
      /\ result'[t] \in {"success", "failed"}
  BY <1>1 DEF QaFail, TypeOK
<1>10. /\ todo'[t] \in Seq(Ops[TypeAt(t)] \ NotRollback)
       /\ todo'[t] \in Seq(Ops[TypeAt(t)])
  <2>1. TypeAt(t) \in ResourceTypes /\ ConfigAt(t) \in Config(TypeAt(t))
    BY <1>1, RecoveryAssumption DEF TypeAt, ConfigAt, PipelineState, TypeOK
  <2>2. RollbackProgram(TypeAt(t), ConfigAt(t), snapshot[t])
          \in Seq(Ops[TypeAt(t)] \ NotRollback)
    BY <1>8, <2>1, RollbackProgramTyped
  <2>3. << >> \in Seq(Ops[TypeAt(t)] \ NotRollback)
    OBVIOUS
  <2>4. todo'[t] \in Seq(Ops[TypeAt(t)] \ NotRollback)
    BY <1>9, <2>2, <2>3
  <2> QED
    BY <2>4, SeqMonotone
<1>11. KnownOps(t)' = Ops[TypeAt(t)] \ NotRollback
  BY <1>5, <1>6 DEF KnownOps, NotRollback
<1>12. TypeOK'
  BY <1>1, <1>5, <1>6, <1>7, <1>9, <1>10 DEF TypeOK
<1>13. ThreadInv(t)'
  BY <1>1, <1>3, <1>5, <1>6, <1>7, <1>8, <1>9, <1>10, <1>11
  DEF ThreadInv, ApprovalInv, Allowed, RetryInv, ProgramInv,
      BeforeAction, None
<1>14. \A u \in Threads \ {t} : ThreadInv(u)'
  BY <1>5, <1>6, <1>7, <1>9, UntouchedThread DEF IInv
<1> QED
  BY <1>12, <1>13, <1>14 DEF IInv

LEMMA RollbackEndStep ==
  ASSUME IInv, NEW t \in Threads, RollbackEnd(t)
  PROVE  IInv'
<1> DEFINE s == [state[t] EXCEPT !.rolled_back = TRUE,
                                 !.rollback_status = result[t],
                                 !.rollback_count = @ + 1]
<1>1. TypeOK /\ state \in [Threads -> PipelineState] /\ ThreadInv(t)
  BY DEF IInv, TypeOK
<1>2. /\ pc[t] = "rollback" /\ todo[t] = << >>
      /\ state' = [state EXCEPT ![t] = s]
  BY DEF RollbackEnd
<1>3. /\ state[t].rollback_count \in 0 .. 1 /\ state[t].qa_passed = "False"
      /\ result[t] \in {"success", "failed"}
  BY <1>1, <1>2 DEF ThreadInv, RetryInv, ProgramInv, PipelineState
<1>4. s \in PipelineState
  <2> DEFINE p == state[t]
             q == [p EXCEPT !.rolled_back = TRUE]
             r == [q EXCEPT !.rollback_status = result[t]]
  <2>1. p \in PipelineState
    BY <1>1
  <2>2. q \in PipelineState
    <3> HIDE DEF p
    <3> QED
      BY <2>1 DEF PipelineState
  <2>3. r \in PipelineState
    <3> HIDE DEF q
    <3> QED
      BY <1>3, <2>2 DEF PipelineState
  <2>4. r.rollback_count = state[t].rollback_count
    BY <1>1 DEF PipelineState
  <2>5. [r EXCEPT !.rollback_count = @ + 1] \in PipelineState
    <3> HIDE DEF r
    <3> QED
      BY <1>3, <2>3, <2>4 DEF PipelineState
  <2> QED
    BY <2>5
<1>5. /\ s.resource_id = state[t].resource_id
      /\ s.selected_action = state[t].selected_action
      /\ s.requires_approval = state[t].requires_approval
      /\ s.risk_level = state[t].risk_level
      /\ s.target_instance_type = state[t].target_instance_type
      /\ s.rollback_count = state[t].rollback_count + 1
      /\ s.qa_passed = "False"
  BY <1>1, <1>3 DEF PipelineState
<1> HIDE DEF s
<1>6. /\ state' \in [Threads -> PipelineState]
      /\ state'[t] = s
      /\ \A u \in Threads \ {t} : state'[u] = state[u]
      /\ \A u \in Threads : TypeAt(u)' = TypeAt(u)
  BY <1>1, <1>2, <1>4, <1>5, StateStep
<1>7. /\ pc'[t] = qa_router(s)
      /\ pc' \in [Threads -> Nodes]
      /\ \A u \in Threads \ {t} : pc'[u] = pc[u]
  BY <1>1, <1>6 DEF RollbackEnd, TypeOK, Nodes, qa_router
<1>8. \/ pc'[t] = "action" /\ s.rollback_count = 1
      \/ pc'[t] = "logging" /\ s.rollback_count = 2
  BY <1>3, <1>5, <1>7 DEF qa_router
<1>9. UNCHANGED <<snapshot, cfg, todo, result, record, answer, attempts, disturbed>>
  BY DEF RollbackEnd, history
<1>10. TypeOK'
  BY <1>1, <1>6, <1>7, <1>9, QuietStep DEF TypeOK
<1>11. ThreadInv(t)'
  <2>1. ApprovalInv(t)'
    BY <1>1, <1>2, <1>5, <1>6, <1>8, <1>9 DEF ThreadInv, ApprovalInv, Allowed
  <2>2. RetryInv(t)'
    BY <1>1, <1>2, <1>3, <1>5, <1>6, <1>8, <1>9
    DEF ThreadInv, RetryInv, BeforeAction
  <2>3. ProgramInv(t)'
    <3>1. todo'[t] = << >> /\ << >> \in Seq(KnownOps(t)')
      BY <1>2, <1>9
    <3> QED
      BY <1>1, <1>5, <1>6, <1>8, <1>9, <3>1 DEF ThreadInv, ProgramInv
  <2> QED
    BY <2>1, <2>2, <2>3 DEF ThreadInv
<1>12. \A u \in Threads \ {t} : ThreadInv(u)'
  BY <1>6, <1>7, <1>9, UntouchedThread DEF IInv
<1> QED
  BY <1>10, <1>11, <1>12 DEF IInv

LEMMA LoggingStep ==
  ASSUME IInv, NEW t \in Threads, Logging(t)
  PROVE  IInv'
<1>1. TypeOK /\ state \in [Threads -> PipelineState] /\ ThreadInv(t)
  BY DEF IInv, TypeOK
<1>2. /\ pc[t] = "logging" /\ pc'[t] \in {"END"}
      /\ pc' \in [Threads -> Nodes]
      /\ \A u \in Threads \ {t} : pc'[u] = pc[u]
  BY <1>1 DEF Logging, TypeOK, Nodes
<1>3. /\ record'[t] \in {record[t], Row(state[t])}
      /\ DOMAIN record' = Threads
      /\ \A u \in Threads \ {t} : record'[u] = record[u]
  BY <1>1 DEF Logging, TypeOK
<1>4. UNCHANGED <<state, snapshot, cfg, todo, result, answer, attempts, disturbed>>
  BY DEF Logging, history
<1>5. \A u \in Threads : TypeAt(u)' = TypeAt(u)
  BY <1>4 DEF TypeAt
<1>6. Row(state[t])' = Row(state[t])
  BY <1>4
<1>7. TypeOK'
  BY <1>1, <1>2, <1>3, <1>4, <1>5 DEF TypeOK
<1>8. ThreadInv(t)'
  BY <1>1, <1>2, <1>3, <1>4, <1>5, <1>6
  DEF ThreadInv, ApprovalInv, Allowed, RetryInv, ProgramInv, KnownOps,
      BeforeAction, None
<1>9. \A u \in Threads \ {t} : ThreadInv(u)'
  BY <1>2, <1>3, <1>4, UntouchedThread DEF IInv
<1> QED
  BY <1>7, <1>8, <1>9 DEF IInv

LEMMA CrashStep ==
  ASSUME IInv, NEW t \in Threads, Crash(t)
  PROVE  IInv'
<1>1. TypeOK /\ state \in [Threads -> PipelineState] /\ ThreadInv(t)
  BY DEF IInv, TypeOK
<1>2. /\ pc[t] # "END" /\ pc'[t] = "dead"
      /\ pc' \in [Threads -> Nodes]
      /\ \A u \in Threads \ {t} : pc'[u] = pc[u]
  BY <1>1 DEF Crash, TypeOK, Nodes
<1>3. UNCHANGED <<state, snapshot, cfg, todo, result, record, answer, attempts,
                  disturbed>>
  BY DEF Crash, history
<1>4. \A u \in Threads : TypeAt(u)' = TypeAt(u)
  BY <1>3 DEF TypeAt
<1>5. todo'[t] \in Seq(KnownOps(t)')
  <2>1. todo[t] \in Seq(KnownOps(t))
    BY <1>1 DEF ThreadInv, ProgramInv
  <2>2. KnownOps(t) \subseteq KnownOps(t)'
    BY <1>2, <1>3, <1>4 DEF KnownOps
  <2> QED
    BY <1>3, <2>1, <2>2, SeqMonotone
<1>6. TypeOK'
  BY <1>1, <1>2, <1>3, <1>4, QuietStep DEF TypeOK
<1>7. ThreadInv(t)'
  BY <1>1, <1>2, <1>3, <1>4, <1>5
  DEF ThreadInv, ApprovalInv, Allowed, RetryInv, ProgramInv,
      BeforeAction, None
<1>8. \A u \in Threads \ {t} : ThreadInv(u)'
  BY <1>2, <1>3, UntouchedThread DEF IInv
<1> QED
  BY <1>6, <1>7, <1>8 DEF IInv

LEMMA SettleStep ==
  ASSUME IInv, NEW r \in Resources, Settle(r)
  PROVE  IInv'
<1>1. UNCHANGED <<pc, state, snapshot, todo, result, record, answer, attempts,
                  disturbed>>
  BY DEF Settle, history
<1>2. /\ TypeOf[r] = "EC2" /\ cfg[r] \in Config("EC2")
      /\ cfg' = [cfg EXCEPT ![r] = Settled(cfg[r])]
  BY DEF Settle, IInv, TypeOK
<1>3. /\ DOMAIN cfg' = Resources
      /\ \A x \in Resources : cfg'[x] \in Config(TypeOf[x])
  BY <1>2, SettledTyped DEF IInv, TypeOK
<1>4. \A u \in Threads : TypeAt(u)' = TypeAt(u)
  BY <1>1 DEF TypeAt
<1>5. TypeOK'
  BY <1>1, <1>3, <1>4 DEF IInv, TypeOK
<1>6. \A u \in Threads : ThreadInv(u)'
  BY <1>1, UntouchedThread DEF IInv
<1> QED
  BY <1>5, <1>6 DEF IInv

-----------------------------------------------------------------------------
(***************************************************************************)
(* The theorems                                                            *)
(***************************************************************************)
LEMMA InitInvariant == Init => IInv
<1> SUFFICES ASSUME Init
             PROVE  IInv
  OBVIOUS
<1>1. PICK target \in [Threads -> Resources], g \in [Threads -> Graphs] :
        state = [t \in Threads |-> InitialState(target[t], g[t])]
  BY DEF Init
<1>2. \A t \in Threads : InitialState(target[t], g[t]) \in PipelineState
  <2> SUFFICES ASSUME NEW t \in Threads
               PROVE  InitialState(target[t], g[t]) \in PipelineState
    OBVIOUS
  <2>1. target[t] \in Resources /\ g[t] \in {"app", "approval_app"}
    BY RecoveryAssumption
  <2> QED
    BY <2>1 DEF InitialState, PipelineState
<1>3. TypeOK
  BY <1>1, <1>2, RecoveryAssumption DEF Init, TypeOK, Nodes
<1>4. ASSUME NEW t \in Threads
      PROVE  ThreadInv(t)
  <2>1. state[t] = InitialState(target[t], g[t])
    BY <1>1
  <2>2. /\ state[t].qa_passed = None /\ state[t].rollback_count = 0
        /\ state[t].selected_action = None
    BY <2>1 DEF InitialState
  <2>3. /\ pc[t] = "detection" /\ todo[t] = << >> /\ attempts[t] = 0
        /\ record[t] = NoRecord
    BY DEF Init
  <2> QED
    BY <2>2, <2>3
    DEF ThreadInv, ApprovalInv, RetryInv, ProgramInv, None
<1> QED
  BY <1>3, <1>4 DEF IInv

LEMMA StepInvariant == IInv /\ [Next]_vars => IInv'
<1> SUFFICES ASSUME IInv, [Next]_vars
             PROVE  IInv'
  OBVIOUS
<1>1. ASSUME NEW t \in Threads, Step(t)
      PROVE  IInv'
  BY <1>1, DetectionStep, ClassificationStep, DecisionStep, NotifyGateStep,
     PassGateStep, ActionSkipStep, ActionHoldStep, ActionSnapshotStep,
     CallSucceedsStep, CallFailsStep, ActionEndStep, QaWhitelistedStep,
     QaPassStep, QaFailStep, RollbackEndStep, LoggingStep DEF Step
<1>2. ASSUME NEW t \in Threads, Approve(t) \/ Reject(t) \/ Crash(t)
      PROVE  IInv'
  BY <1>2, ApproveStep, RejectStep, CrashStep
<1>3. ASSUME NEW r \in Resources, Settle(r)
      PROVE  IInv'
  BY <1>3, SettleStep
<1>4. CASE UNCHANGED vars
  <2>1. /\ UNCHANGED <<pc, state, snapshot, cfg, todo, result, record>>
        /\ UNCHANGED <<answer, attempts, disturbed>>
    BY <1>4 DEF vars
  <2>2. \A t \in Threads : TypeAt(t)' = TypeAt(t)
    BY <2>1 DEF TypeAt
  <2>3. TypeOK'
    BY <2>1, <2>2 DEF IInv, TypeOK
  <2>4. \A t \in Threads : ThreadInv(t)'
    BY <2>1, UntouchedThread DEF IInv
  <2> QED
    BY <2>3, <2>4 DEF IInv
<1> QED
  BY <1>1, <1>2, <1>3, <1>4 DEF Next

(***************************************************************************)
(* The control state of every thread explains its retries, its approval    *)
(* and its API calls (build_graph, build_approval_graph).                  *)
(***************************************************************************)
THEOREM Invariance == Spec => []IInv
<1>1. Init => IInv
  BY InitInvariant
<1>2. IInv /\ [Next]_vars => IInv'
  BY StepInvariant
<1> QED
  BY <1>1, <1>2, PTL DEF Spec

(***************************************************************************)
(* Every variable keeps its type: rollback_count in 0..2, a resource the   *)
(* shape of its type, a program calls its resource understands.            *)
(***************************************************************************)
THEOREM TypeCorrect == Spec => []TypeOK
<1>1. IInv => TypeOK
  BY DEF IInv
<1> QED
  BY <1>1, Invariance, PTL

(***************************************************************************)
(* No thread acts on AWS unless its action is LOW risk or the              *)
(* administrator approved that run (decision_node, approval_gate_node,     *)
(* action_node).                                                           *)
(***************************************************************************)
THEOREM ApprovalSafety == Spec => []NoUnapprovedAction
<1>1. IInv => NoUnapprovedAction
  BY DEF IInv, ThreadInv, ApprovalInv, Allowed, NoUnapprovedAction
<1> QED
  BY <1>1, Invariance, PTL

(***************************************************************************)
(* A run acts at most twice and is recorded as rollback_exhausted exactly  *)
(* when both tries failed QA (qa_router, qa_node, _build_run_record).      *)
(***************************************************************************)
THEOREM RetryBounded == Spec => []RetryBound
<1>1. ASSUME IInv, NEW t \in Threads
      PROVE  /\ attempts[t] <= 2
             /\ pc[t] = "logging" /\ state[t].qa_passed = "False"
                  => attempts[t] = 2 /\ state[t].rollback_count = 2
             /\ record[t] # NoRecord =>
                  /\ record[t].status # "failed_qa"
                  /\ record[t].status = "rollback_exhausted" <=>
                       attempts[t] = 2 /\ state[t].qa_passed = "False"
  <2>1. attempts[t] \in 0 .. 2 /\ state[t].rollback_count \in 0 .. 2
    BY <1>1 DEF IInv, TypeOK, PipelineState
  <2>2. RetryInv(t)
    BY <1>1 DEF IInv, ThreadInv
  <2>3. record[t] # NoRecord => record[t].status = RunStatus(state[t])
    BY <2>2 DEF RetryInv, Row
  <2>4. attempts[t] <= 2
    BY <2>1
  <2>5. pc[t] = "logging" /\ state[t].qa_passed = "False"
          => attempts[t] = 2 /\ state[t].rollback_count = 2
    BY <2>2 DEF RetryInv
  <2>6. ASSUME record[t] # NoRecord
        PROVE  /\ record[t].status # "failed_qa"
               /\ record[t].status = "rollback_exhausted" <=>
                    attempts[t] = 2 /\ state[t].qa_passed = "False"
    <3>1. pc[t] = "END"
      BY <2>2, <2>6 DEF RetryInv
    <3>2. CASE state[t].qa_passed = "False"
      <4>1. attempts[t] = 2 /\ state[t].rollback_count = 2
        BY <2>2, <3>1, <3>2 DEF RetryInv
      <4>2. RunStatus(state[t]) = "rollback_exhausted"
        BY <4>1 DEF RunStatus
      <4> QED
        BY <2>3, <2>6, <3>2, <4>1, <4>2
    <3>3. CASE state[t].qa_passed # "False"
      <4>1. state[t].rollback_count <= 1
        BY <2>2, <3>1, <3>3 DEF RetryInv
      <4>2. RunStatus(state[t]) = "completed"
        BY <2>1, <3>3, <4>1 DEF RunStatus
      <4> QED
        BY <2>3, <2>6, <3>3, <4>2
    <3> QED
      BY <3>2, <3>3
  <2> QED
    BY <2>4, <2>5, <2>6
<1>2. IInv => RetryBound
  BY <1>1 DEF RetryBound
<1> QED
  BY <1>2, Invariance, PTL

-----------------------------------------------------------------------------
(***************************************************************************)
(* Steps and their images                                                  *)
(***************************************************************************)
\* The step is one of thread t.
Elsewhere(t) ==
  \A u \in Threads \ {t} : /\ pc'[u] = pc[u] /\ state'[u] = state[u]
                           /\ record'[u] = record[u]

\* Types are as they were, and so is SelectedInv of the threads not touched.
LEMMA SelectedElsewhere ==
  ASSUME RefinementInv, NEW t \in Threads, Elsewhere(t)
  PROVE  \A u \in Threads \ {t} : SelectedInv(u)'
BY DEF RefinementInv, Elsewhere, SelectedInv, Unheld

\* What such a step does to the mapped variables.
LEMMA Image ==
  ASSUME NEW t \in Threads, Elsewhere(t)
  PROVE  /\ PhaseOf[t] = Phase(t) /\ OutcomeOf[t] = Outcome(t)
         /\ PhaseOf' = [PhaseOf EXCEPT ![t] = Phase(t)']
         /\ OutcomeOf' = [OutcomeOf EXCEPT ![t] = Outcome(t)']
<1>1. \A u \in Threads \ {t} : Phase(u)' = Phase(u) /\ Outcome(u)' = Outcome(u)
  BY DEF Elsewhere, Phase, Outcome, Standing
<1>2. PhaseOf' = [u \in Threads |-> Phase(u)'] /\ OutcomeOf' = [u \in Threads |-> Outcome(u)']
  BY DEF PhaseOf, OutcomeOf
<1>3. /\ PhaseOf[t] = Phase(t) /\ OutcomeOf[t] = Outcome(t)
      /\ \A u \in Threads : PhaseOf[u] = Phase(u) /\ OutcomeOf[u] = Outcome(u)
      /\ DOMAIN PhaseOf = Threads /\ DOMAIN OutcomeOf = Threads
      /\ PhaseOf = [u \in Threads |-> PhaseOf[u]]
      /\ OutcomeOf = [u \in Threads |-> OutcomeOf[u]]
  BY DEF PhaseOf, OutcomeOf
<1> QED
  BY <1>1, <1>2, <1>3

\* A step that leaves the phase of its thread is none of the contract.
LEMMA Stutters ==
  ASSUME NEW t \in Threads, Elsewhere(t), Phase(t)' = Phase(t),
         record'[t] = record[t], attempts' = attempts
  PROVE  UNCHANGED Contract!vars
<1>1. Outcome(t)' = Outcome(t)
  BY DEF Outcome
<1>2. PhaseOf' = [PhaseOf EXCEPT ![t] = PhaseOf[t]] /\ OutcomeOf' = [OutcomeOf EXCEPT ![t] = OutcomeOf[t]]
  BY <1>1, Image
<1>3. PhaseOf' = PhaseOf /\ OutcomeOf' = OutcomeOf
  BY <1>2 DEF PhaseOf, OutcomeOf
<1> QED
  BY <1>3 DEF Contract!vars

\* One that changes nothing else moves that run.
LEMMA Moves ==
  ASSUME NEW t \in Threads, Elsewhere(t), record'[t] = record[t]
  PROVE  Contract!Move(t, Phase(t), Phase(t)') /\ OutcomeOf' = OutcomeOf
<1>1. Outcome(t)' = Outcome(t)
  BY DEF Outcome
<1>2. OutcomeOf' = [OutcomeOf EXCEPT ![t] = OutcomeOf[t]]
  BY <1>1, Image
<1>3. OutcomeOf' = OutcomeOf
  BY <1>2 DEF OutcomeOf
<1> QED
  BY <1>3, Image DEF Contract!Move

-----------------------------------------------------------------------------
(***************************************************************************)
(* Before the action                                                       *)
(***************************************************************************)
LEMMA DetectionMaps ==
  ASSUME RefinementInv, NEW t \in Threads, Detection(t)
  PROVE  SelectedInv(t)' /\ Elsewhere(t) /\ [Contract!Next]_Contract!vars
<1>1. PICK flag \in BOOLEAN : state' = [state EXCEPT ![t].anomaly_flag = flag]
  BY DEF Detection
<1>2. /\ state \in [Threads -> PipelineState] /\ pc \in [Threads -> Nodes]
      /\ RetryInv(t)
  BY DEF RefinementInv, IInv, TypeOK, ThreadInv
<1>3. /\ pc[t] = "detection" /\ pc'[t] \in {"classification", "logging"}
      /\ \A u \in Threads \ {t} : pc'[u] = pc[u] /\ state'[u] = state[u]
      /\ record' = record /\ attempts' = attempts
  BY <1>1, <1>2 DEF Detection, detection_router, history
<1>4. state'[t].qa_passed = state[t].qa_passed /\ state[t].qa_passed = None
  BY <1>1, <1>2, <1>3 DEF PipelineState, RetryInv, BeforeAction
<1>5. Elsewhere(t)
  BY <1>3 DEF Elsewhere
<1>6. Phase(t) = "undecided" /\ Phase(t)' \in {"undecided", "settled"}
  BY <1>3, <1>4 DEF Phase, None
<1>7. Phase(t)' = "undecided" => UNCHANGED Contract!vars
  BY <1>3, <1>5, <1>6, Stutters
<1>8. Phase(t)' = "settled" => Contract!Decide(t)
  BY <1>3, <1>5, <1>6, Moves DEF Contract!Decide
<1>9. SelectedInv(t)'
  BY <1>3 DEF SelectedInv
<1> QED
  BY <1>5, <1>6, <1>7, <1>8, <1>9 DEF Contract!Next

LEMMA ClassificationMaps ==
  ASSUME RefinementInv, NEW t \in Threads, Classification(t)
  PROVE  SelectedInv(t)' /\ Elsewhere(t) /\ [Contract!Next]_Contract!vars
<1>1. state \in [Threads -> PipelineState] /\ pc \in [Threads -> Nodes]
  BY DEF RefinementInv, IInv, TypeOK
<1>2. /\ pc[t] = "classification" /\ pc'[t] = "decision"
      /\ \A u \in Threads \ {t} : pc'[u] = pc[u] /\ state'[u] = state[u]
      /\ record' = record /\ attempts' = attempts
  BY <1>1 DEF Classification, history
<1>3. Elsewhere(t)
  BY <1>2 DEF Elsewhere
<1>4. Phase(t)' = Phase(t)
  BY <1>2 DEF Phase
<1>5. SelectedInv(t)'
  BY <1>2 DEF SelectedInv
<1> QED
  BY <1>2, <1>3, <1>4, <1>5, Stutters

\* Whatever is chosen, the run is idle, held or cleared.
LEMMA DecisionMaps ==
  ASSUME RefinementInv, NEW t \in Threads, Decision(t)
  PROVE  SelectedInv(t)' /\ Elsewhere(t) /\ [Contract!Next]_Contract!vars
<1>1. state \in [Threads -> PipelineState] /\ pc \in [Threads -> Nodes]
  BY DEF RefinementInv, IInv, TypeOK
<1>2. /\ TypeAt(t) \in ResourceTypes
      /\ state[t].anomaly_type \in AnomalyTypes \cup {None}
  BY <1>1, RecoveryAssumption DEF TypeAt, PipelineState
<1>3. state'[t].selected_action \in Actions
  <2>1. PICK action \in AllowedActions(TypeAt(t), state[t].anomaly_type) :
          state'[t].selected_action = action
    BY <1>1 DEF Decision, PipelineState
  <2> QED
    BY <1>2, <2>1, CandidatesAreActions
<1>4. /\ pc[t] = "decision" /\ pc'[t] \in {"notify_gate", "action"}
      /\ \A u \in Threads \ {t} : pc'[u] = pc[u] /\ state'[u] = state[u]
      /\ record' = record /\ attempts' = attempts
  BY <1>1 DEF Decision, history
<1>5. Elsewhere(t)
  BY <1>4 DEF Elsewhere
<1>6. Phase(t) = "undecided" /\ Phase(t)' \in {"idle", "held", "cleared"}
  BY <1>4 DEF Phase, Standing
<1>7. Contract!Decide(t)
  BY <1>4, <1>5, <1>6, Moves DEF Contract!Decide
<1>8. SelectedInv(t)'
  BY <1>3, <1>4 DEF SelectedInv
<1> QED
  BY <1>5, <1>7, <1>8 DEF Contract!Next

LEMMA NotifyGateMaps ==
  ASSUME RefinementInv, NEW t \in Threads, NotifyGate(t)
  PROVE  SelectedInv(t)' /\ Elsewhere(t) /\ [Contract!Next]_Contract!vars
<1>1. pc \in [Threads -> Nodes] /\ SelectedInv(t)
  BY DEF RefinementInv, IInv, TypeOK
<1>2. /\ pc[t] = "notify_gate" /\ pc'[t] = "approval_gate"
      /\ \A u \in Threads \ {t} : pc'[u] = pc[u]
      /\ state' = state /\ record' = record /\ attempts' = attempts
  BY <1>1 DEF NotifyGate, history
<1>3. Elsewhere(t)
  BY <1>2 DEF Elsewhere
<1>4. Phase(t)' = Phase(t)
  BY <1>2 DEF Phase, Standing
<1>5. SelectedInv(t)'
  BY <1>1, <1>2 DEF SelectedInv
<1> QED
  BY <1>2, <1>3, <1>4, <1>5, Stutters

LEMMA PassGateMaps ==
  ASSUME RefinementInv, NEW t \in Threads, PassGate(t)
  PROVE  SelectedInv(t)' /\ Elsewhere(t) /\ [Contract!Next]_Contract!vars
<1>1. pc \in [Threads -> Nodes] /\ SelectedInv(t)
  BY DEF RefinementInv, IInv, TypeOK
<1>2. /\ pc[t] = "approval_gate" /\ pc'[t] = "action"
      /\ \A u \in Threads \ {t} : pc'[u] = pc[u]
      /\ state' = state /\ record' = record /\ attempts' = attempts
  BY <1>1 DEF PassGate, history
<1>3. Elsewhere(t)
  BY <1>2 DEF Elsewhere
<1>4. Phase(t)' = Phase(t)
  BY <1>2 DEF Phase, Standing
<1>5. SelectedInv(t)'
  BY <1>1, <1>2 DEF SelectedInv
<1> QED
  BY <1>2, <1>3, <1>4, <1>5, Stutters

\* An approval clears what was held.
LEMMA ApproveMaps ==
  ASSUME RefinementInv, NEW t \in Threads, Approve(t)
  PROVE  SelectedInv(t)' /\ Elsewhere(t) /\ [Contract!Next]_Contract!vars
<1>1. /\ state \in [Threads -> PipelineState] /\ pc \in [Threads -> Nodes]
      /\ SelectedInv(t)
  BY DEF RefinementInv, IInv, TypeOK
<1>2. /\ pc[t] = "approval_gate" /\ pc'[t] = "action"
      /\ state[t].requires_approval
      /\ \A u \in Threads \ {t} : pc'[u] = pc[u] /\ state'[u] = state[u]
      /\ record' = record /\ attempts' = attempts
  BY <1>1 DEF Approve, WaitingForApproval
<1>3. /\ state'[t].selected_action = state[t].selected_action
      /\ ~state'[t].requires_approval
  BY <1>1 DEF Approve, PipelineState
<1>4. Elsewhere(t)
  BY <1>2 DEF Elsewhere
<1>5. \/ Phase(t) = "idle" /\ Phase(t)' = "idle"
      \/ Phase(t) = "held" /\ Phase(t)' = "cleared"
  BY <1>2, <1>3 DEF Phase, Standing
<1>6. Phase(t)' = "idle" => UNCHANGED Contract!vars
  BY <1>2, <1>4, <1>5, Stutters
<1>7. Phase(t)' = "cleared" => Contract!Release(t)
  BY <1>2, <1>4, <1>5, Moves DEF Contract!Release
<1>8. SelectedInv(t)'
  BY <1>1, <1>2, <1>3 DEF SelectedInv
<1> QED
  BY <1>4, <1>5, <1>6, <1>7, <1>8 DEF Contract!Next

\* A rejection leaves the run idle.
LEMMA RejectMaps ==
  ASSUME RefinementInv, NEW t \in Threads, Reject(t)
  PROVE  SelectedInv(t)' /\ Elsewhere(t) /\ [Contract!Next]_Contract!vars
<1>1. state \in [Threads -> PipelineState] /\ pc \in [Threads -> Nodes]
  BY DEF RefinementInv, IInv, TypeOK
<1>2. /\ pc[t] = "approval_gate" /\ pc'[t] = "action"
      /\ state[t].requires_approval
      /\ \A u \in Threads \ {t} : pc'[u] = pc[u] /\ state'[u] = state[u]
      /\ record' = record /\ attempts' = attempts
  BY <1>1 DEF Reject, WaitingForApproval
<1>3. state'[t].selected_action = "NoAction"
  BY <1>1 DEF Reject, PipelineState
<1>4. Elsewhere(t)
  BY <1>2 DEF Elsewhere
<1>5. Phase(t) \in {"idle", "held"} /\ Phase(t)' = "idle"
  BY <1>2, <1>3 DEF Phase, Standing
<1>6. Phase(t) = "idle" => UNCHANGED Contract!vars
  BY <1>2, <1>4, <1>5, Stutters
<1>7. Phase(t) = "held" => Contract!Release(t)
  BY <1>2, <1>4, <1>5, Moves DEF Contract!Release
<1>8. SelectedInv(t)'
  BY <1>2, <1>3 DEF SelectedInv, Actions
<1> QED
  BY <1>4, <1>5, <1>6, <1>7, <1>8 DEF Contract!Next

-----------------------------------------------------------------------------
(***************************************************************************)
(* The action                                                              *)
(***************************************************************************)
LEMMA ActionSkipMaps ==
  ASSUME RefinementInv, NEW t \in Threads, ActionSkip(t)
  PROVE  SelectedInv(t)' /\ Elsewhere(t) /\ [Contract!Next]_Contract!vars
<1>1. /\ state \in [Threads -> PipelineState] /\ pc \in [Threads -> Nodes]
      /\ SelectedInv(t)
  BY DEF RefinementInv, IInv, TypeOK
<1>2. /\ pc[t] = "action" /\ pc'[t] = "qa"
      /\ state[t].selected_action = "NoAction"
      /\ \A u \in Threads \ {t} : pc'[u] = pc[u] /\ state'[u] = state[u]
      /\ record' = record /\ attempts' = attempts
  BY <1>1 DEF ActionSkip, history
<1>3. /\ state'[t].selected_action = state[t].selected_action
      /\ state'[t].action_executed = "NoAction"
  BY <1>1 DEF ActionSkip, Executed, PipelineState
<1>4. Elsewhere(t)
  BY <1>2 DEF Elsewhere
<1>5. Phase(t)' = Phase(t)
  BY <1>2, <1>3 DEF Phase, Standing, None
<1>6. SelectedInv(t)'
  BY <1>1, <1>2, <1>3 DEF SelectedInv
<1> QED
  BY <1>2, <1>4, <1>5, <1>6, Stutters

\* In the graph without a gate a risky action is held for ever.
LEMMA ActionHoldMaps ==
  ASSUME RefinementInv, NEW t \in Threads, ActionHold(t)
  PROVE  SelectedInv(t)' /\ Elsewhere(t) /\ [Contract!Next]_Contract!vars
<1>1. /\ state \in [Threads -> PipelineState] /\ pc \in [Threads -> Nodes]
      /\ SelectedInv(t)
  BY DEF RefinementInv, IInv, TypeOK
<1>2. /\ pc[t] = "action" /\ pc'[t] = "qa"
      /\ state[t].selected_action # "NoAction" /\ state[t].requires_approval
      /\ \A u \in Threads \ {t} : pc'[u] = pc[u] /\ state'[u] = state[u]
      /\ record' = record /\ attempts' = attempts
  BY <1>1 DEF ActionHold, history
<1>3. /\ state'[t].selected_action = state[t].selected_action
      /\ state'[t].action_executed = None
  BY <1>1 DEF ActionHold, Executed, PipelineState
<1>4. Elsewhere(t)
  BY <1>2 DEF Elsewhere
<1>5. Phase(t)' = Phase(t)
  BY <1>2, <1>3 DEF Phase, Standing, None
<1>6. SelectedInv(t)'
  BY <1>1, <1>2, <1>3 DEF SelectedInv
<1> QED
  BY <1>2, <1>4, <1>5, <1>6, Stutters

\* Taking the snapshot is the beginning of a try, of which there are two.
LEMMA ActionSnapshotMaps ==
  ASSUME RefinementInv, NEW t \in Threads, ActionSnapshot(t)
  PROVE  SelectedInv(t)' /\ Elsewhere(t) /\ [Contract!Next]_Contract!vars
<1>1. /\ state \in [Threads -> PipelineState] /\ pc \in [Threads -> Nodes]
      /\ attempts \in [Threads -> 0 .. 2]
      /\ SelectedInv(t) /\ RetryInv(t)
  BY DEF RefinementInv, IInv, TypeOK, ThreadInv
<1>2. /\ pc[t] = "action" /\ pc'[t] = "execute"
      /\ state[t].selected_action # "NoAction" /\ ~state[t].requires_approval
      /\ \A u \in Threads \ {t} : pc'[u] = pc[u] /\ state'[u] = state[u]
      /\ record' = record /\ attempts' = [attempts EXCEPT ![t] = @ + 1]
  BY <1>1 DEF ActionSnapshot
<1>3. /\ state'[t].selected_action = state[t].selected_action
      /\ state'[t].requires_approval = state[t].requires_approval
  BY <1>1 DEF ActionSnapshot, PipelineState
<1>4. attempts[t] < 2
  BY <1>1, <1>2 DEF RetryInv, PipelineState
<1>5. Elsewhere(t)
  BY <1>2 DEF Elsewhere
<1>6. Phase(t) = "cleared" /\ Phase(t)' = "acting"
  BY <1>2 DEF Phase, Standing
<1>7. Contract!Try(t)
  BY <1>2, <1>4, <1>5, <1>6, Moves DEF Contract!Try
<1>8. SelectedInv(t)'
  BY <1>1, <1>2, <1>3 DEF SelectedInv, Unheld
<1> QED
  BY <1>5, <1>7, <1>8 DEF Contract!Next

\* The calls themselves are beneath the contract, whether they fail or not.
LEMMA CallsMap ==
  ASSUME RefinementInv, NEW t \in Threads, CallSucceeds(t) \/ CallFails(t)
  PROVE  SelectedInv(t)' /\ Elsewhere(t) /\ [Contract!Next]_Contract!vars
<1>1. /\ state \in [Threads -> PipelineState] /\ pc \in [Threads -> Nodes]
      /\ SelectedInv(t)
  BY DEF RefinementInv, IInv, TypeOK
<1>2. /\ pc[t] \in {"execute", "rollback"} /\ pc' = pc
      /\ record' = record /\ attempts' = attempts
  BY DEF CallSucceeds, CallFails, Calling, history
<1>3. \/ state' = state
      \/ \E waf \in {"success", "failed"} :
           state' = [state EXCEPT ![t].waf_result = waf]
  BY DEF CallSucceeds, CallFails
<1>4. /\ \A u \in Threads \ {t} : state'[u] = state[u]
      /\ state'[t].selected_action = state[t].selected_action
      /\ state'[t].requires_approval = state[t].requires_approval
  BY <1>1, <1>3 DEF PipelineState
<1>5. Elsewhere(t)
  BY <1>2, <1>4 DEF Elsewhere
<1>6. Phase(t)' = Phase(t)
  BY <1>2 DEF Phase
<1>7. SelectedInv(t)'
  BY <1>1, <1>2, <1>4 DEF SelectedInv, Unheld
<1> QED
  BY <1>2, <1>5, <1>6, <1>7, Stutters

LEMMA ActionEndMaps ==
  ASSUME RefinementInv, NEW t \in Threads, ActionEnd(t)
  PROVE  SelectedInv(t)' /\ Elsewhere(t) /\ [Contract!Next]_Contract!vars
<1>1. /\ state \in [Threads -> PipelineState] /\ pc \in [Threads -> Nodes]
      /\ SelectedInv(t)
  BY DEF RefinementInv, IInv, TypeOK
<1>2. /\ pc[t] = "execute" /\ pc'[t] = "qa"
      /\ \A u \in Threads \ {t} : pc'[u] = pc[u] /\ state'[u] = state[u]
      /\ record' = record /\ attempts' = attempts
  BY <1>1 DEF ActionEnd, history
<1>3. /\ state'[t].selected_action = state[t].selected_action
      /\ state'[t].requires_approval = state[t].requires_approval
      /\ state'[t].action_executed = state[t].selected_action
  BY <1>1 DEF ActionEnd, Executed, PipelineState
<1>4. state[t].selected_action \notin {"NoAction", None}
  BY <1>1, <1>2 DEF SelectedInv, Unheld, Actions, None
<1>5. Elsewhere(t)
  BY <1>2 DEF Elsewhere
<1>6. Phase(t)' = Phase(t)
  BY <1>2, <1>3, <1>4 DEF Phase
<1>7. SelectedInv(t)'
  BY <1>1, <1>2, <1>3 DEF SelectedInv, Unheld
<1> QED
  BY <1>2, <1>5, <1>6, <1>7, Stutters

-----------------------------------------------------------------------------
(***************************************************************************)
(* QA, rollback and the record                                             *)
(***************************************************************************)
\* A run that passes QA is settled: acted, idle, or held without a gate.
LEMMA QaPassMaps ==
  ASSUME RefinementInv, NEW t \in Threads, QaWhitelisted(t) \/ QaPass(t)
  PROVE  SelectedInv(t)' /\ Elsewhere(t) /\ [Contract!Next]_Contract!vars
<1>1. state \in [Threads -> PipelineState] /\ pc \in [Threads -> Nodes]
  BY DEF RefinementInv, IInv, TypeOK
<1>2. state'[t].qa_passed = "True"
  BY <1>1 DEF QaWhitelisted, QaPass, PipelineState
<1>3. /\ pc[t] = "qa" /\ pc'[t] = "logging"
      /\ \A u \in Threads \ {t} : pc'[u] = pc[u] /\ state'[u] = state[u]
      /\ record' = record /\ attempts' = attempts
  BY <1>1, <1>2 DEF QaWhitelisted, QaPass, qa_router, history
<1>4. Elsewhere(t)
  BY <1>3 DEF Elsewhere
<1>5. Phase(t) \in {"idle", "held", "acting"} /\ Phase(t)' = "settled"
  BY <1>2, <1>3 DEF Phase
<1>6. Phase(t) = "held" => Contract!Release(t)
  BY <1>3, <1>4, <1>5, Moves DEF Contract!Release
<1>7. Phase(t) \in {"idle", "acting"} => Contract!Settle(t)
  BY <1>3, <1>4, <1>5, Moves DEF Contract!Settle
<1>8. SelectedInv(t)'
  BY <1>3 DEF SelectedInv
<1> QED
  BY <1>4, <1>5, <1>6, <1>7, <1>8 DEF Contract!Next

\* Only a run that acted fails QA, and its try is undone.
LEMMA QaFailMaps ==
  ASSUME RefinementInv, NEW t \in Threads, QaFail(t)
  PROVE  SelectedInv(t)' /\ Elsewhere(t) /\ [Contract!Next]_Contract!vars
<1>1. /\ state \in [Threads -> PipelineState] /\ pc \in [Threads -> Nodes]
      /\ SelectedInv(t)
  BY DEF RefinementInv, IInv, TypeOK
<1>2. /\ pc[t] = "qa" /\ pc'[t] = "rollback"
      /\ \A u \in Threads \ {t} : pc'[u] = pc[u] /\ state'[u] = state[u]
      /\ record' = record /\ attempts' = attempts
  BY <1>1 DEF QaFail, history
<1>3. /\ state'[t].selected_action = state[t].selected_action
      /\ state'[t].requires_approval = state[t].requires_approval
  BY <1>1 DEF QaFail, PipelineState
<1>4. state[t].action_executed \notin {"NoAction", None}
  BY OnlyActionsFail DEF QaFail
<1>5. Elsewhere(t)
  BY <1>2 DEF Elsewhere
<1>6. Phase(t) = "acting" /\ Phase(t)' = "undoing"
  BY <1>2, <1>4 DEF Phase
<1>7. Contract!Undo(t)
  BY <1>2, <1>5, <1>6, Moves DEF Contract!Undo
<1>8. SelectedInv(t)'
  BY <1>1, <1>2, <1>3, <1>4 DEF SelectedInv, Unheld
<1> QED
  BY <1>5, <1>7, <1>8 DEF Contract!Next

\* After the first try the run is cleared for another, after the second done.
LEMMA RollbackEndMaps ==
  ASSUME RefinementInv, NEW t \in Threads, RollbackEnd(t)
  PROVE  SelectedInv(t)' /\ Elsewhere(t) /\ [Contract!Next]_Contract!vars
<1>1. /\ state \in [Threads -> PipelineState] /\ pc \in [Threads -> Nodes]
      /\ SelectedInv(t) /\ RetryInv(t)
  BY DEF RefinementInv, IInv, TypeOK, ThreadInv
<1>2. /\ pc[t] = "rollback" /\ pc'[t] = qa_router(state'[t])
      /\ \A u \in Threads \ {t} : pc'[u] = pc[u] /\ state'[u] = state[u]
      /\ record' = record /\ attempts' = attempts
  BY <1>1 DEF RollbackEnd, history
<1>3. /\ state'[t].selected_action = state[t].selected_action
      /\ state'[t].requires_approval = state[t].requires_approval
      /\ state'[t].qa_passed = state[t].qa_passed
      /\ state'[t].rollback_count = state[t].rollback_count + 1
  BY <1>1 DEF RollbackEnd, PipelineState
<1>4. /\ state[t].qa_passed = "False"
      /\ attempts[t] = state[t].rollback_count + 1
      /\ state[t].rollback_count \in 0 .. 1
  BY <1>1, <1>2 DEF RetryInv, PipelineState
<1>5. \/ pc'[t] = "action" /\ attempts[t] = 1
      \/ pc'[t] = "logging" /\ attempts[t] = 2
  BY <1>2, <1>3, <1>4 DEF qa_router
<1>6. Elsewhere(t)
  BY <1>2 DEF Elsewhere
<1>7. Unheld(state[t])
  BY <1>1, <1>2 DEF SelectedInv
<1>8. /\ Phase(t) = "undoing"
      /\ Phase(t)' = IF attempts[t] < 2 THEN "cleared" ELSE "exhausted"
  BY <1>2, <1>3, <1>4, <1>5, <1>7 DEF Phase, Standing, Unheld
<1>9. Contract!Undone(t)
  BY <1>2, <1>6, <1>8, Moves DEF Contract!Undone
<1>10. SelectedInv(t)'
  BY <1>1, <1>2, <1>3, <1>5 DEF SelectedInv, Unheld
<1> QED
  BY <1>6, <1>9, <1>10 DEF Contract!Next

\* What is recorded says how the run ended.
LEMMA LoggingMaps ==
  ASSUME RefinementInv, NEW t \in Threads, Logging(t)
  PROVE  SelectedInv(t)' /\ Elsewhere(t) /\ [Contract!Next]_Contract!vars
<1>1. /\ state \in [Threads -> PipelineState] /\ pc \in [Threads -> Nodes]
      /\ DOMAIN record = Threads /\ RetryInv(t)
  BY DEF RefinementInv, IInv, TypeOK, ThreadInv
<1>2. /\ pc[t] = "logging" /\ pc'[t] = "END"
      /\ \A u \in Threads \ {t} : pc'[u] = pc[u] /\ record'[u] = record[u]
      /\ record'[t] \in {record[t], Row(state[t])}
      /\ state' = state /\ attempts' = attempts
  BY <1>1 DEF Logging, history
<1>3. record[t] = NoRecord
  BY <1>1, <1>2 DEF RetryInv
<1>4. Elsewhere(t)
  BY <1>2 DEF Elsewhere
<1>5. Phase(t)' = "recorded"
  BY <1>2 DEF Phase
<1>6. OutcomeOf' = [OutcomeOf EXCEPT ![t] = Outcome(t)']
  BY <1>4, Image
<1>7. Contract!Move(t, Phase(t), "recorded")
  BY <1>4, <1>5, Image DEF Contract!Move
<1>8. Outcome(t)' \in {"none", RunStatus(state[t])}
  BY <1>2, <1>3 DEF Outcome, Row
<1>9. ASSUME state[t].qa_passed = "False"
      PROVE  Contract!Record(t)
  <2>1. Phase(t) = "exhausted"
    BY <1>2, <1>9 DEF Phase
  <2>2. RunStatus(state[t]) = "rollback_exhausted"
    BY <1>1, <1>2, <1>9 DEF RetryInv, RunStatus
  <2> QED
    BY <1>2, <1>6, <1>7, <1>8, <2>1, <2>2 DEF Contract!Record
<1>10. ASSUME state[t].qa_passed # "False"
       PROVE  Contract!Record(t)
  <2>1. Phase(t) = "settled"
    BY <1>2, <1>10 DEF Phase
  <2>2. RunStatus(state[t]) = "completed"
    BY <1>1, <1>2, <1>10 DEF RetryInv, RunStatus, PipelineState
  <2> QED
    BY <1>2, <1>6, <1>7, <1>8, <2>1, <2>2 DEF Contract!Record
<1>11. SelectedInv(t)'
  BY <1>2 DEF SelectedInv
<1> QED
  BY <1>4, <1>9, <1>10, <1>11 DEF Contract!Next

\* A run may be lost wherever it is.
LEMMA CrashMaps ==
  ASSUME RefinementInv, NEW t \in Threads, Crash(t)
  PROVE  SelectedInv(t)' /\ Elsewhere(t) /\ [Contract!Next]_Contract!vars
<1>1. pc \in [Threads -> Nodes]
  BY DEF RefinementInv, IInv, TypeOK
<1>2. /\ pc[t] \notin {"END", "dead"} /\ pc'[t] = "dead"
      /\ \A u \in Threads \ {t} : pc'[u] = pc[u]
      /\ state' = state /\ record' = record /\ attempts' = attempts
  BY <1>1 DEF Crash, history
<1>3. Elsewhere(t)
  BY <1>2 DEF Elsewhere
<1>4. Phase(t) # "recorded" /\ Phase(t)' = "lost"
  BY <1>1, <1>2 DEF Phase, Standing, Nodes
<1>5. Contract!Lose(t)
  BY <1>2, <1>3, <1>4, Moves, Image DEF Contract!Lose, Contract!Move
<1>6. SelectedInv(t)'
  BY <1>2 DEF SelectedInv
<1> QED
  BY <1>3, <1>5, <1>6 DEF Contract!Next

-----------------------------------------------------------------------------
(***************************************************************************)
(* The theorem                                                             *)
(***************************************************************************)
LEMMA InitMaps == Init => (\A t \in Threads : SelectedInv(t)) /\ Contract!Init
<1> SUFFICES ASSUME Init
             PROVE  (\A t \in Threads : SelectedInv(t)) /\ Contract!Init
  OBVIOUS
<1>1. \A t \in Threads : /\ pc[t] = "detection" /\ record[t] = NoRecord
                         /\ attempts[t] = 0
  BY DEF Init
<1>2. \A t \in Threads : Phase(t) = "undecided" /\ Outcome(t) = "none"
  BY <1>1 DEF Phase, Outcome
<1>3. attempts = [t \in Threads |-> 0]
  BY DEF Init
<1>4. Contract!Init
  BY <1>2, <1>3 DEF Contract!Init, PhaseOf, OutcomeOf
<1> QED
  BY <1>1, <1>4 DEF SelectedInv

LEMMA StepMaps ==
  ASSUME RefinementInv, [Next]_vars
  PROVE  (\A t \in Threads : SelectedInv(t)') /\ [Contract!Next]_Contract!vars
<1>1. ASSUME NEW t \in Threads, Step(t) \/ Approve(t) \/ Reject(t) \/ Crash(t)
      PROVE  SelectedInv(t)' /\ Elsewhere(t) /\ [Contract!Next]_Contract!vars
  BY <1>1, DetectionMaps, ClassificationMaps, DecisionMaps, NotifyGateMaps,
     PassGateMaps, ApproveMaps, RejectMaps, ActionSkipMaps, ActionHoldMaps,
     ActionSnapshotMaps, CallsMap, ActionEndMaps, QaPassMaps, QaFailMaps,
     RollbackEndMaps, LoggingMaps, CrashMaps DEF Step
<1>2. CASE \E t \in Threads : Step(t) \/ Approve(t) \/ Reject(t) \/ Crash(t)
  BY <1>1, <1>2, SelectedElsewhere
<1>3. CASE UNCHANGED <<pc, state, record, attempts>>
  <2>1. \A t \in Threads : SelectedInv(t)'
    BY <1>3 DEF RefinementInv, SelectedInv, Unheld
  <2>2. \A t \in Threads : Phase(t)' = Phase(t) /\ Outcome(t)' = Outcome(t)
    BY <1>3 DEF Phase, Outcome, Standing
  <2>3. PhaseOf' = PhaseOf /\ OutcomeOf' = OutcomeOf
    BY <2>2 DEF PhaseOf, OutcomeOf
  <2> QED
    BY <1>3, <2>1, <2>3 DEF Contract!vars
<1>4. (\E r \in Resources : Settle(r)) \/ UNCHANGED vars
        => UNCHANGED <<pc, state, record, attempts>>
  BY DEF Settle, vars, history
<1> QED
  BY <1>2, <1>3, <1>4 DEF Next

(***************************************************************************)
(* Every behaviour of the pipeline is one of the contract: what is held is *)
(* not tried, a failed try is undone before the next, two tries at most,   *)
(* and the record says how the run ended (build_approval_graph, qa_router, *)
(* _build_run_record).                                                     *)
(***************************************************************************)
THEOREM Refines == Spec => MeetsContract
<1>1. Init => RefinementInv /\ Contract!Init
  BY InitInvariant, InitMaps DEF RefinementInv
<1>2. RefinementInv /\ [Next]_vars
        => RefinementInv' /\ [Contract!Next]_Contract!vars
  BY StepInvariant, StepMaps DEF RefinementInv
<1> QED
  BY <1>1, <1>2, PTL DEF Spec, MeetsContract, Contract!Spec

-----------------------------------------------------------------------------
(***************************************************************************)
(* What a run claims is true: an action or a rollback that is under way    *)
(* will complete what its calls have begun, as long as nobody else calls   *)
(* AWS on the resource.  The steps above are shown to keep ClaimInv.       *)
(***************************************************************************)

-----------------------------------------------------------------------------
(***************************************************************************)
(* Plans                                                                   *)
(***************************************************************************)
\* Which actions can run on which resource.
LEMMA ImplementedActions ==
  ASSUME NEW type \in ResourceTypes, NEW action, action # "NoAction",
         Implemented(type, action)
  PROVE  \/ type = "EC2" /\ action \in {"Stop", "Resize"}
         \/ type = "Lambda" /\ action \in {"Throttle", "Block"}
         \/ type = "AutoScaling" /\ action \in {"ScaleDown", "Block"}
         \/ type = "S3" /\ action = "Block"
BY DEF ResourceTypes, Implemented, RESOURCE_IMPLEMENTED_ACTIONS

LEMMA Tails ==
  /\ \A a : Head(<<a>>) = a /\ Tail(<<a>>) = << >> /\ <<a>> # << >>
  /\ \A a, b : Head(<<a, b>>) = a /\ Tail(<<a, b>>) = <<b>> /\ <<a, b>> # << >>
  /\ \A a, b, c : /\ Head(<<a, b, c>>) = a /\ Tail(<<a, b, c>>) = <<b, c>>
                  /\ <<a, b, c>> # << >>
  /\ \A a, b, c, d : /\ Head(<<a, b, c, d>>) = a
                     /\ Tail(<<a, b, c, d>>) = <<b, c, d>>
                     /\ <<a, b, c, d>> # << >>
  /\ \A a, b, c, d, e : /\ Head(<<a, b, c, d, e>>) = a
                        /\ Tail(<<a, b, c, d, e>>) = <<b, c, d, e>>
                        /\ <<a, b, c, d, e>> # << >>
OBVIOUS

\* The plan of execute_action, before its first call.
LEMMA ExecutionStarts ==
  ASSUME NEW type \in ResourceTypes, NEW action, action # "NoAction",
         Implemented(type, action), NEW waf, NEW alb, NEW target, NEW c
  PROVE  Executing(type, action, target, c,
                   ExecuteProgram(type, action, waf, alb))
<1> DEFINE calls == ExecuteProgram(type, action, waf, alb)
<1>1. \/ type = "EC2" /\ action = "Stop" /\ calls = <<"stop_instances">>
      \/ /\ type = "EC2" /\ action = "Resize"
         /\ calls = <<"stop_instances", "wait_stopped", "modify_to_target",
                      "start_instances">>
      \/ type = "Lambda" /\ action = "Throttle" /\ calls = <<"put_limit">>
      \/ type = "Lambda" /\ action = "Block" /\ calls = <<"put_zero">>
      \/ /\ type = "AutoScaling" /\ action \in {"ScaleDown", "Block"}
         /\ calls \in {<<"scale_down", "apply_waf">>, <<"scale_down">>}
      \/ /\ type = "S3" /\ action = "Block"
         /\ calls = <<"block_public_access">>
  BY ImplementedActions DEF ExecuteProgram
<1>2. calls # << >>
  BY <1>1
<1> HIDE DEF calls
<1>3. Executing(type, action, target, c, calls)
  BY <1>1, <1>2 DEF Executing
<1> QED
  BY <1>3 DEF calls

\* A call that succeeds brings the execution one call further.
LEMMA ExecutionAdvances ==
  ASSUME NEW type \in ResourceTypes, NEW c \in Config(type), NEW o, NEW snap,
         NEW action, NEW target, NEW calls, calls # << >>,
         Executing(type, action, target, c, calls), Accepts(Head(calls), c)
  PROVE  Executing(type, action, target,
                   Apply(Head(calls), c, o, target, snap), Tail(calls))
<1> DEFINE d == Apply(Head(calls), c, o, target, snap)
<1> SUFFICES Executing(type, action, target, d, Tail(calls))
  OBVIOUS
<1>1. action # "NoAction" /\ Implemented(type, action)
  BY DEF Executing
<1>2. CASE type = "EC2" /\ action = "Stop"
  <2>1. calls = <<"stop_instances">>
    BY <1>2 DEF Executing
  <2>2. Head(calls) = "stop_instances" /\ Tail(calls) = << >>
    BY <2>1, Tails
  <2>3. d.state \in {"stopping", "stopped"}
    BY <1>2, <2>2 DEF Apply, Accepts, Config, RunStates
  <2> HIDE DEF d
  <2> QED
    BY <1>1, <1>2, <2>2, <2>3 DEF Executing, InEffect
<1>3. CASE type = "EC2" /\ action = "Resize"
  <2>1. CASE calls = <<"stop_instances", "wait_stopped", "modify_to_target",
                       "start_instances">>
    <3>1. Tail(calls) = <<"wait_stopped", "modify_to_target", "start_instances">>
      BY <2>1, Tails
    <3> HIDE DEF d
    <3> QED
      BY <1>1, <1>3, <3>1, Tails DEF Executing
  <2>2. CASE calls = <<"wait_stopped", "modify_to_target", "start_instances">>
    <3>1. /\ Head(calls) = "wait_stopped"
          /\ Tail(calls) = <<"modify_to_target", "start_instances">>
      BY <2>2, Tails
    <3>2. d = c /\ c.state = "stopped"
      BY <3>1 DEF Apply, Accepts
    <3> HIDE DEF d
    <3> QED
      BY <1>1, <1>3, <3>1, <3>2, Tails DEF Executing
  <2>3. CASE calls = <<"modify_to_target", "start_instances">>
    <3>1. /\ Head(calls) = "modify_to_target"
          /\ Tail(calls) = <<"start_instances">>
      BY <2>3, Tails
    <3>2. d.state = "stopped" /\ d.tier = target
      BY <1>3, <3>1 DEF Apply, Accepts, Config
    <3> HIDE DEF d
    <3> QED
      BY <1>1, <1>3, <3>1, <3>2, Tails DEF Executing
  <2>4. CASE calls = <<"start_instances">>
    <3>1. Head(calls) = "start_instances" /\ Tail(calls) = << >>
      BY <2>4, Tails
    <3>2. c.state = "stopped" /\ c.tier = target
      BY <1>3, <2>4, Tails DEF Executing
    <3>3. d = [c EXCEPT !.state = "pending"]
      BY <3>1, <3>2 DEF Apply
    <3>4. d.tier = target /\ Settled(d).state = "running"
      BY <1>3, <3>2, <3>3 DEF Config, Settled
    <3> HIDE DEF d
    <3> QED
      BY <1>1, <1>3, <3>1, <3>4 DEF Executing, InEffect
  <2> QED
    BY <1>3, <2>1, <2>2, <2>3, <2>4 DEF Executing
<1>4. CASE type = "Lambda"
  <2>1. action \in {"Throttle", "Block"}
    BY <1>1, <1>4, ImplementedActions
  <2>2. \/ action = "Throttle" /\ calls = <<"put_limit">>
        \/ calls = <<"put_zero">>
    BY <1>4, <2>1 DEF Executing
  <2>3. /\ Head(calls) \in {"put_limit", "put_zero"} /\ Tail(calls) = << >>
        /\ action = "Block" => Head(calls) = "put_zero"
    BY <2>2, Tails
  <2>4. d.reserved = IF Head(calls) = "put_limit" THEN LIMIT ELSE 0
    BY <1>4, <2>3 DEF Apply, Config
  <2> HIDE DEF d
  <2> QED
    BY <1>1, <1>4, <2>1, <2>3, <2>4 DEF Executing, InEffect
<1>5. CASE type = "AutoScaling"
  <2>1. action \in {"ScaleDown", "Block"}
    BY <1>1, <1>5, ImplementedActions
  <2>2. c \in [max : Nat, desired : Nat, acl : {"none", "user"} \cup Owners,
              rule : BOOLEAN]
    BY <1>5 DEF Config
  <2>3. \/ calls \in {<<"scale_down", "apply_waf">>, <<"scale_down">>}
        \/ /\ calls = <<"apply_waf">>
           /\ c.max = MAXSIZE /\ c.desired <= MAXSIZE
    BY <1>5, <2>1 DEF Executing, InEffect
  <2>4. \/ Head(calls) = "scale_down"
        \/ Head(calls) = "apply_waf" /\ c.max = MAXSIZE /\ c.desired <= MAXSIZE
    BY <2>3, Tails, Zenon
  <2>5. Tail(calls) \in {<<"apply_waf">>, << >>}
    BY <2>3, Tails, Zenon
  <2>6. d.max = MAXSIZE /\ d.desired <= MAXSIZE
    <3>1. CASE Head(calls) = "scale_down"
      <4>1. d = [c EXCEPT !.max = MAXSIZE,
                          !.desired = IF @ <= MAXSIZE THEN @ ELSE MAXSIZE]
        BY <3>1 DEF Apply
      <4> HIDE DEF d
      <4> QED
        BY <2>2, <4>1 DEF MAXSIZE
    <3>2. CASE /\ Head(calls) = "apply_waf"
               /\ c.max = MAXSIZE /\ c.desired <= MAXSIZE
      <4>1. d = [c EXCEPT !.acl = o, !.rule = TRUE]
        BY <3>2 DEF Apply
      <4> HIDE DEF d
      <4> QED
        BY <2>2, <3>2, <4>1
    <3> QED
      BY <2>4, <3>1, <3>2
  <2> HIDE DEF d
  <2>7. InEffect(type, action, d, target)
    BY <1>5, <2>1, <2>6 DEF InEffect
  <2> QED
    BY <1>1, <1>5, <2>1, <2>5, <2>7 DEF Executing
<1>6. CASE type = "S3"
  <2>1. action = "Block"
    BY <1>1, <1>6, ImplementedActions
  <2>2. calls = <<"block_public_access">>
    BY <1>6 DEF Executing
  <2>3. Head(calls) = "block_public_access" /\ Tail(calls) = << >>
    BY <2>2, Tails
  <2>4. d.pab = "blocked"
    BY <1>6, <2>3 DEF Apply, Config
  <2> HIDE DEF d
  <2> QED
    BY <1>1, <1>6, <2>1, <2>3, <2>4 DEF Executing, InEffect
<1> QED
  BY <1>1, <1>2, <1>3, <1>4, <1>5, <1>6, ImplementedActions

\* The snapshots a rollback can restore, as RestorableSnapshot says of one.
Restorable(type, snap) ==
  /\ type = "EC2" => snap.state \in {"running", "stopped"}
  /\ type = "S3"  => snap.policy # "unversioned"

LEMMA SeqEqual ==
  ASSUME NEW S, NEW s \in Seq(S), NEW t \in Seq(S), Len(s) = Len(t),
         \A i \in 1 .. Len(s) : s[i] = t[i]
  PROVE  s = t
OBVIOUS
LEMMA OneMore ==
  /\ \A a : << >> \o <<a>> = <<a>>
  /\ \A a, b : <<a>> \o <<b>> = <<a, b>>
  /\ \A a, b, c : <<a, b>> \o <<c>> = <<a, b, c>>
  /\ \A a, b, c, d : <<a, b, c>> \o <<d>> = <<a, b, c, d>>
  /\ \A a, b, c, d, e : <<a, b, c, d>> \o <<e>> = <<a, b, c, d, e>>
<1>1. \A a : << >> \o <<a>> = <<a>>
  OBVIOUS
<1>2. ASSUME NEW a, NEW b
      PROVE  <<a>> \o <<b>> = <<a, b>>
  <2>1. /\ <<a>> \o <<b>> \in Seq({a, b})
        /\ <<a, b>> \in Seq({a, b})
        /\ Len(<<a>> \o <<b>>) = 2 /\ Len(<<a, b>>) = 2
        /\ \A i \in 1 .. 2 : (<<a>> \o <<b>>)[i] = <<a, b>>[i]
    OBVIOUS
  <2> QED
    BY <2>1, SeqEqual
<1>3. ASSUME NEW a, NEW b, NEW c
      PROVE  <<a, b>> \o <<c>> = <<a, b, c>>
  <2>1. /\ <<a, b>> \o <<c>> \in Seq({a, b, c})
        /\ <<a, b, c>> \in Seq({a, b, c})
        /\ Len(<<a, b>> \o <<c>>) = 3 /\ Len(<<a, b, c>>) = 3
        /\ \A i \in 1 .. 3 : (<<a, b>> \o <<c>>)[i] = <<a, b, c>>[i]
    OBVIOUS
  <2> QED
    BY <2>1, SeqEqual
<1>4. ASSUME NEW a, NEW b, NEW c, NEW d
      PROVE  <<a, b, c>> \o <<d>> = <<a, b, c, d>>
  <2>1. /\ <<a, b, c>> \o <<d>> \in Seq({a, b, c, d})
        /\ <<a, b, c, d>> \in Seq({a, b, c, d})
        /\ Len(<<a, b, c>> \o <<d>>) = 4 /\ Len(<<a, b, c, d>>) = 4
        /\ \A i \in 1 .. 4 : (<<a, b, c>> \o <<d>>)[i] = <<a, b, c, d>>[i]
    OBVIOUS
  <2> QED
    BY <2>1, SeqEqual
<1>5. ASSUME NEW a, NEW b, NEW c, NEW d, NEW e
      PROVE  <<a, b, c, d>> \o <<e>> = <<a, b, c, d, e>>
  <2>1. /\ <<a, b, c, d>> \o <<e>> \in Seq({a, b, c, d, e})
        /\ <<a, b, c, d, e>> \in Seq({a, b, c, d, e})
        /\ Len(<<a, b, c, d>> \o <<e>>) = 5 /\ Len(<<a, b, c, d, e>>) = 5
        /\ \A i \in 1 .. 5 : (<<a, b, c, d>> \o <<e>>)[i] = <<a, b, c, d, e>>[i]
    OBVIOUS
  <2> QED
    BY <2>1, SeqEqual
<1> QED
  BY <1>1, <1>2, <1>3, <1>4, <1>5, Zenon

\* The plan of rollback_action, before its first call.
LEMMA RollbackStarts ==
  ASSUME NEW type \in ResourceTypes, NEW c \in Config(type),
         NEW snap \in Snapshot(type), Restorable(type, snap)
  PROVE  Undoing(type, snap, c, RollbackProgram(type, c, snap))
<1> DEFINE calls == RollbackProgram(type, c, snap)
<1> SUFFICES Undoing(type, snap, c, calls)
  OBVIOUS
<1>1. CASE type = "EC2"
  <2>1. /\ c \in [tier : Tiers, state : RunStates]
        /\ snap \in [tier : Tiers, state : RunStates]
        /\ snap.state \in {"running", "stopped"}
    BY <1>1 DEF Config, Snapshot, Restorable
  <2>2. CASE c.tier # snap.tier
    <3>1. ChangesType(snap, calls)
      <4> DEFINE Stopping ==
                   CASE c.state \in {"pending", "running"} ->
                          <<"wait_running", "stop_instances", "wait_stopped">>
                     [] c.state = "stopping" -> <<"wait_stopped">>
                     [] OTHER -> << >>
                 Starting == IF snap.state = "running"
                               THEN <<"start_instances">> ELSE << >>
      <4>1. calls = Stopping \o <<"modify_to_snapshot">> \o Starting
        BY <1>1, <2>2 DEF RollbackProgram, RollbackEc2
      <4>2. \/ Stopping = <<"wait_running", "stop_instances", "wait_stopped">>
            \/ Stopping = <<"wait_stopped">>
            \/ Stopping = << >>
        OBVIOUS
      <4>3. \/ snap.state = "running" /\ Starting = <<"start_instances">>
            \/ snap.state = "stopped" /\ Starting = << >>
        BY <2>1
      <4>4. << >> \o <<"modify_to_snapshot">> = <<"modify_to_snapshot">>
        BY OneMore
      <4>5. <<"wait_stopped">> \o <<"modify_to_snapshot">>
                 = <<"wait_stopped", "modify_to_snapshot">>
        BY OneMore
      <4>6. <<"wait_running", "stop_instances", "wait_stopped">>
                   \o <<"modify_to_snapshot">>
                 = <<"wait_running", "stop_instances", "wait_stopped",
                     "modify_to_snapshot">>
        BY OneMore
      <4>7. /\ <<"modify_to_snapshot">> \o << >> = <<"modify_to_snapshot">>
            /\ <<"wait_stopped", "modify_to_snapshot">> \o << >>
                 = <<"wait_stopped", "modify_to_snapshot">>
            /\ <<"wait_running", "stop_instances", "wait_stopped",
                 "modify_to_snapshot">> \o << >>
                 = <<"wait_running", "stop_instances", "wait_stopped",
                     "modify_to_snapshot">>
        OBVIOUS
      <4>8. <<"modify_to_snapshot">> \o <<"start_instances">>
                 = <<"modify_to_snapshot", "start_instances">>
        BY OneMore
      <4>9. <<"wait_stopped", "modify_to_snapshot">> \o <<"start_instances">>
                 = <<"wait_stopped", "modify_to_snapshot", "start_instances">>
        BY OneMore
      <4>10. <<"wait_running", "stop_instances", "wait_stopped",
                 "modify_to_snapshot">> \o <<"start_instances">>
                 = <<"wait_running", "stop_instances", "wait_stopped",
                     "modify_to_snapshot", "start_instances">>
        BY OneMore
      <4> HIDE DEF calls, Stopping, Starting
      <4> QED
        BY <4>1, <4>2, <4>3, <4>4, <4>5, <4>6, <4>7, <4>8, <4>9, <4>10, Zenon
        DEF ChangesType
    <3>2. calls # << >>
      BY <3>1 DEF ChangesType
    <3> HIDE DEF calls
    <3> QED
      BY <1>1, <3>1, <3>2 DEF Undoing
  <2>3. CASE c.tier = snap.tier
    <3>1. \/ /\ snap.state = "running"
             /\ calls \in {<<"wait_stopped", "start_instances">>,
                           <<"start_instances">>}
          \/ snap.state = "stopped" /\ calls = <<"stop_instances">>
          \/ calls = << >> /\ c.state = snap.state
      BY <1>1, <2>1, <2>3 DEF RollbackProgram, RollbackEc2, RunStates
    <3>2. c.state = snap.state => Restored(type, c, snap)
      <4>1. c.state = snap.state => c = snap
        BY <2>1, <2>3
      <4> QED
        BY <1>1, <4>1 DEF Restored
    <3>3. calls = << >> => Restored(type, c, snap)
      BY <3>1, <3>2
    <3> HIDE DEF calls
    <3> QED
      BY <1>1, <2>3, <3>1, <3>3 DEF Undoing
  <2> QED
    BY <2>2, <2>3
<1>2. CASE type # "EC2"
  <2>1. \/ type = "Lambda" /\ calls = <<"restore_concurrency">>
        \/ type = "AutoScaling" /\ calls = <<"restore_sizes">>
        \/ type = "S3" /\ calls = <<"restore_access_block", "restore_policy">>
        \/ type = "RDS" /\ calls = << >>
    BY <1>2 DEF RollbackProgram, ResourceTypes
  <2>2. calls = << >> => type = "RDS"
    BY <2>1
  <2> HIDE DEF calls
  <2> QED
    BY <2>1, <2>2 DEF Undoing, Restored
<1> QED
  BY <1>1, <1>2

\* The next call of a rollback that changes the type back.
LEMMA ChangesTypeAdvances ==
  ASSUME NEW snap, NEW calls, ChangesType(snap, calls)
  PROVE  IF Head(calls) = "modify_to_snapshot"
           THEN Tail(calls) = IF snap.state = "running"
                                THEN <<"start_instances">> ELSE << >>
           ELSE ChangesType(snap, Tail(calls)) /\ Tail(calls) # << >>
<1>1. CASE snap.state = "running"
  <2>1. CASE calls = <<"wait_running", "stop_instances", "wait_stopped",
                       "modify_to_snapshot", "start_instances">>
    <3>1. /\ Head(calls) = "wait_running"
          /\ Tail(calls) = <<"stop_instances", "wait_stopped",
                             "modify_to_snapshot", "start_instances">>
      BY <2>1, Tails
    <3> QED
      BY <1>1, <3>1, Tails DEF ChangesType
  <2>2. CASE calls = <<"stop_instances", "wait_stopped", "modify_to_snapshot",
                       "start_instances">>
    <3>1. /\ Head(calls) = "stop_instances"
          /\ Tail(calls) = <<"wait_stopped", "modify_to_snapshot",
                             "start_instances">>
      BY <2>2, Tails
    <3> QED
      BY <1>1, <3>1, Tails DEF ChangesType
  <2>3. CASE calls = <<"wait_stopped", "modify_to_snapshot",
                       "start_instances">>
    <3>1. /\ Head(calls) = "wait_stopped"
          /\ Tail(calls) = <<"modify_to_snapshot", "start_instances">>
      BY <2>3, Tails
    <3> QED
      BY <1>1, <3>1, Tails DEF ChangesType
  <2>4. CASE calls = <<"modify_to_snapshot", "start_instances">>
    BY <1>1, <2>4, Tails
  <2> QED
    BY <1>1, <2>1, <2>2, <2>3, <2>4 DEF ChangesType
<1>2. CASE snap.state # "running"
  <2>1. CASE calls = <<"wait_running", "stop_instances", "wait_stopped",
                       "modify_to_snapshot">>
    <3>1. /\ Head(calls) = "wait_running"
          /\ Tail(calls) = <<"stop_instances", "wait_stopped",
                             "modify_to_snapshot">>
      BY <2>1, Tails
    <3> QED
      BY <1>2, <3>1, Tails DEF ChangesType
  <2>2. CASE calls = <<"stop_instances", "wait_stopped", "modify_to_snapshot">>
    <3>1. /\ Head(calls) = "stop_instances"
          /\ Tail(calls) = <<"wait_stopped", "modify_to_snapshot">>
      BY <2>2, Tails
    <3> QED
      BY <1>2, <3>1, Tails DEF ChangesType
  <2>3. CASE calls = <<"wait_stopped", "modify_to_snapshot">>
    <3>1. /\ Head(calls) = "wait_stopped"
          /\ Tail(calls) = <<"modify_to_snapshot">>
      BY <2>3, Tails
    <3> QED
      BY <1>2, <3>1, Tails DEF ChangesType
  <2>4. CASE calls = <<"modify_to_snapshot">>
    BY <1>2, <2>4, Tails
  <2> QED
    BY <1>2, <2>1, <2>2, <2>3, <2>4 DEF ChangesType
<1> QED
  BY <1>1, <1>2

\* A call that succeeds brings the rollback one call further.
LEMMA RollbackAdvances ==
  ASSUME NEW type \in ResourceTypes, NEW c \in Config(type), NEW o, NEW target,
         NEW snap \in Snapshot(type), Restorable(type, snap),
         NEW calls, calls # << >>,
         Undoing(type, snap, c, calls), Accepts(Head(calls), c)
  PROVE  Undoing(type, snap, Apply(Head(calls), c, o, target, snap), Tail(calls))
<1> DEFINE d == Apply(Head(calls), c, o, target, snap)
<1> SUFFICES Undoing(type, snap, d, Tail(calls))
  OBVIOUS
<1>1. CASE type = "EC2"
  <2>1. /\ c \in [tier : Tiers, state : RunStates]
        /\ snap \in [tier : Tiers, state : RunStates]
        /\ snap.state \in {"running", "stopped"}
    BY <1>1 DEF Config, Snapshot, Restorable
  <2>2. CASE ChangesType(snap, calls) /\ Head(calls) # "modify_to_snapshot"
    <3>1. ChangesType(snap, Tail(calls)) /\ Tail(calls) # << >>
      BY <2>2, ChangesTypeAdvances
    <3> HIDE DEF d
    <3> QED
      BY <1>1, <3>1 DEF Undoing
  <2>3. CASE ChangesType(snap, calls) /\ Head(calls) = "modify_to_snapshot"
    <3>1. \/ snap.state = "running" /\ Tail(calls) = <<"start_instances">>
          \/ snap.state = "stopped" /\ Tail(calls) = << >>
      BY <2>1, <2>3, ChangesTypeAdvances
    <3>2. c.state = "stopped" /\ d = [c EXCEPT !.tier = snap.tier]
      BY <2>3 DEF Accepts, Apply
    <3>3. d.tier = snap.tier /\ d.state = "stopped"
      BY <2>1, <3>2
    <3>4. snap.state = "stopped" => d = snap
      BY <2>1, <3>2
    <3> HIDE DEF d
    <3>5. Tail(calls) = << >> => Restored(type, d, snap)
      BY <1>1, <3>1, <3>4 DEF Restored
    <3> QED
      BY <1>1, <2>1, <3>1, <3>3, <3>5 DEF Undoing
  <2>4. CASE /\ c.tier = snap.tier /\ snap.state = "running"
             /\ calls = <<"wait_stopped", "start_instances">>
    <3>1. Head(calls) = "wait_stopped" /\ Tail(calls) = <<"start_instances">>
      BY <2>4, Tails
    <3>2. d = c
      BY <3>1 DEF Apply
    <3> HIDE DEF d
    <3> QED
      BY <1>1, <2>4, <3>1, <3>2 DEF Undoing
  <2>5. CASE /\ c.tier = snap.tier /\ snap.state = "running"
             /\ calls = <<"start_instances">>
    <3>1. Head(calls) = "start_instances" /\ Tail(calls) = << >>
      BY <2>5, Tails
    <3>2. /\ c.state # "stopping"
          /\ d = [c EXCEPT !.state = IF @ = "stopped" THEN "pending" ELSE @]
      BY <3>1 DEF Accepts, Apply
    <3>3. d.tier = snap.tier /\ d.state \in {"pending", "running"}
      BY <2>1, <2>5, <3>2 DEF RunStates
    <3>4. d \in [tier : Tiers, state : RunStates]
      BY <2>1, <3>2 DEF RunStates
    <3> HIDE DEF d
    <3>5. Settled(d) = Settled(snap)
      BY <2>1, <2>5, <3>3, <3>4 DEF Settled
    <3> QED
      BY <1>1, <3>1, <3>5 DEF Undoing, Restored
  <2>6. CASE /\ c.tier = snap.tier /\ snap.state = "stopped"
             /\ calls = <<"stop_instances">>
    <3>1. Head(calls) = "stop_instances" /\ Tail(calls) = << >>
      BY <2>6, Tails
    <3>2. /\ c.state # "pending"
          /\ d = [c EXCEPT !.state = IF @ = "running" THEN "stopping" ELSE @]
      BY <3>1 DEF Accepts, Apply
    <3>3. d.tier = snap.tier /\ d.state \in {"stopping", "stopped"}
      BY <2>1, <2>6, <3>2 DEF RunStates
    <3>4. d \in [tier : Tiers, state : RunStates]
      BY <2>1, <3>2 DEF RunStates
    <3> HIDE DEF d
    <3>5. Settled(d) = Settled(snap)
      BY <2>1, <2>6, <3>3, <3>4 DEF Settled
    <3> QED
      BY <1>1, <3>1, <3>5 DEF Undoing, Restored
  <2> QED
    BY <1>1, <2>1, <2>2, <2>3, <2>4, <2>5, <2>6 DEF Undoing
<1>2. CASE type = "Lambda"
  <2>1. c \in [reserved : {-1} \cup Nat] /\ snap \in [reserved : {-1} \cup Nat]
    BY <1>2 DEF Config, Snapshot
  <2>2. calls = <<"restore_concurrency">>
    BY <1>2 DEF Undoing
  <2>3. Head(calls) = "restore_concurrency" /\ Tail(calls) = << >>
    BY <2>2, Tails
  <2>4. d = [c EXCEPT !.reserved = snap.reserved]
    BY <2>3 DEF Apply
  <2>5. d = snap
    BY <2>1, <2>4
  <2> HIDE DEF d
  <2> QED
    BY <1>2, <2>3, <2>5 DEF Undoing, Restored
<1>3. CASE type = "AutoScaling"
  <2>1. c \in [max : Nat, desired : Nat, acl : {"none", "user"} \cup Owners,
              rule : BOOLEAN]
    BY <1>3 DEF Config
  <2>2. calls = <<"restore_sizes">>
    BY <1>3 DEF Undoing
  <2>3. Head(calls) = "restore_sizes" /\ Tail(calls) = << >>
    BY <2>2, Tails
  <2>4. d = [c EXCEPT !.max = snap.max, !.desired = snap.desired]
    BY <2>3 DEF Apply
  <2> HIDE DEF d
  <2>5. d.max = snap.max /\ d.desired = snap.desired
    BY <2>1, <2>4
  <2> QED
    BY <1>3, <2>3, <2>5 DEF Undoing, Restored
<1>4. CASE type = "S3"
  <2> DEFINE Buckets == [pab : {"open", "partial", "blocked"},
                         policy : {"none", "custom", "unversioned"}]
  <2>1. c \in Buckets /\ snap \in Buckets /\ snap.policy # "unversioned"
    BY <1>4 DEF Config, Snapshot, Restorable
  <2>2. CASE calls = <<"restore_access_block", "restore_policy">>
    <3>1. /\ Head(calls) = "restore_access_block"
          /\ Tail(calls) = <<"restore_policy">>
      BY <2>2, Tails
    <3>2. d = [c EXCEPT !.pab = snap.pab]
      BY <3>1 DEF Apply
    <3> HIDE DEF d
    <3>3. d.pab = snap.pab
      BY <2>1, <3>2
    <3> QED
      BY <1>4, <3>1, <3>3 DEF Undoing
  <2>3. CASE calls = <<"restore_policy">> /\ c.pab = snap.pab
    <3>1. Head(calls) = "restore_policy" /\ Tail(calls) = << >>
      BY <2>3, Tails
    <3>2. d = [c EXCEPT !.policy = snap.policy]
      BY <2>1, <3>1 DEF Apply, PolicyToRestore
    <3> HIDE DEF d
    <3>3. d = snap
      BY <2>1, <2>3, <3>2
    <3> QED
      BY <1>4, <3>1, <3>3 DEF Undoing, Restored
  <2> QED
    BY <1>4, <2>2, <2>3 DEF Undoing
<1>5. CASE type = "RDS"
  BY <1>5 DEF Undoing
<1> QED
  BY <1>1, <1>2, <1>3, <1>4, <1>5 DEF ResourceTypes

\* Only a throttle sets a limit, and a rollback sets none.
LEMMA PutLimitThrottles ==
  ASSUME NEW type \in ResourceTypes, NEW action, NEW target, NEW c, NEW calls,
         calls # << >>, Head(calls) = "put_limit",
         Executing(type, action, target, c, calls)
  PROVE  type = "Lambda" /\ action = "Throttle"
<1>1. action # "NoAction" /\ Implemented(type, action)
  BY DEF Executing
<1>2. CASE type = "EC2" /\ action = "Stop"
  BY <1>2, Tails DEF Executing
<1>3. CASE type = "EC2" /\ action = "Resize"
  BY <1>3, Tails DEF Executing
<1>4. CASE type = "Lambda" /\ action = "Block"
  BY <1>4, Tails DEF Executing
<1>5. CASE type = "AutoScaling"
  BY <1>5, Tails DEF Executing
<1>6. CASE type = "S3"
  BY <1>6, Tails DEF Executing
<1> QED
  BY <1>1, <1>2, <1>3, <1>4, <1>5, <1>6, ImplementedActions

LEMMA RollbackPutsNoLimit ==
  ASSUME NEW type \in ResourceTypes, NEW snap, NEW c, NEW calls,
         calls # << >>, Head(calls) = "put_limit", Undoing(type, snap, c, calls)
  PROVE  FALSE
<1>1. CASE type = "EC2"
  <2>1. ~ChangesType(snap, calls)
    BY Tails DEF ChangesType
  <2>2. calls \notin {<<"wait_stopped", "start_instances">>,
                      <<"start_instances">>, <<"stop_instances">>}
    BY Tails
  <2> QED
    BY <1>1, <2>1, <2>2 DEF Undoing
<1>2. CASE type # "EC2"
  BY <1>2, Tails DEF Undoing, ResourceTypes
<1> QED
  BY <1>1, <1>2

-----------------------------------------------------------------------------
(***************************************************************************)
(* Changes nobody calls for                                                *)
(***************************************************************************)
\* AWS finishes a start or a stop, or a run takes its rule out of a Web ACL.
Drift(type, c, d) ==
  \/ d = c
  \/ type = "EC2" /\ d = Settled(c)
  \/ type = "AutoScaling" /\ d = [c EXCEPT !.rule = FALSE]

\* What such a change leaves alone.
LEMMA DriftKeeps ==
  ASSUME NEW type \in ResourceTypes, NEW c \in Config(type), NEW d,
         Drift(type, c, d)
  PROVE  /\ type = "EC2" => /\ d.tier = c.tier /\ Settled(d) = Settled(c)
                            /\ c.state = "stopped" => d.state = "stopped"
                            /\ c.state \in {"stopping", "stopped"}
                                 => d.state \in {"stopping", "stopped"}
         /\ type = "AutoScaling" => d.max = c.max /\ d.desired = c.desired
         /\ type \notin {"EC2", "AutoScaling"} => d = c
<1>1. CASE type = "EC2"
  BY <1>1 DEF Drift, Settled, Config, RunStates
<1>2. CASE type = "AutoScaling"
  BY <1>2 DEF Drift, Config
<1> QED
  BY <1>1, <1>2 DEF Drift

\* No claim is undone by it, and no plan is.
LEMMA DriftKeepsClaims ==
  ASSUME NEW type \in ResourceTypes, NEW c \in Config(type), NEW d,
         Drift(type, c, d), NEW action, NEW target, NEW snap, NEW calls
  PROVE  /\ Executing(type, action, target, c, calls)
              => Executing(type, action, target, d, calls)
         /\ Undoing(type, snap, c, calls) => Undoing(type, snap, d, calls)
         /\ Restored(type, c, snap) => Restored(type, d, snap)
<1>1. Restored(type, c, snap) => Restored(type, d, snap)
  BY DriftKeeps DEF Restored, ResourceTypes
<1>2. Undoing(type, snap, c, calls) => Undoing(type, snap, d, calls)
  <2>1. type = "EC2" => d.tier = c.tier
    BY DriftKeeps
  <2>2. type = "S3" => d = c
    BY DriftKeeps
  <2> QED
    BY <1>1, <2>1, <2>2 DEF Undoing
<1>3. ASSUME action # "NoAction", Implemented(type, action),
             InEffect(type, action, c, target)
      PROVE  InEffect(type, action, d, target)
  BY <1>3, DriftKeeps, ImplementedActions DEF InEffect
<1>4. Executing(type, action, target, c, calls)
        => Executing(type, action, target, d, calls)
  <2>1. Implemented(type, action) /\ action = "Resize" => type = "EC2"
    BY ImplementedActions
  <2>2. type = "EC2" => /\ d.tier = c.tier
                        /\ c.state = "stopped" => d.state = "stopped"
    BY DriftKeeps
  <2> QED
    BY <1>3, <2>1, <2>2 DEF Executing
<1> QED
  BY <1>1, <1>2, <1>4

-----------------------------------------------------------------------------
(***************************************************************************)
(* Threads that do not move                                                *)
(***************************************************************************)
LEMMA ConfigsTyped ==
  ASSUME TypeOK, NEW u \in Threads
  PROVE  /\ state[u] \in PipelineState /\ state[u].resource_id \in Resources
         /\ TypeAt(u) \in ResourceTypes /\ ConfigAt(u) \in Config(TypeAt(u))
BY RecoveryAssumption DEF TypeOK, TypeAt, ConfigAt, PipelineState

LEMMA RestorableThread ==
  ASSUME NEW u \in Threads
  PROVE  RestorableSnapshot(u) <=> Restorable(TypeAt(u), snapshot[u])
BY DEF RestorableSnapshot, Restorable

\* Nothing of thread u itself changes.
Idle(u) ==
  /\ pc'[u] = pc[u] /\ state'[u] = state[u] /\ snapshot'[u] = snapshot[u]
  /\ todo'[u] = todo[u] /\ result'[u] = result[u]
  /\ attempts'[u] = attempts[u]

\* What an idle thread claims stays true unless another one calls AWS on its
\* resource; and then it is disturbed, or has claimed nothing yet.
LEMMA IdleClaims ==
  ASSUME IInv, NEW u \in Threads, ClaimInv(u), Idle(u),
         disturbed[u] => disturbed'[u],
         \/ disturbed'[u]
         \/ attempts[u] = 0
         \/ Drift(TypeAt(u), ConfigAt(u), ConfigAt(u)')
  PROVE  ClaimInv(u)'
<1>1. /\ TypeAt(u)' = TypeAt(u)
      /\ RestorableSnapshot(u)' = RestorableSnapshot(u)
  BY DEF Idle, TypeAt, RestorableSnapshot
<1>2. Unclaimed(u)'
  BY DEF ClaimInv, Unclaimed, Idle
<1>3. CASE disturbed'[u]
  BY <1>2, <1>3 DEF ClaimInv
<1>4. CASE attempts[u] = 0
  <2>1. /\ pc[u] \notin {"execute", "rollback"}
        /\ state[u].status # "success" /\ ~state[u].rolled_back
    BY <1>4
    DEF IInv, ThreadInv, RetryInv, TypeOK, PipelineState, ClaimInv, Unclaimed
  <2> QED
    BY <1>2, <2>1 DEF ClaimInv, ExecutionInv, RollbackInv, Idle
<1>5. CASE ~disturbed[u] /\ Drift(TypeAt(u), ConfigAt(u), ConfigAt(u)')
  <2>1. TypeAt(u) \in ResourceTypes /\ ConfigAt(u) \in Config(TypeAt(u))
    BY ConfigsTyped DEF IInv
  <2>2. ExecutionInv(u) /\ RollbackInv(u)
    BY <1>5 DEF ClaimInv
  <2>3. ASSUME NEW action, NEW target, NEW calls,
               Executing(TypeAt(u), action, target, ConfigAt(u), calls)
        PROVE  Executing(TypeAt(u), action, target, ConfigAt(u)', calls)
    BY <1>5, <2>1, <2>3, DriftKeepsClaims
  <2>4. ASSUME NEW snap, NEW calls, Undoing(TypeAt(u), snap, ConfigAt(u), calls)
        PROVE  Undoing(TypeAt(u), snap, ConfigAt(u)', calls)
    BY <1>5, <2>1, <2>4, DriftKeepsClaims
  <2>5. ASSUME NEW snap, Restored(TypeAt(u), ConfigAt(u), snap)
        PROVE  Restored(TypeAt(u), ConfigAt(u)', snap)
    BY <1>5, <2>1, <2>5, DriftKeepsClaims
  <2>6. ExecutionInv(u)'
    BY <1>1, <2>2, <2>3 DEF ExecutionInv, Idle
  <2>7. RollbackInv(u)'
    BY <1>1, <2>2, <2>4, <2>5 DEF RollbackInv, Idle
  <2> QED
    BY <1>2, <2>6, <2>7 DEF ClaimInv
<1> QED
  BY <1>3, <1>4, <1>5

\* A step of thread t that calls nothing.
OthersIdle(t) ==
  /\ \A u \in Threads \ {t} : Idle(u)
  /\ UNCHANGED <<cfg, disturbed>>

LEMMA OthersClaims ==
  ASSUME ClaimsInv, NEW t \in Threads, OthersIdle(t)
  PROVE  \A u \in Threads \ {t} : ClaimInv(u)'
<1> SUFFICES ASSUME NEW u \in Threads \ {t}
             PROVE  ClaimInv(u)'
  OBVIOUS
<1>1. Drift(TypeAt(u), ConfigAt(u), ConfigAt(u)')
  BY DEF OthersIdle, Idle, Drift, ConfigAt
<1> QED
  BY <1>1, IdleClaims DEF ClaimsInv, OthersIdle

-----------------------------------------------------------------------------
(***************************************************************************)
(* Steps                                                                   *)
(***************************************************************************)
\* Nothing is claimed on the way to the action node.
LEMMA EarlyClaims ==
  ASSUME ClaimsInv, NEW t \in Threads,
         \/ Detection(t) \/ Classification(t) \/ Decision(t)
         \/ NotifyGate(t) \/ PassGate(t) \/ Approve(t) \/ Reject(t)
  PROVE  \A u \in Threads : ClaimInv(u)'
<1>1. /\ TypeOK /\ state \in [Threads -> PipelineState]
      /\ state[t] \in PipelineState /\ ClaimInv(t)
  BY DEF ClaimsInv, IInv, TypeOK
<1>2. /\ pc[t] \in BeforeAction
      /\ pc'[t] \in BeforeAction \cup {"action", "logging"}
      /\ OthersIdle(t) /\ attempts' = attempts
  BY <1>1
  DEF TypeOK, BeforeAction, Detection, detection_router, Classification, Decision,
      NotifyGate, PassGate, Approve, Reject, WaitingForApproval, history,
      OthersIdle, Idle
<1>3. /\ state'[t].status = state[t].status
      /\ state'[t].rolled_back = state[t].rolled_back
  <2>1. CASE Detection(t) \/ Classification(t)
    BY <1>1, <2>1 DEF Detection, Classification, PipelineState
  <2>2. CASE Decision(t)
    <3> DEFINE anomaly == state[t].anomaly_type
               risk(action) == resolve_risk_level(anomaly, action)
    <3>1. PICK action, target :
            state' = [state EXCEPT
                        ![t].selected_action = action,
                        ![t].risk_level = risk(action),
                        ![t].requires_approval = RequiresApproval(risk(action)),
                        ![t].target_instance_type = target,
                        ![t].apply_waf = AppliesWaf(TypeAt(t), anomaly, action)]
      BY <2>2 DEF Decision
    <3> DEFINE s == [state[t] EXCEPT
                       !.selected_action = action,
                       !.risk_level = risk(action),
                       !.requires_approval = RequiresApproval(risk(action)),
                       !.target_instance_type = target,
                       !.apply_waf = AppliesWaf(TypeAt(t), anomaly, action)]
    <3>2. state' = [state EXCEPT ![t] = s]
      BY <1>1, <3>1
    <3>3. s.status = state[t].status /\ s.rolled_back = state[t].rolled_back
      BY <1>1 DEF PipelineState
    <3> HIDE DEF s
    <3> QED
      BY <1>1, <3>2, <3>3
  <2>3. CASE NotifyGate(t) \/ PassGate(t)
    BY <2>3 DEF NotifyGate, PassGate
  <2>4. CASE Approve(t) \/ Reject(t)
    BY <1>1, <2>4 DEF Approve, Reject, PipelineState
  <2> QED
    BY <2>1, <2>2, <2>3, <2>4
<1>4. state[t].status # "success" /\ ~state[t].rolled_back
  BY <1>1, <1>2 DEF ClaimInv, Unclaimed, None
<1>5. ClaimInv(t)'
  BY <1>1, <1>2, <1>3, <1>4
  DEF ClaimInv, Unclaimed, ExecutionInv, RollbackInv, BeforeAction, None
<1> QED
  BY <1>2, <1>5, OthersClaims

\* A run that may not act, or need not, claims nothing of an earlier try.
LEMMA NoActionClaims ==
  ASSUME ClaimsInv, NEW t \in Threads, ActionSkip(t) \/ ActionHold(t)
  PROVE  \A u \in Threads : ClaimInv(u)'
<1>1. TypeOK /\ state \in [Threads -> PipelineState]
  BY DEF ClaimsInv, IInv, TypeOK
<1>2. pc'[t] = "qa" /\ OthersIdle(t)
  BY <1>1 DEF TypeOK, ActionSkip, ActionHold, history, OthersIdle, Idle
<1>3. /\ state'[t].status \in {"skipped", "pending_approval"}
      /\ state'[t].rolled_back = FALSE
  <2>1. PICK action \in {"NoAction", None},
             status \in {"skipped", "pending_approval"} :
          state'[t] = Executed(state[t], action, status)
    BY <1>1 DEF ActionSkip, ActionHold
  <2> QED
    BY <1>1, <2>1 DEF Executed, PipelineState
<1>4. ClaimInv(t)'
  BY <1>2, <1>3
  DEF ClaimInv, Unclaimed, ExecutionInv, RollbackInv, BeforeAction
<1> QED
  BY <1>2, <1>4, OthersClaims

LEMMA ActionSnapshotClaims ==
  ASSUME ClaimsInv, NEW t \in Threads, ActionSnapshot(t)
  PROVE  \A u \in Threads : ClaimInv(u)'
<1>1. /\ TypeOK /\ state[t] \in PipelineState
      /\ TypeAt(t) \in ResourceTypes /\ attempts[t] \in 0 .. 2
  BY ConfigsTyped DEF ClaimsInv, IInv, TypeOK
<1>2. /\ pc'[t] = "execute" /\ attempts'[t] = attempts[t] + 1
      /\ state'[t].resource_id = state[t].resource_id
      /\ state'[t].selected_action = state[t].selected_action
      /\ state[t].selected_action # "NoAction"
  BY <1>1 DEF TypeOK, PipelineState, ActionSnapshot
<1>3. OthersIdle(t)
  BY <1>1 DEF TypeOK, ActionSnapshot, OthersIdle, Idle
<1>4. Unclaimed(t)'
  BY <1>1, <1>2 DEF Unclaimed, BeforeAction
<1>5. RollbackInv(t)'
  BY <1>2 DEF RollbackInv
<1>6. ExecutionInv(t)'
  <2>1. TypeAt(t)' = TypeAt(t)
    BY <1>2 DEF TypeAt
  <2> DEFINE action == state[t].selected_action
             done == Implemented(TypeAt(t), action)
             Program(alb) == ExecuteProgram(TypeAt(t), action,
                                            state[t].apply_waf, alb)
  <2>2. PICK alb \in BOOLEAN :
          /\ todo' = [todo EXCEPT ![t] = IF done THEN Program(alb) ELSE << >>]
          /\ result' = [result EXCEPT ![t] =
                          IF done THEN "success" ELSE "not_implemented"]
    BY DEF ActionSnapshot
  <2>3. result'[t] = "success" =>
          /\ Implemented(TypeAt(t), state[t].selected_action)
          /\ todo'[t] = ExecuteProgram(TypeAt(t), state[t].selected_action,
                                       state[t].apply_waf, alb)
    <3> HIDE DEF done, Program
    <3>1. /\ todo'[t] = IF done THEN Program(alb) ELSE << >>
          /\ result'[t] = IF done THEN "success" ELSE "not_implemented"
      BY <1>1, <2>2 DEF TypeOK
    <3>2. result'[t] = "success" => done /\ todo'[t] = Program(alb)
      BY <3>1
    <3> QED
      BY <3>2 DEF done, Program
  <2>4. result'[t] = "success" =>
          Executing(TypeAt(t), state[t].selected_action,
                    state[t].target_instance_type', ConfigAt(t)', todo'[t])
    BY <1>1, <1>2, <2>3, ExecutionStarts
  <2> QED
    BY <1>2, <2>1, <2>4 DEF ExecutionInv
<1>7. ClaimInv(t)'
  BY <1>4, <1>5, <1>6 DEF ClaimInv
<1> QED
  BY <1>3, <1>7, OthersClaims

\* The record of a Web ACL call is none of a claim.
LEMMA CallState ==
  ASSUME TypeOK, NEW t \in Threads, CallSucceeds(t) \/ CallFails(t)
  PROVE  /\ \A u \in Threads \ {t} : state'[u] = state[u]
         /\ state'[t].resource_id = state[t].resource_id
         /\ state'[t].selected_action = state[t].selected_action
         /\ state'[t].target_instance_type = state[t].target_instance_type
         /\ state'[t].status = state[t].status
         /\ state'[t].rolled_back = state[t].rolled_back
<1>1. \/ state' = state
      \/ state' = [state EXCEPT ![t].waf_result = "success"]
      \/ state' = [state EXCEPT ![t].waf_result = "failed"]
  BY DEF CallSucceeds, CallFails
<1>2. state \in [Threads -> PipelineState]
  BY DEF TypeOK
<1> QED
  BY <1>1, <1>2 DEF PipelineState

LEMMA CallSucceedsClaims ==
  ASSUME ClaimsInv, NEW t \in Threads, CallSucceeds(t)
  PROVE  \A u \in Threads : ClaimInv(u)'
<1> DEFINE x == state[t].resource_id
           op == Head(todo[t])
           d == Apply(op, ConfigAt(t), t, state[t].target_instance_type,
                      snapshot[t])
<1>1. /\ TypeOK /\ ThreadInv(t) /\ ClaimInv(t)
      /\ TypeAt(t) \in ResourceTypes /\ ConfigAt(t) \in Config(TypeAt(t))
      /\ x \in Resources
  BY ConfigsTyped DEF ClaimsInv, IInv
<1>2. /\ pc[t] \in {"execute", "rollback"} /\ todo[t] # << >>
      /\ Accepts(op, ConfigAt(t)) /\ todo'[t] = Tail(todo[t])
      /\ \A u \in Threads \ {t} : todo'[u] = todo[u]
      /\ UNCHANGED <<pc, snapshot, result, record, answer, attempts>>
  BY <1>1 DEF TypeOK, CallSucceeds, Calling
<1>3. cfg' = [cfg EXCEPT ![x] = d]
  BY <1>1 DEF CallSucceeds, ConfigAt, TypeOK
<1>4. /\ state'[t].resource_id = x
      /\ state'[t].selected_action = state[t].selected_action
      /\ state'[t].target_instance_type = state[t].target_instance_type
      /\ state'[t].status = state[t].status
      /\ state'[t].rolled_back = state[t].rolled_back
      /\ \A u \in Threads \ {t} : state'[u] = state[u]
  BY <1>1, CallState
<1>5. \A u \in Threads :
        /\ disturbed[u] => disturbed'[u]
        /\ u # t /\ attempts[u] > 0 /\ state[u].resource_id = x
             => disturbed'[u]
  BY DEF CallSucceeds, Disturb
<1>6. ConfigAt(t)' = d
  BY <1>1, <1>3, <1>4 DEF ConfigAt, TypeOK
<1>7. /\ TypeAt(t)' = TypeAt(t)
      /\ RestorableSnapshot(t)' = RestorableSnapshot(t)
  BY <1>2, <1>4 DEF TypeAt, RestorableSnapshot
<1>8. Unclaimed(t)'
  BY <1>1, <1>2, <1>4 DEF ClaimInv, Unclaimed, BeforeAction
<1> HIDE DEF d, x, op
<1>9. ~disturbed'[t] => ExecutionInv(t)'
  <2> SUFFICES ASSUME ~disturbed'[t], pc[t] = "execute", result[t] = "success"
               PROVE  Executing(TypeAt(t), state[t].selected_action,
                                state[t].target_instance_type, d, Tail(todo[t]))
    BY <1>2, <1>4, <1>6, <1>7 DEF ExecutionInv
  <2>1. ~disturbed[t]
    BY <1>5
  <2>2. Executing(TypeAt(t), state[t].selected_action,
                  state[t].target_instance_type, ConfigAt(t), todo[t])
    BY <1>1, <2>1 DEF ClaimInv, ExecutionInv
  <2> QED
    BY <1>1, <1>2, <2>2, ExecutionAdvances DEF d, op
<1>10. ~disturbed'[t] => RollbackInv(t)'
  <2> SUFFICES ASSUME ~disturbed'[t], pc[t] = "rollback",
                      result[t] = "success", RestorableSnapshot(t)
               PROVE  Undoing(TypeAt(t), snapshot[t], d, Tail(todo[t]))
    BY <1>2, <1>4, <1>6, <1>7 DEF RollbackInv
  <2>1. ~disturbed[t]
    BY <1>5
  <2>2. Undoing(TypeAt(t), snapshot[t], ConfigAt(t), todo[t])
    BY <1>1, <2>1 DEF ClaimInv, RollbackInv
  <2>3. /\ snapshot[t] \in Snapshot(TypeAt(t))
        /\ Restorable(TypeAt(t), snapshot[t])
    BY <1>1, RestorableThread DEF ThreadInv, ProgramInv
  <2> QED
    BY <1>1, <1>2, <2>2, <2>3, RollbackAdvances DEF d, op
<1>11. ClaimInv(t)'
  BY <1>8, <1>9, <1>10 DEF ClaimInv
<1>12. ASSUME NEW u \in Threads \ {t}
       PROVE  ClaimInv(u)'
  <2>1. Idle(u) /\ (disturbed[u] => disturbed'[u])
    BY <1>2, <1>4, <1>5 DEF Idle
  <2>2. CASE state[u].resource_id = x
    <3>1. attempts[u] = 0 \/ attempts[u] > 0
      BY <1>1 DEF TypeOK
    <3>2. disturbed'[u] \/ attempts[u] = 0
      BY <1>5, <2>2, <3>1
    <3> QED
      BY <2>1, <3>2, IdleClaims DEF ClaimsInv
  <2>3. CASE state[u].resource_id # x
    <3>1. ConfigAt(u)' = ConfigAt(u)
      BY <1>1, <1>3, <1>4, <2>3, ConfigsTyped DEF ConfigAt, TypeOK
    <3> QED
      BY <2>1, <3>1, IdleClaims DEF ClaimsInv, Drift
  <2> QED
    BY <2>2, <2>3
<1> QED
  BY <1>11, <1>12

LEMMA CallFailsClaims ==
  ASSUME ClaimsInv, NEW t \in Threads, CallFails(t)
  PROVE  \A u \in Threads : ClaimInv(u)'
<1>1. TypeOK /\ ThreadInv(t) /\ ClaimInv(t) /\ TypeAt(t) \in ResourceTypes
  BY ConfigsTyped DEF ClaimsInv, IInv
<1>2. /\ pc[t] \in {"execute", "rollback"} /\ todo[t] # << >>
      /\ UNCHANGED <<pc, snapshot, cfg, record, answer, attempts, disturbed>>
      /\ \A u \in Threads \ {t} : todo'[u] = todo[u] /\ result'[u] = result[u]
  BY <1>1 DEF TypeOK, CallFails, Calling, history
<1>3. \/ /\ Head(todo[t]) = "put_limit" /\ todo'[t] = <<"put_zero">>
         /\ result'[t] = result[t]
      \/ result'[t] # "success"
  BY <1>1 DEF TypeOK, CallFails
<1>4. /\ \A u \in Threads \ {t} : state'[u] = state[u]
      /\ state'[t].resource_id = state[t].resource_id
      /\ state'[t].selected_action = state[t].selected_action
      /\ state'[t].target_instance_type = state[t].target_instance_type
      /\ state'[t].status = state[t].status
      /\ state'[t].rolled_back = state[t].rolled_back
  BY <1>1, CallState
<1>5. OthersIdle(t)
  BY <1>2, <1>4 DEF OthersIdle, Idle
<1>6. /\ TypeAt(t)' = TypeAt(t) /\ ConfigAt(t)' = ConfigAt(t)
      /\ RestorableSnapshot(t)' = RestorableSnapshot(t)
  BY <1>2, <1>4 DEF TypeAt, ConfigAt, RestorableSnapshot
<1>7. Unclaimed(t)'
  BY <1>1, <1>2, <1>4 DEF ClaimInv, Unclaimed, BeforeAction
<1>8. ~disturbed'[t] => ExecutionInv(t)'
  <2> SUFFICES ASSUME ~disturbed[t], pc[t] = "execute", result'[t] = "success"
               PROVE  Executing(TypeAt(t), state[t].selected_action,
                                state[t].target_instance_type, ConfigAt(t),
                                todo'[t])
    BY <1>2, <1>4, <1>6 DEF ExecutionInv
  <2>1. /\ Head(todo[t]) = "put_limit" /\ todo'[t] = <<"put_zero">>
        /\ result[t] = "success"
    BY <1>3
  <2>2. Executing(TypeAt(t), state[t].selected_action,
                  state[t].target_instance_type, ConfigAt(t), todo[t])
    BY <1>1, <2>1 DEF ClaimInv, ExecutionInv
  <2>3. TypeAt(t) = "Lambda" /\ state[t].selected_action = "Throttle"
    BY <1>1, <1>2, <2>1, <2>2, PutLimitThrottles
  <2> QED
    BY <2>1, <2>2, <2>3, Tails DEF Executing
<1>9. ~disturbed'[t] => RollbackInv(t)'
  <2> SUFFICES ASSUME ~disturbed[t], pc[t] = "rollback",
                      result'[t] = "success", RestorableSnapshot(t)
               PROVE  FALSE
    BY <1>2, <1>4, <1>6 DEF RollbackInv
  <2>1. Head(todo[t]) = "put_limit" /\ result[t] = "success"
    BY <1>3
  <2>2. Undoing(TypeAt(t), snapshot[t], ConfigAt(t), todo[t])
    BY <1>1, <2>1 DEF ClaimInv, RollbackInv
  <2> QED
    BY <1>1, <1>2, <2>1, <2>2, RollbackPutsNoLimit
<1>10. ClaimInv(t)'
  BY <1>7, <1>8, <1>9 DEF ClaimInv
<1> QED
  BY <1>5, <1>10, OthersClaims

LEMMA ActionEndClaims ==
  ASSUME ClaimsInv, NEW t \in Threads, ActionEnd(t)
  PROVE  \A u \in Threads : ClaimInv(u)'
<1>1. /\ TypeOK /\ ThreadInv(t) /\ ClaimInv(t)
      /\ state \in [Threads -> PipelineState]
  BY DEF ClaimsInv, IInv, TypeOK
<1>2. /\ pc[t] = "execute" /\ pc'[t] = "qa" /\ todo[t] = << >>
      /\ OthersIdle(t) /\ UNCHANGED <<todo, attempts>>
  BY <1>1 DEF TypeOK, ActionEnd, history, OthersIdle, Idle
<1>3. /\ state'[t].resource_id = state[t].resource_id
      /\ state'[t].target_instance_type = state[t].target_instance_type
      /\ state'[t].action_executed = state[t].selected_action
      /\ state'[t].status = result[t]
      /\ state'[t].rolled_back = FALSE
  BY <1>1 DEF ActionEnd, Executed, PipelineState
<1>4. attempts[t] > 0
  BY <1>1, <1>2 DEF ThreadInv, RetryInv, PipelineState
<1>5. TypeAt(t)' = TypeAt(t) /\ ConfigAt(t)' = ConfigAt(t)
  BY <1>2, <1>3 DEF TypeAt, ConfigAt, OthersIdle
<1>6. Unclaimed(t)'
  BY <1>2, <1>3, <1>4 DEF Unclaimed, BeforeAction
<1>7. ~disturbed[t] => ExecutionInv(t)'
  BY <1>1, <1>2, <1>3, <1>5 DEF ClaimInv, ExecutionInv
<1>8. RollbackInv(t)'
  BY <1>2 DEF RollbackInv
<1>9. ClaimInv(t)'
  BY <1>2, <1>6, <1>7, <1>8 DEF ClaimInv, OthersIdle
<1> QED
  BY <1>2, <1>9, OthersClaims

LEMMA QaWhitelistedClaims ==
  ASSUME ClaimsInv, NEW t \in Threads, QaWhitelisted(t)
  PROVE  \A u \in Threads : ClaimInv(u)'
<1>1. TypeOK /\ ClaimInv(t) /\ state \in [Threads -> PipelineState]
  BY DEF ClaimsInv, IInv, TypeOK
<1>2. /\ state'[t].resource_id = state[t].resource_id
      /\ state'[t].target_instance_type = state[t].target_instance_type
      /\ state'[t].action_executed = state[t].action_executed
      /\ state'[t].status = state[t].status
      /\ state'[t].rolled_back = state[t].rolled_back
      /\ state'[t].qa_passed = "True"
  BY <1>1 DEF QaWhitelisted, PipelineState
<1>3. /\ pc[t] = "qa" /\ pc'[t] = "logging" /\ attempts' = attempts
      /\ OthersIdle(t)
  BY <1>1, <1>2
  DEF TypeOK, QaWhitelisted, qa_router, history, OthersIdle, Idle
<1>4. TypeAt(t)' = TypeAt(t) /\ ConfigAt(t)' = ConfigAt(t)
  BY <1>2, <1>3 DEF TypeAt, ConfigAt, OthersIdle
<1>5. ClaimInv(t)'
  BY <1>1, <1>2, <1>3, <1>4
  DEF ClaimInv, Unclaimed, ExecutionInv, RollbackInv, BeforeAction, OthersIdle
<1> QED
  BY <1>3, <1>5, OthersClaims

\* Every thread sees a released Web ACL as drift.
LEMMA ReleaseDrifts ==
  ASSUME TypeOK, NEW t \in Threads, NEW outcome, ReleaseWaf(t, outcome),
         outcome = "success" => TypeAt(t) = "AutoScaling",
         NEW u \in Threads, state'[u].resource_id = state[u].resource_id
  PROVE  Drift(TypeAt(u), ConfigAt(u), ConfigAt(u)')
<1> DEFINE x == state[t].resource_id
<1>1. CASE cfg' = cfg
  BY <1>1 DEF ConfigAt, Drift
<1>2. CASE /\ TypeAt(t) = "AutoScaling"
           /\ cfg' = [cfg EXCEPT ![x].rule = FALSE]
  <2>1. x \in DOMAIN cfg
    BY ConfigsTyped DEF TypeOK
  <2>2. CASE state[u].resource_id = x
    <3>1. ConfigAt(u)' = [ConfigAt(u) EXCEPT !.rule = FALSE]
      BY <1>2, <2>1, <2>2 DEF ConfigAt
    <3> QED
      BY <1>2, <2>2, <3>1 DEF Drift, TypeAt
  <2>3. CASE state[u].resource_id # x
    <3>1. ConfigAt(u)' = ConfigAt(u)
      BY <1>2, <2>3, ConfigsTyped DEF ConfigAt, TypeOK
    <3> QED
      BY <3>1 DEF Drift
  <2> QED
    BY <2>2, <2>3
<1> QED
  BY <1>1, <1>2 DEF ReleaseWaf

LEMMA QaPassClaims ==
  ASSUME ClaimsInv, NEW t \in Threads, QaPass(t)
  PROVE  \A u \in Threads : ClaimInv(u)'
<1>1. TypeOK /\ ClaimInv(t) /\ state \in [Threads -> PipelineState]
  BY DEF ClaimsInv, IInv, TypeOK
<1>2. PICK outcome :
        /\ ReleaseWaf(t, outcome)
        /\ outcome = "success" => HoldsWaf(state[t])
        /\ state' = [state EXCEPT ![t].qa_passed = "True",
                                  ![t].whitelisted = FALSE,
                                  ![t].waf_release = outcome]
  BY DEF QaPass, None
<1>3. /\ state'[t].resource_id = state[t].resource_id
      /\ state'[t].target_instance_type = state[t].target_instance_type
      /\ state'[t].action_executed = state[t].action_executed
      /\ state'[t].status = state[t].status
      /\ state'[t].rolled_back = state[t].rolled_back
      /\ state'[t].qa_passed = "True"
      /\ \A u \in Threads \ {t} : state'[u] = state[u]
  BY <1>1, <1>2 DEF PipelineState
<1>4. /\ pc[t] = "qa" /\ pc'[t] = "logging"
      /\ UNCHANGED <<snapshot, todo, result, attempts, disturbed>>
      /\ \A u \in Threads \ {t} : Idle(u)
  BY <1>1, <1>3 DEF TypeOK, QaPass, qa_router, history, Idle
<1>5. \A u \in Threads : Drift(TypeAt(u), ConfigAt(u), ConfigAt(u)')
  <2>1. outcome = "success" => TypeAt(t) = "AutoScaling"
    BY <1>2 DEF HoldsWaf, TypeAt
  <2>2. \A u \in Threads : state'[u].resource_id = state[u].resource_id
    BY <1>3
  <2> QED
    BY <1>1, <1>2, <2>1, <2>2, ReleaseDrifts
<1>6. ClaimInv(t)'
  <2>1. Unclaimed(t)'
    BY <1>1, <1>3, <1>4 DEF ClaimInv, Unclaimed, BeforeAction
  <2>2. TypeAt(t)' = TypeAt(t)
    BY <1>3 DEF TypeAt
  <2>3. ASSUME ~disturbed[t], state[t].status = "success"
        PROVE  Executing(TypeAt(t), state[t].action_executed,
                         state[t].target_instance_type, ConfigAt(t)', << >>)
    <3>1. Executing(TypeAt(t), state[t].action_executed,
                    state[t].target_instance_type, ConfigAt(t), << >>)
      BY <1>1, <1>4, <2>3 DEF ClaimInv, Unclaimed, ExecutionInv
    <3> QED
      BY <1>1, <1>5, <3>1, ConfigsTyped, DriftKeepsClaims
  <2>4. ~disturbed[t] => ExecutionInv(t)'
    BY <1>3, <1>4, <2>2, <2>3 DEF ExecutionInv
  <2>5. ~state[t].rolled_back
    BY <1>1, <1>4 DEF ClaimInv, Unclaimed
  <2>6. RollbackInv(t)'
    BY <1>3, <1>4, <2>5 DEF RollbackInv
  <2> QED
    BY <1>4, <2>1, <2>4, <2>6 DEF ClaimInv
<1>7. \A u \in Threads \ {t} : ClaimInv(u)'
  BY <1>4, <1>5, IdleClaims DEF ClaimsInv
<1> QED
  BY <1>6, <1>7

LEMMA QaFailClaims ==
  ASSUME ClaimsInv, NEW t \in Threads, QaFail(t)
  PROVE  \A u \in Threads : ClaimInv(u)'
<1>1. /\ TypeOK /\ ThreadInv(t) /\ ClaimInv(t)
      /\ state \in [Threads -> PipelineState]
      /\ TypeAt(t) \in ResourceTypes /\ ConfigAt(t) \in Config(TypeAt(t))
  BY ConfigsTyped DEF ClaimsInv, IInv, TypeOK
<1>2. /\ state'[t].resource_id = state[t].resource_id
      /\ state'[t].status = state[t].status
      /\ state'[t].rolled_back = state[t].rolled_back
      /\ \A u \in Threads \ {t} : state'[u] = state[u]
  BY <1>1 DEF QaFail, PipelineState
<1>3. /\ pc[t] = "qa" /\ pc'[t] = "rollback"
      /\ UNCHANGED <<snapshot, attempts, disturbed>> /\ OthersIdle(t)
  BY <1>1, <1>2 DEF TypeOK, QaFail, history, OthersIdle, Idle
<1>4. result'[t] = "success" =>
        todo'[t] = RollbackProgram(TypeAt(t), ConfigAt(t), snapshot[t])
  BY <1>1 DEF TypeOK, QaFail
<1>5. snapshot[t] \in Snapshot(TypeAt(t))
  BY <1>1, <1>3, OnlyActionsFail DEF QaFail, ThreadInv, ProgramInv
<1>6. /\ TypeAt(t)' = TypeAt(t) /\ ConfigAt(t)' = ConfigAt(t)
      /\ RestorableSnapshot(t)' = RestorableSnapshot(t)
  BY <1>2, <1>3 DEF TypeAt, ConfigAt, RestorableSnapshot, OthersIdle
<1>7. result'[t] = "success" /\ RestorableSnapshot(t) =>
        Undoing(TypeAt(t), snapshot[t], ConfigAt(t), todo'[t])
  BY <1>1, <1>4, <1>5, RestorableThread, RollbackStarts
<1>8. Unclaimed(t)' /\ ExecutionInv(t)'
  BY <1>1, <1>2, <1>3
  DEF ClaimInv, Unclaimed, ExecutionInv, BeforeAction
<1>9. RollbackInv(t)'
  BY <1>3, <1>6, <1>7 DEF RollbackInv
<1>10. ClaimInv(t)'
  BY <1>8, <1>9 DEF ClaimInv
<1> QED
  BY <1>3, <1>10, OthersClaims

LEMMA RollbackEndClaims ==
  ASSUME ClaimsInv, NEW t \in Threads, RollbackEnd(t)
  PROVE  \A u \in Threads : ClaimInv(u)'
<1>1. /\ TypeOK /\ ThreadInv(t) /\ ClaimInv(t)
      /\ state \in [Threads -> PipelineState]
  BY DEF ClaimsInv, IInv, TypeOK
<1>2. /\ state'[t].resource_id = state[t].resource_id
      /\ state'[t].rolled_back = TRUE
      /\ state'[t].rollback_status = result[t]
      /\ state'[t].qa_passed = state[t].qa_passed
      /\ \A u \in Threads \ {t} : state'[u] = state[u]
  BY <1>1 DEF RollbackEnd, PipelineState
<1>3. /\ pc[t] = "rollback" /\ pc'[t] \in {"action", "logging"}
      /\ todo[t] = << >>
      /\ UNCHANGED <<snapshot, attempts, disturbed>> /\ OthersIdle(t)
  BY <1>1, <1>2
  DEF TypeOK, RollbackEnd, qa_router, history, OthersIdle, Idle
<1>4. attempts[t] > 0
  BY <1>1, <1>3 DEF ThreadInv, RetryInv, PipelineState
<1>5. /\ TypeAt(t)' = TypeAt(t) /\ ConfigAt(t)' = ConfigAt(t)
      /\ RestorableSnapshot(t)' = RestorableSnapshot(t)
  BY <1>2, <1>3 DEF TypeAt, ConfigAt, RestorableSnapshot, OthersIdle
<1>6. Unclaimed(t)' /\ ExecutionInv(t)'
  BY <1>2, <1>3, <1>4 DEF Unclaimed, ExecutionInv, BeforeAction
<1>7. ~disturbed[t] => RollbackInv(t)'
  <2>1. ASSUME ~disturbed[t], result[t] = "success", RestorableSnapshot(t)
        PROVE  Restored(TypeAt(t), ConfigAt(t), snapshot[t])
    BY <1>1, <1>3, <2>1 DEF ClaimInv, RollbackInv, Undoing
  <2> QED
    BY <1>2, <1>3, <1>5, <2>1 DEF RollbackInv
<1>8. ClaimInv(t)'
  BY <1>3, <1>6, <1>7 DEF ClaimInv
<1> QED
  BY <1>3, <1>8, OthersClaims

\* A claim that was true when the row was written is still true, and a crash
\* claims nothing.
LEMMA LastClaims ==
  ASSUME ClaimsInv, NEW t \in Threads, Logging(t) \/ Crash(t)
  PROVE  \A u \in Threads : ClaimInv(u)'
<1>1. TypeOK /\ ClaimInv(t)
  BY DEF ClaimsInv, IInv
<1>2. /\ (pc[t] = "logging" /\ pc'[t] = "END") \/ pc'[t] = "dead"
      /\ UNCHANGED <<state, snapshot, attempts, disturbed>> /\ OthersIdle(t)
  BY <1>1 DEF TypeOK, Logging, Crash, history, OthersIdle, Idle
<1>3. /\ TypeAt(t)' = TypeAt(t) /\ ConfigAt(t)' = ConfigAt(t)
      /\ RestorableSnapshot(t)' = RestorableSnapshot(t)
  BY <1>2 DEF TypeAt, ConfigAt, RestorableSnapshot, OthersIdle
<1>4. ClaimInv(t)'
  BY <1>1, <1>2, <1>3
  DEF ClaimInv, Unclaimed, ExecutionInv, RollbackInv, BeforeAction
<1> QED
  BY <1>2, <1>4, OthersClaims

LEMMA SettleClaims ==
  ASSUME ClaimsInv, NEW r \in Resources, Settle(r)
  PROVE  \A u \in Threads : ClaimInv(u)'
<1> SUFFICES ASSUME NEW u \in Threads
             PROVE  ClaimInv(u)'
  OBVIOUS
<1>1. TypeOK /\ state[u].resource_id \in Resources
  BY ConfigsTyped DEF ClaimsInv, IInv
<1>2. Idle(u) /\ UNCHANGED <<state, disturbed>>
  BY DEF Settle, history, Idle
<1>3. TypeOf[r] = "EC2" /\ cfg' = [cfg EXCEPT ![r] = Settled(cfg[r])]
  BY DEF Settle
<1>4. Drift(TypeAt(u), ConfigAt(u), ConfigAt(u)')
  <2>1. CASE state[u].resource_id = r
    BY <1>1, <1>2, <1>3, <2>1 DEF Drift, TypeAt, ConfigAt, TypeOK
  <2>2. CASE state[u].resource_id # r
    BY <1>1, <1>2, <1>3, <2>2 DEF Drift, ConfigAt, TypeOK
  <2> QED
    BY <2>1, <2>2
<1> QED
  BY <1>2, <1>4, IdleClaims DEF ClaimsInv

-----------------------------------------------------------------------------
(***************************************************************************)
(* The theorems                                                            *)
(***************************************************************************)
LEMMA InitClaims == Init => ClaimsInv
<1> SUFFICES ASSUME Init
             PROVE  ClaimsInv
  OBVIOUS
<1>1. IInv
  BY InitInvariant
<1>2. ASSUME NEW t \in Threads
      PROVE  ClaimInv(t)
  <2>1. state[t].status = None /\ ~state[t].rolled_back
    BY DEF Init, InitialState
  <2>2. pc[t] = "detection"
    BY DEF Init
  <2> QED
    BY <2>1, <2>2
    DEF ClaimInv, Unclaimed, ExecutionInv, RollbackInv, BeforeAction, None
<1> QED
  BY <1>1, <1>2 DEF ClaimsInv

LEMMA StepClaims == ClaimsInv /\ [Next]_vars => ClaimsInv'
<1> SUFFICES ASSUME ClaimsInv, [Next]_vars
             PROVE  ClaimsInv'
  OBVIOUS
<1>1. IInv'
  BY StepInvariant DEF ClaimsInv
<1>2. ASSUME NEW t \in Threads, Step(t)
      PROVE  \A u \in Threads : ClaimInv(u)'
  BY <1>2, EarlyClaims, NoActionClaims, ActionSnapshotClaims, CallSucceedsClaims,
     CallFailsClaims, ActionEndClaims, QaWhitelistedClaims, QaPassClaims,
     QaFailClaims, RollbackEndClaims, LastClaims DEF Step
<1>3. ASSUME NEW t \in Threads, Approve(t) \/ Reject(t) \/ Crash(t)
      PROVE  \A u \in Threads : ClaimInv(u)'
  BY <1>3, EarlyClaims, LastClaims
<1>4. ASSUME NEW r \in Resources, Settle(r)
      PROVE  \A u \in Threads : ClaimInv(u)'
  BY <1>4, SettleClaims
<1>5. ASSUME UNCHANGED vars, NEW u \in Threads
      PROVE  ClaimInv(u)'
  <2>1. Idle(u) /\ ConfigAt(u)' = ConfigAt(u) /\ disturbed' = disturbed
    BY <1>5 DEF vars, Idle, ConfigAt
  <2> QED
    BY <2>1, IdleClaims DEF ClaimsInv, Drift
<1>6. \A u \in Threads : ClaimInv(u)'
  BY <1>2, <1>3, <1>4, <1>5 DEF Next
<1> QED
  BY <1>1, <1>6 DEF ClaimsInv

(***************************************************************************)
(* As long as nobody else calls AWS on its resource, what a thread has     *)
(* done of its plan shows in the resource, and the rest of the plan        *)
(* completes the action or the rollback (execute_action, rollback_action). *)
(***************************************************************************)
THEOREM ClaimsInvariance == Spec => []ClaimsInv
<1> QED
  BY InitClaims, StepClaims, PTL DEF Spec

(***************************************************************************)
(* What a history row says of its run (_build_action_record).              *)
(***************************************************************************)
LEMMA RowFields ==
  ASSUME NEW s
  PROVE  /\ Row(s).action = s.action_executed
         /\ Row(s).success = (s.status = "success" /\ ~s.rolled_back)
<1>1. ASSUME NEW run, NEW act, NEW ok
      PROVE  LET row == [status |-> run, action |-> act, success |-> ok]
             IN  row.action = act /\ row.success = ok
  OBVIOUS
<1> QED
  BY <1>1, Zenon DEF Row

(***************************************************************************)
(* A rollback that reports success has brought the resource back to its    *)
(* snapshot, and an action row with success = TRUE names an effect that is *)
(* there: for every resource, wherever an instance was between stopped and *)
(* running, whichever call failed (rollback_action, _build_action_record). *)
(***************************************************************************)
THEOREM ClaimsHold == Spec => []ClaimsAreTrue
<1>1. ClaimsInv => RollbackRestores
  BY DEF ClaimsInv, ClaimInv, RollbackInv, RollbackRestores, RolledBackAlone
<1>2. ClaimsInv => AuditTruthful
  <2> SUFFICES ASSUME ClaimsInv, NEW t \in Threads, record[t] # NoRecord,
                      record[t].success, ~disturbed[t]
               PROVE  InEffect(TypeAt(t), record[t].action, ConfigAt(t),
                               state[t].target_instance_type)
    BY DEF AuditTruthful
  <2>1. pc[t] = "END" /\ record[t] = Row(state[t])
    BY DEF ClaimsInv, IInv, ThreadInv, RetryInv
  <2>2. /\ state[t].status = "success" /\ ~state[t].rolled_back
        /\ record[t].action = state[t].action_executed
    <3>1. /\ Row(state[t]).action = state[t].action_executed
          /\ Row(state[t]).success =
               (state[t].status = "success" /\ ~state[t].rolled_back)
      BY RowFields, Zenon
    <3> QED
      BY <2>1, <3>1, Zenon
  <2>3. Executing(TypeAt(t), record[t].action, state[t].target_instance_type,
                  ConfigAt(t), << >>)
    BY <2>1, <2>2 DEF ClaimsInv, ClaimInv, ExecutionInv
  <2> QED
    BY <2>3 DEF Executing
<1> QED
  BY <1>1, <1>2, ClaimsInvariance, PTL DEF ClaimsAreTrue
=============================================================================
