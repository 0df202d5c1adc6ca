------------------------- MODULE RecoveryInvariant -------------------------
(***************************************************************************)
(* The inductive invariant of Recovery.  Where a thread is in the graph    *)
(* fixes how often it has acted and been rolled back, whether its action   *)
(* may run without an answer of the administrator, and that the snapshot   *)
(* and the API calls it holds belong to its resource.                      *)
(***************************************************************************)
EXTENDS RecoveryProperties

BeforeAction == {"detection", "classification", "decision", "notify_gate",
                 "approval_gate"}

Allowed(t) == state[t].risk_level = "LOW" \/ answer[t] = "approved"

\* What a thread that holds an action, but no demand for approval, may do.
ApprovalInv(t) ==
  /\ attempts[t] > 0 => Allowed(t)
  /\ ( /\ pc[t] \in {"notify_gate", "approval_gate", "action", "execute",
                     "qa", "rollback"}
       /\ ~state[t].requires_approval
       /\ state[t].selected_action # "NoAction" )
     => Allowed(t)

\* Tries and rollbacks alternate; only a try can fail QA.
RetryInv(t) ==
  LET count == state[t].rollback_count
  IN  /\ pc[t] \in BeforeAction => attempts[t] = 0 /\ count = 0
      /\ pc[t] \in BeforeAction => state[t].qa_passed = None
      /\ pc[t] = "action" => attempts[t] = count /\ count <= 1
      /\ pc[t] \in {"execute", "rollback"} =>
           attempts[t] = count + 1 /\ count <= 1
      /\ pc[t] = "rollback" => state[t].qa_passed = "False"
      /\ pc[t] = "qa" =>
           /\ count <= 1
           /\ \/ attempts[t] = count + 1
              \/ attempts[t] = count /\ state[t].action_executed \in {"NoAction", None}
      /\ pc[t] \in {"logging", "END"} =>
           IF state[t].qa_passed = "False" THEN attempts[t] = 2 /\ count = 2
                                           ELSE count <= 1
      /\ record[t] # NoRecord => pc[t] = "END" /\ record[t] = Row(state[t])

\* Only a rollback restores, only an execution touches the Web ACL or moves
\* an instance to a target, and then there is a target.
KnownOps(t) ==
  IF pc[t] = "rollback"
    THEN Ops[TypeAt(t)] \ {"modify_to_target", "apply_waf"}
    ELSE IF state[t].target_instance_type \in Tiers
           THEN Ops[TypeAt(t)] ELSE Ops[TypeAt(t)] \ {"modify_to_target"}

\* The calls a node has yet to make, and the snapshot they are made with.
ProgramInv(t) ==
  /\ todo[t] \in Seq(KnownOps(t))
  /\ pc[t] \notin {"execute", "rollback", "dead"} => todo[t] = << >>
  /\ pc[t] = "rollback" => result[t] \in {"success", "failed"}
  /\ state[t].selected_action = "Resize" =>
       state[t].target_instance_type \in Tiers
  /\ pc[t] \in {"execute", "rollback"} => snapshot[t] \in Snapshot(TypeAt(t))
  /\ pc[t] = "qa" /\ state[t].action_executed \notin {"NoAction", None}
       => snapshot[t] \in Snapshot(TypeAt(t))

ThreadInv(t) == ApprovalInv(t) /\ RetryInv(t) /\ ProgramInv(t)

(***************************************************************************)
(* The invariant as one formula: the control state of a thread explains    *)
(* its retries, its approval and its API calls (build_approval_graph).     *)
(***************************************************************************)
IInv == TypeOK /\ \A t \in Threads : ThreadInv(t)

-----------------------------------------------------------------------------
\* An execution of action with target that has gone well so far: the calls it
\* has yet to make, on a resource c, and what those it has made left there.
Executing(type, action, target, c, calls) ==
  /\ action # "NoAction" /\ Implemented(type, action)
  /\ calls = << >> => InEffect(type, action, c, target)
  /\ action = "Stop" => calls \in {<<"stop_instances">>, << >>}
  /\ action = "Resize" =>
       \/ calls \in {<<"stop_instances", "wait_stopped", "modify_to_target",
                       "start_instances">>,
                     <<"wait_stopped", "modify_to_target", "start_instances">>,
                     << >>}
       \/ /\ calls = <<"modify_to_target", "start_instances">>
          /\ c.state = "stopped"
       \/ /\ calls = <<"start_instances">>
          /\ c.state = "stopped" /\ c.tier = target
  /\ action = "Throttle" => calls \in {<<"put_limit">>, <<"put_zero">>, << >>}
  /\ type = "Lambda" /\ action = "Block" => calls \in {<<"put_zero">>, << >>}
  /\ type = "S3" => calls \in {<<"block_public_access">>, << >>}
  /\ type = "AutoScaling" =>
       \/ calls \in {<<"scale_down", "apply_waf">>, <<"scale_down">>, << >>}
       \/ /\ calls = <<"apply_waf">>
          /\ InEffect(type, action, c, target)

\* The calls of _rollback_ec2 once it has found another type than snap's.
ChangesType(snap, calls) ==
  IF snap.state = "running"
    THEN calls \in {<<"wait_running", "stop_instances", "wait_stopped",
                      "modify_to_snapshot", "start_instances">>,
                    <<"stop_instances", "wait_stopped", "modify_to_snapshot",
                      "start_instances">>,
                    <<"wait_stopped", "modify_to_snapshot", "start_instances">>,
                    <<"modify_to_snapshot", "start_instances">>}
    ELSE calls \in {<<"wait_running", "stop_instances", "wait_stopped",
                      "modify_to_snapshot">>,
                    <<"stop_instances", "wait_stopped", "modify_to_snapshot">>,
                    <<"wait_stopped", "modify_to_snapshot">>,
                    <<"modify_to_snapshot">>}

\* The same of a rollback to snap that has gone well so far.
Undoing(type, snap, c, calls) ==
  /\ calls = << >> => Restored(type, c, snap)
  /\ type = "EC2" =>
       \/ calls = << >>
       \/ ChangesType(snap, calls)
       \/ /\ c.tier = snap.tier
          /\ IF snap.state = "running"
               THEN calls \in {<<"wait_stopped", "start_instances">>,
                               <<"start_instances">>}
               ELSE calls = <<"stop_instances">>
  /\ type = "Lambda" => calls \in {<<"restore_concurrency">>, << >>}
  /\ type = "AutoScaling" => calls \in {<<"restore_sizes">>, << >>}
  /\ type = "S3" =>
       \/ calls \in {<<"restore_access_block", "restore_policy">>, << >>}
       \/ calls = <<"restore_policy">> /\ c.pab = snap.pab
  /\ type = "RDS" => calls = << >>

\* A run that has not acted claims nothing; it can claim that its action is in
\* effect, or that it was rolled back, but not both at once.
Unclaimed(t) ==
  /\ pc[t] \in BeforeAction => state[t].status = None /\ ~state[t].rolled_back
  /\ pc[t] = "qa" => ~state[t].rolled_back
  /\ state[t].status = "success" \/ state[t].rolled_back => attempts[t] > 0

ExecutionInv(t) ==
  /\ pc[t] = "execute" /\ result[t] = "success" =>
       Executing(TypeAt(t), state[t].selected_action,
                 state[t].target_instance_type, ConfigAt(t), todo[t])
  /\ ( /\ pc[t] \in {"qa", "logging", "END"}
       /\ state[t].status = "success" /\ ~state[t].rolled_back )
     => Executing(TypeAt(t), state[t].action_executed,
                  state[t].target_instance_type, ConfigAt(t), << >>)

RollbackInv(t) ==
  /\ pc[t] = "rollback" /\ result[t] = "success" /\ RestorableSnapshot(t) =>
       Undoing(TypeAt(t), snapshot[t], ConfigAt(t), todo[t])
  /\ ( /\ pc[t] \in {"action", "logging", "END"}
       /\ state[t].rolled_back /\ state[t].rollback_status = "success"
       /\ RestorableSnapshot(t) )
     => Restored(TypeAt(t), ConfigAt(t), snapshot[t])

ClaimInv(t) ==
  Unclaimed(t) /\ (~disturbed[t] => ExecutionInv(t) /\ RollbackInv(t))

(***************************************************************************)
(* The invariant behind ClaimsAreTrue: as long as nobody else calls AWS on *)
(* its resource, what a thread has done of its plan shows in the resource, *)
(* and the rest of the plan completes the action or the rollback           *)
(* (execute_action, rollback_action).                                      *)
(***************************************************************************)
ClaimsInv == IInv /\ \A t \in Threads : ClaimInv(t)
=============================================================================
