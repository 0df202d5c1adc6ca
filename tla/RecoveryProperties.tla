------------------------- MODULE RecoveryProperties -------------------------
(***************************************************************************)
(* What the recovery pipeline promises, stated over Recovery.              *)
(***************************************************************************)
EXTENDS Recovery

(***************************************************************************)
(* Every variable has its type: in particular rollback_count stays within  *)
(* 0..2 (schema/state.py), a resource keeps the shape of its type, and the *)
(* program of a thread only holds calls its resource's type understands.   *)
(***************************************************************************)
TypeOK ==
  /\ pc \in [Threads -> Nodes]
  /\ state \in [Threads -> PipelineState]
  /\ DOMAIN snapshot = Threads
  /\ \A t \in Threads : snapshot[t] \in Snapshot(TypeAt(t)) \cup {NoSnapshot}
  /\ DOMAIN cfg = Resources
  /\ \A r \in Resources : cfg[r] \in Config(TypeOf[r])
  /\ DOMAIN todo = Threads
  /\ \A t \in Threads : todo[t] \in Seq(Ops[TypeAt(t)])
  /\ result \in [Threads -> {"success", "failed", "partial_success",
                             "not_implemented"}]
  /\ DOMAIN record = Threads
  /\ answer \in [Threads -> {"approved", "rejected", None}]
  /\ attempts \in [Threads -> 0 .. 2]
  /\ disturbed \in [Threads -> BOOLEAN]

(***************************************************************************)
(* A thread acts on AWS only when its action is LOW risk or the            *)
(* administrator approved that very run; a rejected run never acts, on the *)
(* first try or on a retry (decision_node, approval_gate_node,             *)
(* action_node; in the graph with the approval gate and the one without).  *)
(***************************************************************************)
NoUnapprovedAction ==
  \A t \in Threads :
    attempts[t] > 0 => \/ state[t].risk_level = "LOW"
                       \/ answer[t] = "approved"

(***************************************************************************)
(* A run acts at most twice, and it is recorded as rollback_exhausted      *)
(* exactly when both tries were executed, failed QA and were rolled back;  *)
(* the status failed_qa is never written (qa_router, _build_run_record).   *)
(***************************************************************************)
RetryBound ==
  \A t \in Threads :
    /\ attempts[t] <= 2
    /\ pc[t] = "logging" /\ state[t].qa_passed = "False"
         => attempts[t] = 2 /\ state[t].rollback_count = 2
    /\ record[t] # NoRecord =>
         /\ record[t].status # "failed_qa"
         /\ record[t].status = "rollback_exhausted" <=>
              attempts[t] = 2 /\ state[t].qa_passed = "False"

-----------------------------------------------------------------------------
\* The configuration c is what snap remembers, once AWS has settled.
Restored(type, c, snap) ==
  CASE type = "EC2"         -> Settled(c) = Settled(snap)
    [] type = "AutoScaling" -> c.max = snap.max /\ c.desired = snap.desired
    [] type = "RDS"         -> TRUE
    [] OTHER                -> c = snap

\* The rollback of t reported success and nobody has called AWS on the
\* resource since t first acted, t's own retry included.
RolledBackAlone(t) ==
  /\ pc[t] \in {"action", "logging", "END"}
  /\ state[t].rolled_back /\ state[t].rollback_status = "success"
  /\ ~disturbed[t]

RestorableSnapshot(t) ==
  /\ TypeAt(t) = "EC2" => snapshot[t].state \in {"running", "stopped"}
  /\ TypeAt(t) = "S3"  => snapshot[t].policy # "unversioned"

(***************************************************************************)
(* A rollback that reports success has brought the resource back to its    *)
(* snapshot, whichever call of the action failed and wherever the instance *)
(* was between stopped and running when the rollback read it; provided the *)
(* snapshot was not taken of an instance in transition or of a bucket      *)
(* policy without a Version (_rollback_ec2, _rollback_lambda,              *)
(* _rollback_autoscaling, _rollback_s3).                                   *)
(***************************************************************************)
RollbackRestores ==
  \A t \in Threads :
    RolledBackAlone(t) /\ RestorableSnapshot(t) =>
      Restored(TypeAt(t), ConfigAt(t), snapshot[t])

\* The same without the proviso, for every snapshot a rollback may be given:
\* "저장된 스냅샷으로 EC2 인스턴스를 복원" of _rollback_ec2 (action_agent.py:511),
\* "있었으면 그대로 put_bucket_policy로 복원" of _rollback_s3 (:609).
RollbackRestoresAnySnapshot ==
  \A t \in Threads :
    RolledBackAlone(t) =>
      Restored(TypeAt(t), ConfigAt(t), snapshot[t])

\* The effect an action is recorded for.
InEffect(type, action, c, target) ==
  CASE action = "Stop"     -> c.state \in {"stopping", "stopped"}
    [] action = "Resize"   -> c.tier = target /\ Settled(c).state = "running"
    [] action = "Throttle" -> c.reserved \in {0, LIMIT}
    [] action = "ScaleDown" \/ type = "AutoScaling"
                           -> c.max = MAXSIZE /\ c.desired <= MAXSIZE
    [] action = "Block" /\ type = "Lambda" -> c.reserved = 0
    [] action = "Block" /\ type = "S3"     -> c.pab = "blocked"
    [] OTHER               -> FALSE

(***************************************************************************)
(* The action row logging_node writes with success = TRUE tells the truth: *)
(* the action is in effect on the resource and was not rolled back, as     *)
(* long as no other thread has called AWS on it (_build_action_record).    *)
(***************************************************************************)
AuditTruthful ==
  \A t \in Threads :
    record[t] # NoRecord /\ record[t].success /\ ~disturbed[t] =>
      InEffect(TypeAt(t), record[t].action, ConfigAt(t),
               state[t].target_instance_type)

(***************************************************************************)
(* What a run claims is true: a rollback that reports success restored the *)
(* snapshot, an action row with success = TRUE names an effect that is     *)
(* there (rollback_action, _build_action_record).                          *)
(***************************************************************************)
ClaimsAreTrue == RollbackRestores /\ AuditTruthful

-----------------------------------------------------------------------------
(***************************************************************************)
(* A run that reached the action node comes to its end, or its process     *)
(* dies; retries, waiters and failing calls included.                      *)
(***************************************************************************)
ActedRunsEnd ==
  \A t \in Threads : pc[t] = "action" ~> pc[t] \in {"END", "dead"}

(***************************************************************************)
(* An instance that was running when it was snapshotted is running again   *)
(* after a successful final rollback, unless another thread interferes.    *)
(***************************************************************************)
RolledBackInstanceRuns ==
  \A t \in Threads :
    ( /\ TypeAt(t) = "EC2" /\ pc[t] = "END" /\ RolledBackAlone(t)
      /\ snapshot[t].state = "running" )
    ~> ( \/ disturbed[t]
         \/ TypeAt(t) = "EC2" /\ ConfigAt(t).state = "running" )
=============================================================================
