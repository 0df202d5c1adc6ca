----------------------------- MODULE AwsResource -----------------------------
(***************************************************************************)
(* The AWS resources the pipeline acts on, as the code in src/ uses them,  *)
(* and the sequences of API calls that pipeline/action_agent.py and        *)
(* pipeline/inbound_handlers.py issue to execute an action and to roll it  *)
(* back.  An instance type is a tier (its index in EC2_HOURLY_PRICE_USD),  *)
(* a bucket's public access block and policy are members of small sets.    *)
(***************************************************************************)
EXTENDS Integers, Sequences, Policy

CONSTANTS MaxTier,      \* the dearest instance type of the price table
          DefaultTier,  \* DEFAULT_TARGET_INSTANCE_TYPE
          Owners        \* who may own a rate-limiting Web ACL: the threads

ASSUME TierAssumption == /\ MaxTier \in Nat
                         /\ DefaultTier \in 0 .. MaxTier

Tiers     == 0 .. MaxTier
RunStates == {"pending", "running", "stopping", "stopped"}

LIMIT   == 5     \* DEFAULT_LAMBDA_THROTTLE_LIMIT
MAXSIZE == 2     \* DEFAULT_ASG_SCALEDOWN_MAX_SIZE

(***************************************************************************)
(* Configurations.  reserved = -1: no reserved concurrency.  acl: the Web  *)
(* ACL associated with the group's load balancer ("user" for one that was  *)
(* there before), rule: whether that ACL holds the rate-based rule.        *)
(* "unversioned": a bucket policy without the optional Version element.    *)
(***************************************************************************)
Config(type) ==
  CASE type = "EC2"         -> [tier : Tiers, state : RunStates]
    [] type = "Lambda"      -> [reserved : {-1} \cup Nat]
    [] type = "AutoScaling" -> [max : Nat, desired : Nat,
                                acl : {"none", "user"} \cup Owners,
                                rule : BOOLEAN]
    [] type = "S3"          -> [pab : {"open", "partial", "blocked"},
                                policy : {"none", "custom", "unversioned"}]
    [] OTHER                -> [opaque : {TRUE}]

\* take_snapshot: what is remembered for the rollback.  The snapshot of an
\* Auto Scaling group has no Web ACL; RDS has no snapshot.
NoSnapshot == [none |-> TRUE]

Snapshot(type) ==
  CASE type = "AutoScaling" -> [max : Nat, desired : Nat]
    [] type = "RDS"         -> {NoSnapshot}
    [] OTHER                -> Config(type)

SnapshotOf(type, c) ==
  CASE type = "AutoScaling" -> [max |-> c.max, desired |-> c.desired]
    [] type = "RDS"         -> NoSnapshot
    [] OTHER                -> c

\* _ec2_resize_saving: one tier down, the lowest tier stays.
LowerTier(k) == IF k = 0 THEN 0 ELSE k - 1

\* The targets decision_node may store: one tier below the tier read by
\* describe_instances, or one guessed from the cost when that read fails.
ResizeTargets(c) ==
  {LowerTier(c.tier), DefaultTier} \cup {LowerTier(k) : k \in Tiers}

\* Mutant: takes every policy for one that was not there.
PolicyToRestore_Never(snap) == "none"

\* _rollback_s3 puts the policy of the snapshot back, or deletes the policy
\* when the snapshot's has no Version, which it takes for "there was none".
PolicyToRestore(snap) ==
  IF snap.policy = "unversioned" THEN "none" ELSE snap.policy

-----------------------------------------------------------------------------
(***************************************************************************)
(* API calls.  The argument of a call is fixed by its name and by the      *)
(* thread's target and snapshot, so a program is a sequence of names.      *)
(***************************************************************************)
Ops == [ EC2 |-> {"stop_instances", "wait_stopped", "wait_running",
                  "modify_to_target", "modify_to_snapshot", "start_instances"},
         Lambda      |-> {"put_limit", "put_zero", "restore_concurrency"},
         AutoScaling |-> {"scale_down", "apply_waf", "restore_sizes"},
         S3          |-> {"block_public_access", "restore_access_block",
                          "restore_policy"},
         RDS         |-> {} ]

\* When AWS accepts a call (a waiter: when the awaited state is reached).
Accepts(op, c) ==
  CASE op = "stop_instances"  -> c.state # "pending"
    [] op = "start_instances" -> c.state # "stopping"
    [] op \in {"wait_stopped", "modify_to_target", "modify_to_snapshot"}
                              -> c.state = "stopped"
    [] op = "wait_running"    -> c.state = "running"
    [] OTHER                  -> TRUE

\* What an accepted call of owner o, with its target and snapshot, leaves.
Apply(op, c, o, target, snap) ==
  CASE op = "stop_instances" ->
         [c EXCEPT !.state = IF @ = "running" THEN "stopping" ELSE @]
    [] op = "start_instances" ->
         [c EXCEPT !.state = IF @ = "stopped" THEN "pending" ELSE @]
    [] op = "modify_to_target"    -> [c EXCEPT !.tier = target]
    [] op = "modify_to_snapshot"  -> [c EXCEPT !.tier = snap.tier]
    [] op = "put_limit"           -> [c EXCEPT !.reserved = LIMIT]
    [] op = "put_zero"            -> [c EXCEPT !.reserved = 0]
    [] op = "restore_concurrency" -> [c EXCEPT !.reserved = snap.reserved]
    [] op = "scale_down" ->
         [c EXCEPT !.max = MAXSIZE,
                   !.desired = IF @ <= MAXSIZE THEN @ ELSE MAXSIZE]
    [] op = "apply_waf"     -> [c EXCEPT !.acl = o, !.rule = TRUE]
    [] op = "restore_sizes" -> [c EXCEPT !.max = snap.max,
                                         !.desired = snap.desired]
    [] op = "block_public_access"  -> [c EXCEPT !.pab = "blocked"]
    [] op = "restore_access_block" -> [c EXCEPT !.pab = snap.pab]
    [] op = "restore_policy"       -> [c EXCEPT !.policy = PolicyToRestore(snap)]
    [] OTHER -> c

\* AWS finishes a start or a stop.
Settled(c) == [c EXCEPT !.state = CASE @ = "pending"  -> "running"
                                    [] @ = "stopping" -> "stopped"
                                    [] OTHER          -> @]

-----------------------------------------------------------------------------
\* execute_action: the calls it issues; alb: get_alb_arn_for_asg found one.
ExecuteProgram(type, action, waf, alb) ==
  CASE action = "Stop"     -> <<"stop_instances">>
    [] action = "Resize"   -> <<"stop_instances", "wait_stopped",
                                "modify_to_target", "start_instances">>
    [] action = "Throttle" -> <<"put_limit">>
    [] action = "Block" /\ type = "Lambda" -> <<"put_zero">>
    [] action = "Block" /\ type = "S3"     -> <<"block_public_access">>
    [] type = "AutoScaling" ->
         IF alb /\ (waf \/ action = "Block")
           THEN <<"scale_down", "apply_waf">> ELSE <<"scale_down">>
    [] OTHER -> << >>

\* Block needs an ALB in front of the instance; no caller ever supplies one.
Implemented(type, action) ==
  /\ action \in RESOURCE_IMPLEMENTED_ACTIONS[type]
  /\ ~(type = "EC2" /\ action = "Block")

\* Mutant: an instance whose type was changed back is not started again.
RollbackEc2_NoRestart(c, snap) ==
  IF c.tier # snap.tier
    THEN IF c.state = "stopping" THEN <<"wait_stopped", "modify_to_snapshot">>
         ELSE IF c.state = "stopped" THEN <<"modify_to_snapshot">>
         ELSE <<"wait_running", "stop_instances", "wait_stopped",
                "modify_to_snapshot">>
    ELSE IF snap.state = "running" /\ c.state = "stopped"
           THEN <<"start_instances">> ELSE << >>

\* _rollback_ec2, planned from the describe_instances it starts with.
RollbackEc2(c, snap) ==
  IF c.tier # snap.tier
    THEN (CASE c.state \in {"pending", "running"} ->
                 <<"wait_running", "stop_instances", "wait_stopped">>
            [] c.state = "stopping" -> <<"wait_stopped">>
            [] OTHER -> << >>)
         \o <<"modify_to_snapshot">>
         \o (IF snap.state = "running" THEN <<"start_instances">> ELSE << >>)
    ELSE CASE snap.state = "running" /\ c.state = "stopping" ->
                <<"wait_stopped", "start_instances">>
           [] snap.state = "running" /\ c.state \in {"pending", "stopped"} ->
                <<"start_instances">>
           [] snap.state = "stopped" -> <<"stop_instances">>
           [] OTHER -> << >>

\* rollback_action
RollbackProgram(type, c, snap) ==
  CASE type = "EC2"         -> RollbackEc2(c, snap)
    [] type = "Lambda"      -> <<"restore_concurrency">>
    [] type = "AutoScaling" -> <<"restore_sizes">>
    [] type = "S3"          -> <<"restore_access_block", "restore_policy">>
    [] OTHER                -> << >>
=============================================================================
