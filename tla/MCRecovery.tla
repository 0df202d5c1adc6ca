----------------------------- MODULE MCRecovery -----------------------------
(***************************************************************************)
(* Instances of Recovery for TLC.                                          *)
(***************************************************************************)
EXTENDS RecoveryRefinement, TLC

CONSTANTS t1, t2, ec2, fn, asg, bucket, db

OneThread    == {t1}
OneInstance  == {ec2}
InstanceType == ec2 :> "EC2"

\* One thread and a resource of each type, of which one starts in another way
\* than usual: an instance of another type, stopped or in transition; a
\* function with a reservation of its own; a group above or below the
\* scale-down size, its load balancer protected or not; a half-open bucket, or
\* one with a policy of its own.
EveryResource == {ec2, fn, asg, bucket, db}
EveryType     == ec2 :> "EC2" @@ fn :> "Lambda" @@ asg :> "AutoScaling"
                   @@ bucket :> "S3" @@ db :> "RDS"
Usual         == ec2 :> [tier |-> MaxTier, state |-> "running"]
                   @@ fn :> [reserved |-> -1]
                   @@ asg :> [max |-> 4, desired |-> 3, acl |-> "none",
                              rule |-> FALSE]
                   @@ bucket :> [pab |-> "open", policy |-> "none"]
                   @@ db :> [opaque |-> TRUE]
OneUnusual    ==
  {[Usual EXCEPT ![ec2] = c] : c \in [tier : Tiers, state : RunStates]}
  \cup {[Usual EXCEPT ![fn].reserved = 8]}
  \cup {[Usual EXCEPT ![asg].desired = d, ![asg].acl = a] :
          d \in {1, 3}, a \in {"none", "user"}}
  \cup {[Usual EXCEPT ![bucket].pab = b, ![bucket].policy = p] :
          b \in {"open", "partial"}, p \in {"none", "custom", "unversioned"}}

\* Two threads on one running instance.
TwoThreads     == {t1, t2}
RunningOnly    == {ec2 :> [tier |-> MaxTier, state |-> "running"]}
ThreadSymmetry == Permutations(TwoThreads)
ThreeAttempts  == attempts[t1] + attempts[t2] <= 3

=============================================================================
