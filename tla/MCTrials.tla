------------------------------ MODULE MCTrials ------------------------------
(***************************************************************************)
(* The capacity trials and the traffic trial in one account, small.        *)
(*                                                                         *)
(* The capacity trials only count the instances the traffic trial has. To  *)
(* keep the instance small they start where it has none or has just been   *)
(* set up, and it goes on when their groups are gone.                      *)
(***************************************************************************)
EXTENDS ScalingTrial

MCSizes == {[anomaly |-> 1, edge |-> 0, normal |-> 1], [anomaly |-> 1, edge |-> 1, normal |-> 0]}
MCCapacitySizes == "jitter" :> {[anomaly |-> 1, normal |-> 1], [anomaly |-> 1, normal |-> 0]}
                   @@ "edos" :> {[anomaly |-> 1, normal |-> 0]}
MCSpikes == <<3>>

JustSetUp ==
    /\ setup.done /\ ~alb.limited
    /\ groups = Members(setup.size) /\ targets = groups /\ setup.size["edge"] = 1
AllGone == run = NoRun /\ \A g \in Groups : desired[g] = Gone /\ jitter[g] = NoThread

MCNext ==
    /\ Next
    /\ scalingVars' # scalingVars => setup = NoSetup \/ JustSetUp
    /\ trafficVars' # trafficVars => AllGone

MCSpec == Init /\ [][MCNext]_vars
=============================================================================
