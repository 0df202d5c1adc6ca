---------------------------- MODULE ScalingTrial ----------------------------
(***************************************************************************)
(* The capacity trials, which share the account's quota of instances with  *)
(* the traffic trial: playground/autoscaling_edos_trial.py, in which a     *)
(* thread of every trial shakes the capacity of its group while the        *)
(* baseline is recorded, and the edos scenario of                          *)
(* playground/lambda_spike_edos_repeated_trial.py, which leaves it alone.  *)
(* Both raise the capacity of the anomaly groups, measure, and put it back.*)
(*                                                                         *)
(* A group is <<script, label, index>>. One script runs at a time. What    *)
(* AWS is asked for it gets, as long as the quota is kept.                 *)
(***************************************************************************)
EXTENDS TrafficTrial, Sequences

CONSTANTS CapacitySizes,      \* CapacitySizes[s]: the sizes [anomaly, normal] of script s
          AnomalyCapacity,    \* --anomaly-capacity
          SpikeCapacities,    \* EDOS_SPIKE_CAPACITIES
          Quota,              \* the instances the vCPU limit is enough for
          Gone                \* there is no such group

Low == 1
High == 2

Scripts == {"jitter", "edos"}

ASSUME ScalingAssumption ==
    /\ CapacitySizes \in [Scripts -> SUBSET [{"anomaly", "normal"} -> Nat]]
    /\ AnomalyCapacity \in Nat /\ SpikeCapacities \in Seq(Nat) \ {<<>>}
    /\ Quota \in Nat /\ Gone \notin Nat

Own(s, n) == {g \in {s} \X {"anomaly", "normal"} \X (0 .. 9) : g[3] < n[g[2]]}
Groups == UNION {UNION {Own(s, n) : n \in CapacitySizes[s]} : s \in Scripts}

Jitters(g) == g[1] = "jitter"
Anomaly(g) == g[2] = "anomaly"
Spike(g) == IF Jitters(g) THEN AnomalyCapacity
            ELSE SpikeCapacities[(g[3] % Len(SpikeCapacities)) + 1]

VARIABLES
    desired,  \* desired[g]: the desired capacity of the group, or Gone
    jitter,   \* jitter[g]: [at, level, stop], the jitter thread and its stop event
    trial,    \* trial[g]: [at, spiked, result], the trial of the group
    run,      \* [members, checked]: the groups of the run, and whether the quota held
    slow      \* a call to AWS may take longer than the five seconds of the join

scalingVars == <<desired, jitter, trial, run, slow>>
vars == <<trafficVars, scalingVars>>

NoThread == [at |-> "off", level |-> Low, stop |-> FALSE]
NoTrial == [at |-> "none", spiked |-> FALSE, result |-> "none"]
NoRun == [members |-> {}, checked |-> FALSE]

Init ==
    /\ TrafficInit
    /\ desired = [g \in Groups |-> Gone]
    /\ jitter = [g \in Groups |-> NoThread]
    /\ trial = [g \in Groups |-> NoTrial]
    /\ run = NoRun
    /\ slow \in BOOLEAN

----------------------------------------------------------------------------
(* check_capacity_budget and check_edos_quota                              *)

Size(g) == IF desired[g] = Gone THEN 0 ELSE desired[g]

\* The instances of some groups, each the pair of its group and a number.
Instances(Of(_), gs) == Cardinality(UNION {{g} \X (1 .. Of(g)) : g \in gs})
Running == Cardinality(groups) + Instances(Size, Groups)

\* Mutant: the normal groups are counted without their jitter.
CalmPeak(s, n) ==
    IF s = "jitter"
      THEN Cardinality(groups) + Instances(Size, {g \in Groups : ~Jitters(g)})
           + n["normal"] * Low + n["anomaly"] * AnomalyCapacity
      ELSE Running + n["normal"] * Low
           + Instances(Spike, {g \in Own(s, n) : Anomaly(g)})

\* The groups with the tag of the jitter trial are taken for those it was given, and
\* are counted at the most they can have; the other script counts its own ones twice.
Peak(s, n) ==
    IF s = "jitter"
      THEN Cardinality(groups) + Instances(Size, {g \in Groups : ~Jitters(g)})
           + n["normal"] * High + n["anomaly"] * AnomalyCapacity
      ELSE Running + n["normal"] * Low
           + Instances(Spike, {g \in Own(s, n) : Anomaly(g) /\ g[3] < Len(SpikeCapacities)})

----------------------------------------------------------------------------
(* --setup and --teardown                                                  *)

Idle == TrafficIdle /\ run = NoRun /\ \A g \in Groups : jitter[g] = NoThread

\* One script sets a group that is there to the low capacity, the other leaves it alone.
Ensured(g) == IF Jitters(g) \/ desired[g] = Gone THEN Low ELSE desired[g]

\* One group after the other, the anomaly ones first, until a call raises.
Setup(s, n) ==
    /\ Idle
    /\ Peak(s, n) <= Quota \/ s = "jitter"
    /\ \E a \in 0 .. n["anomaly"], b \in 0 .. n["normal"] :
         /\ b > 0 => a = n["anomaly"]
         /\ desired' = [g \in Groups |->
                          IF g \in Own(s, [anomaly |-> a, normal |-> b])
                            THEN Ensured(g) ELSE desired[g]]
    /\ UNCHANGED <<trafficVars, jitter, trial, run, slow>>

\* Every failing call is logged and passed over.
Teardown(s, n) ==
    /\ Idle
    /\ \E end \in [Own(s, n) -> {"kept", "emptied", "deleted"}] :
         desired' = [g \in Groups |->
                       CASE g \notin Own(s, n) \/ desired[g] = Gone -> desired[g]
                         [] OTHER -> CASE end[g] = "kept" -> desired[g]
                                       [] end[g] = "emptied" -> 0
                                       [] end[g] = "deleted" -> Gone]
    /\ UNCHANGED <<trafficVars, jitter, trial, run, slow>>

----------------------------------------------------------------------------
(* --run: the jitter thread                                                *)

\* --skip-quota-check lets a run pass: its checked is FALSE.
Run(s, n) ==
    /\ Idle
    /\ Peak(s, n) <= Quota \/ s = "jitter"
    /\ run' = [members |-> Own(s, n), checked |-> Peak(s, n) <= Quota]
    /\ trial' = [g \in Groups |->
                   IF g \in Own(s, n) THEN [NoTrial EXCEPT !.at = "baseline"] ELSE NoTrial]
    /\ jitter' = [g \in Groups |->
                    IF g \in Own(s, n) /\ Jitters(g) THEN [NoThread EXCEPT !.at = "waiting"]
                    ELSE NoThread]
    /\ UNCHANGED <<trafficVars, desired, slow>>

Toggle(g) ==
    /\ jitter[g].at = "waiting" /\ ~jitter[g].stop
    /\ jitter' = [jitter EXCEPT ![g].at = "calling", ![g].level = IF @ = Low THEN High ELSE Low]
    /\ UNCHANGED <<trafficVars, desired, trial, run, slow>>

\* A call for a group that is gone fails, and any call may.
ToggleEnds(g) ==
    /\ jitter[g].at = "calling"
    /\ \/ /\ desired[g] # Gone
          /\ desired' = [desired EXCEPT ![g] = jitter[g].level]
       \/ UNCHANGED desired
    /\ jitter' = [jitter EXCEPT ![g] = IF run = NoRun THEN NoThread ELSE [@ EXCEPT !.at = "waiting"]]
    /\ UNCHANGED <<trafficVars, trial, run, slow>>

ThreadEnds(g) ==
    /\ jitter[g].at = "waiting" /\ jitter[g].stop
    /\ jitter' = [jitter EXCEPT ![g].at = "off", ![g].level = Low]
    /\ UNCHANGED <<trafficVars, desired, trial, run, slow>>

\* jitter_thread.join(timeout=5): a thread that is not told to stop is not waited for.
Joined(g) ==
    \/ jitter[g].at = "off"
    \/ ~jitter[g].stop
    \/ slow /\ jitter[g].at = "calling"

----------------------------------------------------------------------------
(* --run: a trial                                                          *)

Goes(g, where) == trial' = [trial EXCEPT ![g].at = where]

\* Mutant: the jitter goes on until the finally.
StopOnlyAtTheEnd(g) ==
    /\ trial[g].at = "baseline" /\ Anomaly(g)
    /\ Goes(g, "join")
    /\ UNCHANGED <<trafficVars, desired, jitter, run, slow>>

\* The baseline is over: the jitter is stopped before the spike.
StopJitter(g) ==
    /\ trial[g].at = "baseline" /\ Anomaly(g)
    /\ jitter' = [jitter EXCEPT ![g].stop = Jitters(g)]
    /\ Goes(g, "join")
    /\ UNCHANGED <<trafficVars, desired, run, slow>>

JoinSpike(g) ==
    /\ trial[g].at = "join" /\ Joined(g) /\ desired[g] # Gone
    /\ desired' = [desired EXCEPT ![g] = Spike(g)]
    /\ trial' = [trial EXCEPT ![g].at = "sustain", ![g].spiked = TRUE]
    /\ UNCHANGED <<trafficVars, jitter, run, slow>>

\* What the group asked for it has, unless the quota is short.
InService(g) == IF Running <= Quota THEN {desired[g]} ELSE 0 .. desired[g]

\* One script looks whether the instances are there; the trial goes on without them.
Sustain(g) ==
    /\ trial[g].at = "sustain"
    /\ \E n \in InService(g) :
         trial' = [trial EXCEPT ![g].at = "after",
                                ![g].result = IF Jitters(g) /\ n < Spike(g) THEN "short" ELSE @]
    /\ UNCHANGED <<trafficVars, desired, jitter, run, slow>>

\* The second detection, for a normal group after the same time of jitter.
Measure(g) ==
    /\ trial[g].at = IF Anomaly(g) THEN "after" ELSE "baseline"
    /\ trial' = [trial EXCEPT ![g].at = "finally",
                             ![g].result = IF @ = "short" THEN @ ELSE "measured"]
    /\ UNCHANGED <<trafficVars, desired, jitter, run, slow>>

\* A detection or a call raises: the trial has no result that counts.
Raise(g) ==
    /\ trial[g].at \in {"baseline", "join", "sustain", "after"}
    /\ trial' = [trial EXCEPT ![g].at = "finally", ![g].result = "error"]
    /\ UNCHANGED <<trafficVars, desired, jitter, run, slow>>

Finally(g) ==
    /\ trial[g].at = "finally"
    /\ jitter' = [jitter EXCEPT ![g].stop = Jitters(g)]
    /\ Goes(g, "restore")
    /\ UNCHANGED <<trafficVars, desired, run, slow>>

\* A normal group stays where its jitter left it.
PutsBack(g) == trial[g].spiked

\* A restore that fails is logged for somebody to look at.
Restore(g) ==
    /\ trial[g].at = "restore" /\ Joined(g)
    /\ IF PutsBack(g)
         THEN \/ /\ desired' = [desired EXCEPT ![g] = Low]
                 /\ Goes(g, "ended")
              \/ UNCHANGED desired /\ Goes(g, "not restored")
         ELSE UNCHANGED desired /\ Goes(g, "ended")
    /\ UNCHANGED <<trafficVars, jitter, run, slow>>

\* The process ends, or is killed: its threads go, a call in flight does not.
Exit ==
    /\ run # NoRun
    /\ run' = NoRun
    /\ trial' = [g \in Groups |-> NoTrial]
    /\ jitter' = [g \in Groups |-> IF jitter[g].at = "calling" THEN jitter[g] ELSE NoThread]
    /\ UNCHANGED <<trafficVars, desired, slow>>

Starts == \E s \in Scripts : \E n \in CapacitySizes[s] : Setup(s, n) \/ Teardown(s, n) \/ Run(s, n)

Steps(g) ==
    \/ Toggle(g) \/ ToggleEnds(g) \/ ThreadEnds(g)
    \/ StopJitter(g) \/ JoinSpike(g) \/ Sustain(g) \/ Measure(g)
    \/ Raise(g) \/ Finally(g) \/ Restore(g)

Next ==
    \/ TrafficStarts /\ Idle /\ UNCHANGED scalingVars
    \/ TrafficSteps /\ UNCHANGED scalingVars
    \/ Starts
    \/ Exit
    \/ \E g \in Groups : Steps(g)

Spec == Init /\ [][Next]_vars

----------------------------------------------------------------------------
\* A run whose check held the quota is never short of the instances its spikes ask
\* for, whatever else is in the account, unless a larger setup left groups behind that
\* carry the tag the check takes for its own, or a late jitter took them back.
EnoughInstances ==
    run.checked /\ ~slow =>
        \A g \in run.members :
            trial[g].result = "short" => \E h \in Groups \ run.members : Jitters(h) /\ Size(h) > 0

\* What the second detection sees is the spike: while AWS answers within the join, no
\* jitter of the baseline takes the spike back before it is measured.
SpikeIsMeasured ==
    ~slow => \A g \in Groups : trial[g].at \in {"sustain", "after"} => desired[g] = Spike(g)

=============================================================================
