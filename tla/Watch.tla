------------------------------- MODULE Watch -------------------------------
(***************************************************************************)
(* One resource under watch: its readings slide through the window that    *)
(* pipeline/cloudwatch_client.py fetches, and now and then the pipeline    *)
(* detects, classifies, decides, acts and, one period later, verifies,     *)
(* with the rule book of schema/rules.  Approval and rollback belong to    *)
(* Recovery; here a run ends with the verdict.                             *)
(***************************************************************************)
EXTENDS Judgement

CONSTANTS Watched,      \* resource types
          Readings,     \* Readings[t]: what a period of a resource may look like
          MaxChanges,   \* bound: MaxChanges[t] changes of the reading within a window
          ClfRules, DecRules, QaRules,  \* the enabled rules, in order
          Named,        \* Named[id]: the anomaly or action the rule id names
          Forced,       \* Forced[id]: force_pass of a QA rule
          Whitelist,
          Clock,        \* times of day and week
          ClfTalks,     \* the calls of the LLM and the answers of its keys, classifying
          DecTalks      \* and deciding

VARIABLES type,    \* the type of the resource
          window,  \* window[m]: what its newest N_POINTS readings have under m, oldest first
          run      \* the run under way, or just ended

watchVars == <<type, window, run>>

N_POINTS  == 30
RESOURCE  == "resource"
TIER      == 2       \* its instance type, t3.small
MAX_SIZE  == 4       \* of its group

NoRun == [stage |-> "none"]

----------------------------------------------------------------------------
(* What the pipeline sees of the readings.                                 *)

\* The metrics METRIC_SPEC names for a type: not the requests of a group's ALB.
METRIC_SPEC ==
    [ EC2         |-> {"cpu_utilization", "network_in", "network_out"},
      Lambda      |-> {"invocation_count", "error_count", "throttle_count"},
      AutoScaling |-> {"group_desired_capacity"},
      S3          |-> {"number_of_requests", "bytes_downloaded"} ]

\* What a reading has: those, whether an instance is on, and the requests of the ALB.
Measured(t) ==
    METRIC_SPEC[t] \cup {m \in {"on"} : t = "EC2"} \cup {m \in {"request_count"} : t = "AutoScaling"}

ASSUME WatchAssumption ==
    /\ Watched \subseteq DOMAIN METRIC_SPEC
    /\ \A t \in Watched : \A r \in Readings[t] :
         /\ DOMAIN r = Measured(t)
         /\ \A m \in Measured(t) : r[m] \in IF m = "on" THEN BOOLEAN ELSE Nat
    /\ ClfRules \in Seq(ToSet(ClfRules))

FetchMetrics(names) == [m \in names |-> window[m]]

\* The starts and stops of an instance within the window (CloudTrail): after which
\* points, and whether it runs from there on.
StateChangeEvents(on) ==
    [i \in {j \in 1 .. N_POINTS - 1 : on[j] # on[j + 1]} |-> on[i + 1]]

\* assemble_resource, with the metrics a demo script adds to it.
AssembleResource(extra) ==
    LET usage  == FetchMetrics(METRIC_SPEC[type])
        events == IF type = "EC2" THEN StateChangeEvents(window.on) ELSE <<>>
    IN  [m \in METRIC_SPEC[type] \cup extra \cup {"cost"} |->
            IF m = "cost" THEN EstimateCostSeries(type, TIER, usage, events, N_POINTS)
            ELSE window[m]]

\* _fetch_ec2_age_seconds: minutes since the last start, -1 if the call fails.
Ages ==
    LET off == {i \in 1 .. N_POINTS : ~ window.on[i]}
    IN  IF type # "EC2" THEN {-1} ELSE {-1, 5 * (N_POINTS - Max(off \cup {0}))}

\* What the script of a demo adds: edos_real.py the requests of the ALB.
Extras == IF type = "AutoScaling" THEN {{}, {"request_count"}} ELSE {{}}

\* discover_ec2_instances looks for running instances only.
Discovered == type = "EC2" => Last(window.on)

----------------------------------------------------------------------------

Changes(w) ==
    Cardinality({i \in 1 .. N_POINTS - 1 : \E m \in DOMAIN w : w[m][i] # w[m][i + 1]})

WatchInit ==
    /\ type \in Watched
    /\ \E r \in Readings[type] : 
            window = [m \in DOMAIN r |-> [i \in 1 .. N_POINTS |-> r[m]]]
    /\ run = NoRun

\* Five minutes pass; a run that has acted comes to its verification.
Arrive(r) ==
    /\ run.stage # "verifying"
    /\ window' = [m \in DOMAIN r |-> Append(Tail(window[m]), r[m])]
    /\ Changes(window') <= MaxChanges[type]
    /\ run' = IF run.stage = "acted" THEN [run EXCEPT !.stage = "verifying"] ELSE NoRun
    /\ UNCHANGED type

\* What action_node may report: Block is not implemented for EC2.
Results(action) ==
    CASE action = "NoAction"                 -> {"success"}
      [] type = "EC2" /\ action = "Block"    -> {"not_implemented"}
      [] OTHER                               -> {"success", "failed"}

\* describe_instances may not tell the instance type.
Lookups == IF type = "EC2" THEN {0, TIER} ELSE {TIER}

\* What decision_node adds for an EDoS suspect.
AvoidedCosts(waf) ==
    IF waf THEN AvoidedScalingCosts(MAX_SIZE, Last(window.group_desired_capacity), TIER)
    ELSE {-1}

\* The loop or a demo script runs the graph on the resource up to the action.
Poll(extra, age) ==
    LET metrics == AssembleResource(extra) IN
    /\ run.stage \in {"none", "done"} /\ Discovered
    /\ \E forest \in ForestVerdicts(type, metrics, age) :
       LET seen == DetectionNode(type, metrics, age, forest)
           st   == [type |-> type, resource |-> RESOURCE, metrics |-> metrics,
                    triggered |-> seen.triggered, band |-> seen.band, anomaly |-> None]
       IN
       /\ seen.anomaly
       /\ \E now \in Clock :
          \E class \in ClassificationNode(ClfRules, Named, st, now, Whitelist, ClfTalks) :
          LET judged == [st EXCEPT !.anomaly = class.anomaly] IN
          \E d \in DecisionNode(DecRules, Named, judged, now, Whitelist, DecTalks, Lookups) :
          \E avoided \in AvoidedCosts(d.waf), result \in Results(d.action) :
              run' = [stage |-> "acted", type |-> type, resource |-> RESOURCE,
                      metrics |-> metrics, triggered |-> seen.triggered, band |-> seen.band,
                      anomaly |-> class.anomaly, age |-> age, byZ |-> seen.byZ,
                      class |-> class.rule,
                      whitelisted |-> WhitelistEntry(Whitelist, RESOURCE, type, now),
                      action |-> d.action, current |-> d.current,
                      saving |-> d.saving, avoided |-> avoided, result |-> result]
    /\ UNCHANGED <<type, window>>

\* qa_node; the new metrics take the place of the old ones if they can be fetched.
Verify(fetched, now) ==
    LET st == [run EXCEPT !.metrics =
                  IF fetched /\ run.action # "NoAction" THEN AssembleResource({}) ELSE @]
    IN
    /\ run.stage = "verifying"
    /\ \E verdict \in QaNode(QaRules, Forced, st, now, Whitelist) :
          run' = [stage |-> "done", action |-> run.action, result |-> run.result,
                  forced |-> verdict.forced, pass |-> verdict.pass]
    /\ UNCHANGED <<type, window>>

WatchNext ==
    \/ \E r \in Readings[type] : Arrive(r)
    \/ \E extra \in Extras, age \in Ages : Poll(extra, age)
    \/ \E fetched \in BOOLEAN, now \in Clock : Verify(fetched, now)

WatchSpec == WatchInit /\ [][WatchNext]_watchVars
=============================================================================
