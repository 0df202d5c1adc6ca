---------------------------- MODULE MCDetection ----------------------------
(***************************************************************************)
(* The forest files shared by two processes; the run of the comparison     *)
(* programs, assembled by hand and as a LangGraph; and a run that judges a *)
(* window by the rule book of schema/rules as it is shipped, over small    *)
(* sets of readings, times and LLM conversations.                          *)
(* The three share nothing: a behaviour is of one, and the others stay as  *)
(* they began.                                                             *)
(***************************************************************************)
EXTENDS DetectionProperties, Comparison, WatchProperties

VARIABLE part  \* which of the three this behaviour is of

MCInit ==
    /\ part \in {"forest", "assemblies", "judgement"}
    /\ Init /\ ComparisonInit /\ WatchInit
    /\ part # "assemblies" => input = CHOOSE i \in Inputs : TRUE
    /\ part # "judgement" => /\ type = CHOOSE t \in Watched : TRUE
                             /\ \E r \in {CHOOSE x \in Readings[type] : TRUE} :
                                  \A m \in DOMAIN r : window[m][1] = r[m]

MCNext ==
    /\ UNCHANGED part
    /\ \/ part = "forest" /\ Next /\ UNCHANGED <<comparisonVars, watchVars>>
       \/ part = "assemblies" /\ ComparisonNext /\ UNCHANGED <<vars, watchVars>>
       \/ part = "judgement" /\ WatchNext /\ UNCHANGED <<vars, comparisonVars>>

MCSpec == MCInit /\ [][MCNext]_<<part, vars, comparisonVars, watchVars>>

-----------------------------------------------------------------------------
AnyState == [triggered |-> {}, thresholds |-> {}, sustained |-> {},
             skipWhitelisted |-> FALSE, windows |-> {}, action |-> {},
             band |-> "None", anomaly |-> "None"]

Rule(id, types, priority, conditions) ==
    [id |-> id, types |-> types, priority |-> priority, enabled |-> TRUE,
     conditions |-> conditions @@ AnyState]

Threshold == [metric |-> "request_count", op |-> ">", factor |-> 2]

\* classification_rules.json; CLF-008 is disabled and has no condition left.
MCClfRules == LoadRules(<<
    Rule("CLF-001", {"AutoScaling"}, 10,
         [thresholds |-> {Threshold}, sustained |-> {Sixty}, skipWhitelisted |-> TRUE]),
    Rule("CLF-002", {"Lambda"}, 20, [triggered |-> {"invocation_count", "error_count"}]),
    Rule("CLF-007", {"Lambda"}, 25, [triggered |-> {"throttle_count"}]),
    Rule("CLF-003", {"S3"}, 15, [triggered |-> {"bytes_downloaded"}]),
    Rule("CLF-004", {"EC2"}, 50, [triggered |-> {"cost"}]),
    Rule("CLF-005", {"RDS"}, 50, [triggered |-> {"cost"}]),
    Rule("CLF-006", {"Lambda"}, 100, [triggered |-> {"cost", "invocation_count"}]),
    Rule("CLF-007", {"Lambda"}, 100, [triggered |-> {"duration_avg", "invocation_count"}]),
    [Rule("CLF-008", {"EC2"}, 50, AnyState) EXCEPT !.enabled = FALSE] >>)

\* decision_rules.json
MCDecRules == LoadRules(<<
    Rule("DEC-001", {"EC2"}, 10, [anomaly |-> "cost_inefficiency", band |-> "zombie"]),
    Rule("DEC-001b", {"EC2"}, 10,
         [anomaly |-> "cost_inefficiency", band |-> "overprovisioned"]),
    Rule("DEC-002", {"Lambda"}, 10, [anomaly |-> "cost_spike"]),
    Rule("DEC-003", {"AutoScaling"}, 10, [anomaly |-> "risk_security"]),
    Rule("DEC-004", {"S3"}, 10, [anomaly |-> "risk_security"]) >>)

\* qa_rules.json
MCQaRules == LoadRules(<<
    Rule("QA-001", {"*"}, 1, [action |-> {"NoAction", "None"}]),
    Rule("QA-002", {"*"}, 5, [windows |-> {[start |-> 2, end |-> 6, days |-> {"*"}]}]),
    Rule("QA-003", {"EC2", "RDS"}, 10,
         [windows |-> {[start |-> 0, end |-> 23, days |-> {"SAT", "SUN"}]}]),
    Rule("QA-004", {"Lambda"}, 15, [action |-> {"Throttle"}]),
    Rule("QA-005", {"*"}, 3, [action |-> {"Block"}]) >>)

MCNamed ==
    [ i \in {"CLF-001", "CLF-003"} |-> "risk_security" ]
    @@ [ i \in {"CLF-002", "CLF-006", "CLF-007"} |-> "cost_spike" ]
    @@ [ i \in {"CLF-004", "CLF-005"} |-> "cost_inefficiency" ]
    @@ ("DEC-001" :> "Stop") @@ ("DEC-001b" :> "Resize") @@ ("DEC-002" :> "Throttle")
    @@ ("DEC-003" :> "ScaleDown") @@ ("DEC-004" :> "Block")

MCForced == [i \in {"QA-001", "QA-002", "QA-003", "QA-005"} |-> TRUE] @@ ("QA-004" :> FALSE)

MCWatched == {"EC2", "Lambda", "AutoScaling", "S3"}

Lambda(calls, errors, throttles) ==
    [invocation_count |-> calls, error_count |-> errors, throttle_count |-> throttles]

MCReadings ==
    [ EC2 |-> {[cpu_utilization |-> 3,  network_in |-> 2, network_out |-> 1, on |-> TRUE],
               [cpu_utilization |-> 15, network_in |-> 9, network_out |-> 1, on |-> TRUE],
               [cpu_utilization |-> 0,  network_in |-> 0, network_out |-> 0, on |-> FALSE]},
      Lambda |-> {Lambda(40, 0, 0), Lambda(4, 4, 0), Lambda(20, 10, 30)},
      AutoScaling |-> {[request_count |-> 10, group_desired_capacity |-> 1],
                       [request_count |-> 90, group_desired_capacity |-> 1],
                       [request_count |-> 90, group_desired_capacity |-> 3]},
      S3 |-> {[number_of_requests |-> 5,  bytes_downloaded |-> 10],
              [number_of_requests |-> 50, bytes_downloaded |-> 90]} ]

\* A pulse within the window of a bucket, a jump for those with three readings.
MCMaxChanges == [EC2 |-> 1, Lambda |-> 1, AutoScaling |-> 1, S3 |-> 2]

\* A release on day 7: its traffic is announced.
MCWhitelist ==
    << [category |-> "event_period", from |-> {7}, until |-> {7}, type |-> "AutoScaling",
        resources |-> {"resource"}, start |-> 0, end |-> 0] >>

\* Noon of a day before the release and the night of it, which is a Saturday.
MCClock == {[day |-> 6, utc |-> 3,  hour |-> 12, weekday |-> "FRI"],
            [day |-> 7, utc |-> 19, hour |-> 4,  weekday |-> "SAT"]}

\* A call is what its keys answer, in their order, "quota" for a 429.
MCClfTalks == {<< <<"quota", "quota">> >>,
               << <<"junk">>, <<"quota", "risk_security">> >>,
               << <<"cost_inefficiency">> >>}
MCDecTalks == {<< <<"error">>, <<"quota", "error">>, <<"error">> >>,
               << <<"Resize">> >>,
               << <<"quota", "NoAction">> >>}
=============================================================================
