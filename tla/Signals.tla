------------------------------ MODULE Signals ------------------------------
(***************************************************************************)
(* The checks of pipeline/detection_agent.py that need no trained model:   *)
(* z-score, EC2 utilisation and the Lambda rates.  A metric is a sequence  *)
(* of integers, oldest first; the divisions of the code are multiplied     *)
(* out, and its epsilon under the z-score is left out.                     *)
(***************************************************************************)
EXTENDS Integers, Sequences, SequencesExt, FiniteSetsExt

\* The sum of the values, and of their squares.
Total(s) ==
    LET upTo[i \in 0 .. Len(s)] == IF i = 0 THEN 0 ELSE upTo[i - 1] + s[i]
    IN  upTo[Len(s)]

Squares(s) == Total([i \in DOMAIN s |-> s[i] * s[i]])

\* s[-k:], all of s if it is shorter
Newest(s, k) == SubSeq(s, Max({1, Len(s) - k + 1}), Len(s))

\* s[:-k]
AllBut(s, k) == SubSeq(s, 1, Len(s) - k)

All(s, P(_)) == \A i \in DOMAIN s : P(s[i])

Z_SCORE_THRESHOLD   == [num |-> 11, den |-> 4]      \* 2.75
PERSISTENCE_POINTS  == 3
Z_SCORE_TARGETS     == {"cost", "network_in", "invocation_count", "number_of_requests",
                        "bytes_downloaded", "async_event_age", "request_count"}

\* The points with |x - mu| / sigma > limit, by n*x - sum and n*squares - sum^2.
Outliers(s, limit) ==
    LET n == Len(s)  sum == Total(s)  spread == Len(s) * Squares(s) - sum * sum
    IN  {i \in DOMAIN s : limit.den * limit.den * (n * s[i] - sum) * (n * s[i] - sum)
                              > limit.num * limit.num * spread}

NewestPoints(s) == Max({1, Len(s) - PERSISTENCE_POINTS + 1}) .. Len(s)

\* Each of the newest points deviates: the alert.
ZscorePersistent(s) ==
    Len(s) >= 2 /\ NewestPoints(s) \subseteq Outliers(s, Z_SCORE_THRESHOLD)

IDLE_METRICS == {"cpu_utilization", "network_in", "network_out"}

\* Mutant: a young instance is judged like any other.
LowUtilization_IgnoresAge(type, metrics, age) ==
    LET peak    == Max(ToSet(metrics.cpu_utilization))
        traffic == Total(metrics.network_in) + Total(metrics.network_out)
    IN  IF type # "EC2" \/ traffic > 533 \/ peak > 20 THEN "None"
        ELSE IF peak <= 5 THEN "zombie" ELSE "overprovisioned"

\* _low_utilization_check: the band of an EC2 instance, or None.  age is in
\* minutes, -1 if unknown; the traffic limit is 5 MB a day, in KiB of 2.5 hours.
LowUtilization(type, metrics, age) ==
    LET peak    == Max(ToSet(metrics.cpu_utilization))
        traffic == Total(metrics.network_in) + Total(metrics.network_out)
    IN  IF \/ type # "EC2"
           \/ ~ (IDLE_METRICS \subseteq DOMAIN metrics)
           \/ age \in 0 .. 149
           \/ traffic > 533 \/ peak > 20
        THEN "None"
        ELSE IF peak <= 5 THEN "zombie" ELSE "overprovisioned"

\* A rate in thousandths, 0 where there is too little traffic.
Rate(part, whole) == IF whole >= 10 THEN (1000 * part) \div whole ELSE 0

\* _derived_features: the columns beside the metrics themselves.
DerivedFeatures(type, metrics, age) ==
    LET n  == Len(metrics[CHOOSE m \in DOMAIN metrics : TRUE])
        is == type = "Lambda" /\ "invocation_count" \in DOMAIN metrics
        calls == metrics.invocation_count
    IN  [ ec2_idle_flag |-> LowUtilization(type, metrics, age) # "None",
          lambda_error_rate |->
            [i \in 1 .. n |-> IF is /\ "error_count" \in DOMAIN metrics
                              THEN Rate(metrics.error_count[i], calls[i]) ELSE 0],
          throttle_rate |->
            [i \in 1 .. n |-> IF is /\ "throttle_count" \in DOMAIN metrics
                THEN Rate(metrics.throttle_count[i], metrics.throttle_count[i] + calls[i])
                ELSE 0] ]

\* build_unified_feature_matrix: a row for each point; the type and the metrics it
\* does not have are the same in every row.
FeatureMatrix(type, metrics, age) ==
    LET derived == DerivedFeatures(type, metrics, age)
    IN  [i \in DOMAIN derived.throttle_rate |->
            [metric   |-> [m \in DOMAIN metrics |-> metrics[m][i]],
             idle     |-> derived.ec2_idle_flag,
             error    |-> derived.lambda_error_rate[i],
             throttle |-> derived.throttle_rate[i]]]

\* _normalized_scores in thousandths: the window's own lowest raw score is 1000;
\* where all are the same, the sign the model gives them decides.
NormalizedScores(raw) ==
    LET lo == Min(ToSet(raw))  hi == Max(ToSet(raw))
    IN  [i \in DOMAIN raw |->
            IF lo = hi THEN (IF lo < 0 THEN 1000 ELSE 0)
            ELSE (1000 * (hi - raw[i])) \div (hi - lo)]

IFOREST_THRESHOLD == 500

\* _iforest_score_and_trigger: the newest points are all over the threshold.
ForestTriggers(raw) ==
    All(Newest(NormalizedScores(raw), PERSISTENCE_POINTS), LAMBDA v : v > IFOREST_THRESHOLD)

\* What any trained model may say of a window: it scores rows, and may take each
\* for an outlier; without a model none is one.
ForestVerdicts(type, metrics, age) ==
    LET matrix == FeatureMatrix(type, metrics, age)
    IN  {ForestTriggers([i \in DOMAIN matrix |-> score[matrix[i]]]) :
            score \in [ToSet(matrix) -> {-1, 1}]}

\* detection_node on the derived error rate.
ErrorSurge(derived) ==
    All(Newest(derived.lambda_error_rate, PERSISTENCE_POINTS), LAMBDA v : v >= 500)

\* detection_node: the anomaly, what it is attributed to, and the EC2 band;
\* forest is the trained model's verdict on the same window.
DetectionNode(type, metrics, age, forest) ==
    LET derived == DerivedFeatures(type, metrics, age)
        byZ     == {m \in DOMAIN metrics \cap Z_SCORE_TARGETS : ZscorePersistent(metrics[m])}
    IN  [ anomaly   |-> byZ # {} \/ forest \/ derived.ec2_idle_flag,
          byZ       |-> byZ,
          triggered |-> byZ
                \cup (IF derived.ec2_idle_flag THEN IDLE_METRICS ELSE {})
                \cup (IF ErrorSurge(derived) THEN {"error_count", "invocation_count"} ELSE {}),
          band      |-> LowUtilization(type, metrics, age) ]
=============================================================================
