----------------------------- MODULE RuleEngine -----------------------------
(***************************************************************************)
(* pipeline/rule_engine.py: the first enabled rule, in the order of the    *)
(* priorities, whose conditions a state meets.  A rule is a record; a      *)
(* condition it does not have is None, or {} where it is a set.            *)
(***************************************************************************)
EXTENDS Signals

Mean2(s) == <<Total(s), Len(s)>>   \* numerator and denominator

\* load_rules: the enabled rules, lowest priority first, file order kept.
LoadRules(file) ==
    LET enabled == SelectSeq(file, LAMBDA rule : rule.enabled)
        before(i, j) == \/ enabled[i].priority < enabled[j].priority
                        \/ enabled[i].priority = enabled[j].priority /\ i < j
        order == SortSeq([i \in DOMAIN enabled |-> i], before)
    IN  [n \in DOMAIN order |-> enabled[order[n]]]

\* hour is in [from, to), the interval passing midnight if from > to.
InHours(hour, from, to) ==
    IF from <= to THEN from <= hour /\ hour < to ELSE hour >= from \/ hour < to

\* is_whitelisted's conditions on one entry.  now has the day and the hour in
\* UTC, and hour and weekday in the zone of the rule book's time windows.
Covers(entry, resource, type, now) ==
    /\ \A day \in entry.from  : now.day >= day
    /\ \A day \in entry.until : now.day <= day
    /\ entry.category = "recurring_hours" => InHours(now.utc, entry.start, entry.end)
    /\ entry.type \in {"None", type}
    /\ resource \in entry.resources

\* is_whitelisted: the first entry that covers the resource, or None.
WhitelistEntry(whitelist, resource, type, now) ==
    LET hits == {i \in DOMAIN whitelist : Covers(whitelist[i], resource, type, now)}
    IN  IF hits = {} THEN "None" ELSE whitelist[Min(hits)].category

\* _extract_spike_metrics: the newest value is twice the mean or more.
SpikeMetrics(metrics) ==
    {m \in DOMAIN metrics :
        LET mean == Mean2(metrics[m])
        IN  mean[1] > 0 /\ Last(metrics[m]) * mean[2] >= 2 * mean[1]}

\* _evaluate_metric_thresholds for the two comparisons the rule book uses.
MeetsThreshold(t, metrics) ==
    /\ t.metric \in DOMAIN metrics
    /\ LET latest == Last(metrics[t.metric])
           mean   == Mean2(metrics[t.metric])
       IN  CASE t.op = ">"  -> latest * mean[2] > t.factor * mean[1]
             [] t.op = ">=" -> latest * mean[2] >= t.factor * mean[1]

\* Mutant: half of the recent points are enough.
Sustained_Half(c, metrics) ==
    LET s == metrics[c.metric]
        recent == Max({c.minPoints, (2 * Len(s) + 5) \div 10})
        base == Mean2(AllBut(s, recent))
        newest == Newest(s, recent)
        above == {i \in DOMAIN newest : newest[i] * base[2] > c.factor * base[1]}
    IN  2 * Cardinality(above) >= recent

\* _evaluate_sustained_fraction: of the newest fifth of the window, c.percent
\* of the points or more are over c.factor times the mean of the rest.
Sustained(c, metrics) ==
    /\ c.metric \in DOMAIN metrics
    /\ LET s      == metrics[c.metric]
           recent == Max({c.minPoints, (2 * Len(s) + 5) \div 10})
           base   == Mean2(AllBut(s, recent))
           newest == Newest(s, recent)
           above  == {i \in DOMAIN newest : newest[i] * base[2] > c.factor * base[1]}
       IN  /\ Len(s) > recent
           /\ base[1] > 0
           /\ 100 * Cardinality(above) >= c.percent * recent

\* check_time_window: the last hour is part of the window.
InTimeWindow(w, now) ==
    /\ "*" \in w.days \/ now.weekday \in w.days
    /\ IF w.start <= w.end THEN now.hour \in w.start .. w.end
       ELSE now.hour >= w.start \/ now.hour <= w.end

\* evaluate_conditions: every condition the rule has is met; spikes is what
\* triggered the detection or, if it names nothing, what _extract_spike_metrics finds.
EvaluateConditions(rule, st, spikes, now, whitelist) ==
    LET c == rule.conditions
    IN  /\ c.triggered \subseteq spikes
        /\ \A t \in c.thresholds : MeetsThreshold(t, st.metrics)
        /\ \A f \in c.sustained  : Sustained(f, st.metrics)
        /\ c.skipWhitelisted =>
              WhitelistEntry(whitelist, st.resource, st.type, now) # "event_period"
        /\ \A w \in c.windows    : InTimeWindow(w, now)
        /\ c.action # {} => st.action \in c.action
        /\ c.band # "None" => st.band = c.band
        /\ c.anomaly # "None" => st.anomaly = c.anomaly

\* match_classification_rules, match_decision_rules, match_qa_rules.
MatchRules(rules, st, now, whitelist) ==
    LET spikes == IF st.triggered # {} THEN st.triggered ELSE SpikeMetrics(st.metrics)
        hits   == {i \in DOMAIN rules :
                      /\ "*" \in rules[i].types \/ st.type \in rules[i].types
                      /\ EvaluateConditions(rules[i], st, spikes, now, whitelist)}
    IN  IF hits = {} THEN "None" ELSE rules[Min(hits)].id
=============================================================================
