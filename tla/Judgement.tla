----------------------------- MODULE Judgement -----------------------------
(***************************************************************************)
(* What the three judging nodes make of a state: classification_agent.py,  *)
(* decision_agent.py and qa_agent.py, with the calls of utils/llm_utils.py *)
(* they fall back on.  An LLM call is the sequence of its keys' outcomes;  *)
(* a conversation is the sequence of its calls.                            *)
(***************************************************************************)
EXTENDS RuleEngine, Costs, Policy

\* call_gemini: a key that has used up its quota hands over to the next one;
\* any other error ends the call at once.
CallGemini(keys) ==
    LET open == {i \in DOMAIN keys : keys[i] # "quota"}
    IN  IF open = {} THEN "exhausted" ELSE keys[Min(open)]

\* _invoke_llm_with_retry, _call_llm: errors and unusable answers are tried
\* again, three calls in all; keys that are used up end it.
Ask(talk, usable) ==
    LET first  == [i \in 1 .. Min({3, Len(talk)}) |-> CallGemini(talk[i])]
        stops  == {i \in DOMAIN first : first[i] \in usable \cup {"exhausted"}}
        answer == first[Min(stops)]
    IN  IF stops = {} \/ answer = "exhausted" THEN None ELSE answer

\* classification_node: the rule book first, then the LLM, with any of the
\* conversations; None if neither names the anomaly.
ClassificationNode(rules, named, st, now, whitelist, talks) ==
    LET rule == MatchRules(rules, st, now, whitelist)
    IN  IF rule # "None" THEN {[rule |-> rule, anomaly |-> named[rule]]}
        ELSE {[rule |-> "None", anomaly |-> Ask(talk, AnomalyTypes)] : talk \in talks}

RULE_BASED_SCORES == ("NoAction" :> 0) @@ ("Stop" :> 90) @@ ("Stop+Schedule" :> 70)
    @@ ("Resize" :> 50) @@ ("Throttle" :> 40) @@ ("Block" :> 60) @@ ("ScaleDown" :> 60)

\* _rule_based_fallback_action: one of the best ones; max takes the first listed.
FallbackActions(allowed) ==
    {a \in allowed : \A b \in allowed : RULE_BASED_SCORES[a] >= RULE_BASED_SCORES[b]}

\* _select_action_with_llm: an answer outside the table is replaced.
LlmActions(allowed, answer) ==
    IF answer = None \/ answer \notin allowed THEN FallbackActions(allowed) ELSE {answer}

\* _score_components: the saving an action is recorded with.
SavingOf(action, st, tier) ==
    LET cost == st.metrics.cost
    IN  CASE action = "NoAction" -> NoSaving
          [] action \in TrendActions  -> TrendSaving(cost)
          [] action = "Stop"          -> FullRemovalSaving(cost, 100)
          [] action = "Stop+Schedule" -> FullRemovalSaving(cost, 50)
          [] action = "Resize"        -> Ec2ResizeSaving(cost, tier).saving

\* decision_node: the decisions it may reach; an action a rule names outside the
\* table becomes NoAction.
DecisionNode(rules, named, st, now, whitelist, talks, tiers) ==
    LET allowed == AllowedActions(st.type, st.anomaly)
        rule    == MatchRules(rules, st, now, whitelist)
        answers == {Ask(talk, Actions \cup {"Terminate"}) : talk \in talks}
        chosen  == IF rule = "None" THEN UNION {LlmActions(allowed, a) : a \in answers}
                   ELSE IF named[rule] \in allowed THEN {named[rule]} ELSE {"NoAction"}
    IN  {[ rule     |-> rule,
           action   |-> a,
           current  |-> CurrentCost(a, st.metrics.cost),
           saving   |-> SavingOf(a, st, tier).dollars,
           risk     |-> resolve_risk_level(st.anomaly, a),
           approval |-> RequiresApproval(resolve_risk_level(st.anomaly, a)),
           waf      |-> AppliesWaf(st.type, st.anomaly, a),
           target   |-> IF a = "Resize" THEN Ec2ResizeSaving(st.metrics.cost, tier).target
                        ELSE 0 ] : a \in chosen, tier \in tiers}

----------------------------------------------------------------------------
(* qa_agent.py *)

\* _check_cpu_sla on one metric: a limit for CPU, one and a half times the
\* mean of all but the newest three points for the others.
Settled(m, s) ==
    LET base == IF Len(s) > 3 THEN AllBut(s, 3) ELSE s
    IN  IF m = "cpu_utilization" THEN Last(s) <= 80
        ELSE Total(base) > 0 => 2 * Last(s) * Len(base) <= 3 * Total(base)

QaMetrics(st) ==
    IF st.triggered # {} THEN st.triggered \cap DOMAIN st.metrics
    ELSE {"cpu_utilization"} \cap DOMAIN st.metrics

CheckCpuSla(st) == \A m \in QaMetrics(st) : Settled(m, st.metrics[m])

\* _check_cost_sla: at most a tenth over the mean of the points before.
CheckCostSla(cost) ==
    10 * Last(cost) * (Len(cost) - 1) <= 11 * Total(Front(cost))

Unsuccessful(st) == st.result \in {"failed", "not_implemented"}

\* qa_node: a whitelisted resource passes, then the rule book decides, then the
\* checks; where they have nothing to look at, the LLM may say either.
QaNode(rules, forced, st, now, whitelist) ==
    LET rule    == MatchRules(rules, st, now, whitelist)
        unclear == \/ st.triggered = {} /\ QaMetrics(st) = {}
                   \/ Len(st.metrics.cost) < 2
        listed  == WhitelistEntry(whitelist, st.resource, st.type, now) # "None"
        force   == listed \/ (rule # "None" /\ forced[rule])
        verdicts ==
            IF force \/ st.action \in {"NoAction", None} THEN {TRUE}
            ELSE IF Unsuccessful(st) THEN {FALSE}
            ELSE IF unclear THEN BOOLEAN
            ELSE {/\ CheckCpuSla(st)
                  /\ CheckCostSla(st.metrics.cost)
                  /\ st.result = "success"}
    IN  {[forced |-> force, pass |-> pass] : pass \in verdicts}
=============================================================================
