-------------------------- MODULE WatchProperties --------------------------
(***************************************************************************)
(* What detection, rule book, savings and verification owe to each other.  *)
(***************************************************************************)
EXTENDS Watch

\* The condition of CLF-001 in schema/rules/classification_rules.json: most of the
\* newest points have to be high, not only the newest one.
Sixty == [metric |-> "request_count", factor |-> 2, percent |-> 60, minPoints |-> 3]

ASSUME RuleBookAssumption ==
    \A i \in DOMAIN ClfRules :
        ClfRules[i].id = "CLF-001" => Sixty \in ClfRules[i].conditions.sustained

\* One jump, at any time, and nothing else in the window.
OneJump(s) == Cardinality({i \in 1 .. Len(s) - 1 : s[i] # s[i + 1]}) = 1

\* The z-score cannot start the EDoS rule on a clean jump of the requests: its
\* alert has passed when enough points for CLF-001 have come, so that the rule
\* depends on the forest (detection_agent.py:264-293, rule_engine.py:313-345).
RuleNeedsForest ==
    run.stage = "acted" /\ run.class = "CLF-001" /\ OneJump(run.metrics.request_count)
        => "request_count" \notin run.byZ

\* No action is recorded with a saving larger than what its resource costs, which
\* the cost after it, cut off at 0, would hide.  A resize needs an instance that
\* was on all the time: it saves the difference of two full hours, while the cost
\* is the mean of a window that may be mostly off (decision_agent.py:310-404, 980-997).
SavingWithinCost ==
    (/\ run.stage = "acted" /\ run.action # "NoAction"
     /\ run.action = "Resize" => \A i \in 1 .. N_POINTS : window.on[i])
        => run.saving <= run.current

\* A cost that raised the z-score alert by a jump upwards is worth something to
\* the action that curbs it; a rise of one unit may be lost to the division
\* (detection_agent.py:264-293, decision_agent.py:370-404).
AlertedRiseSaves ==
    (/\ run.stage = "acted" /\ "cost" \in run.byZ /\ OneJump(run.metrics.cost)
     /\ Last(run.metrics.cost) > Head(run.metrics.cost) + 1
     /\ run.action \in TrendActions)
        => run.saving > 0

\* The two together: the saving a run is recorded with is neither more than there
\* was to save nor nothing where something rose.
SavingsAreSound == SavingWithinCost /\ AlertedRiseSaves

\* An instance that was off during the window is not judged idle for the zeros of
\* that time, as long as its start is known (detection_agent.py:296-356,
\* orchestrator.py:25-36).
FreshInstanceIsSpared ==
    run.stage = "acted" /\ type = "EC2" /\ run.band # "None" /\ run.age # -1
        => \A i \in 1 .. N_POINTS - 1 : window.on[i]

=============================================================================
