------------------------------- MODULE Policy -------------------------------
(***************************************************************************)
(* The decision tables of the pipeline: which actions an anomaly allows on *)
(* a resource, how risky an action is, and who has to approve it.          *)
(* schema/state.py (tables, resolve_risk_level) and the part of            *)
(* pipeline/decision_agent.py that narrows the choice of an action.        *)
(***************************************************************************)
EXTENDS Integers

\* Python's None, where a field of PipelineState is Optional.
None == "None"

AnomalyTypes  == {"cost_inefficiency", "cost_spike", "risk_security"}
ResourceTypes == {"EC2", "Lambda", "AutoScaling", "S3", "RDS"}
Actions       == {"NoAction", "Stop", "Stop+Schedule", "Resize",
                  "Throttle", "ScaleDown", "Block"}
RiskLevels    == {"LOW", "MED", "HIGH"}

ALLOWED_ACTIONS ==
  [ cost_inefficiency |-> {"NoAction", "Stop", "Stop+Schedule", "Resize"},
    cost_spike        |-> {"NoAction", "Throttle", "Block", "ScaleDown"},
    risk_security     |-> {"NoAction", "Block", "ScaleDown"} ]

RESOURCE_IMPLEMENTED_ACTIONS ==
  [ EC2         |-> {"NoAction", "Stop", "Resize", "Block"},
    Lambda      |-> {"NoAction", "Throttle", "Block"},
    AutoScaling |-> {"NoAction", "ScaleDown", "Block"},
    S3          |-> {"NoAction", "Block"},
    RDS         |-> {"NoAction"} ]

(***************************************************************************)
(* The candidates decision_node offers to the rule book and to the LLM.    *)
(* An anomaly the classifier could not name (None) allows only NoAction.   *)
(***************************************************************************)
AllowedActions(type, anomaly) ==
  LET permitted == IF anomaly \in AnomalyTypes
                     THEN ALLOWED_ACTIONS[anomaly] ELSE {"NoAction"}
      narrowed  == permitted \cap RESOURCE_IMPLEMENTED_ACTIONS[type]
  IN  IF narrowed = {} THEN {"NoAction"} ELSE narrowed

RISK_ORDER == [LOW |-> 0, MED |-> 1, HIGH |-> 2]

DefaultRisk(anomaly) ==
  CASE anomaly = "cost_inefficiency" -> "LOW"
    [] anomaly = "cost_spike"        -> "MED"
    [] OTHER                         -> "HIGH"

RiskFloor(action) ==
  CASE action \in {"Stop+Schedule", "Resize"} -> "MED"
    [] action = "Block"                       -> "HIGH"
    [] OTHER                                  -> "LOW"

\* The anomaly's default risk, raised (never lowered) to the action's floor.
resolve_risk_level(anomaly, action) ==
  LET base  == DefaultRisk(anomaly)
      floor == RiskFloor(action)
  IN  IF RISK_ORDER[base] >= RISK_ORDER[floor] THEN base ELSE floor

RequiresApproval(risk) == risk \in {"MED", "HIGH"}

\* decision_node's is_edos_scaledown.
AppliesWaf(type, anomaly, action) ==
  /\ type = "AutoScaling"
  /\ action = "ScaleDown"
  /\ anomaly = "risk_security"
=============================================================================
